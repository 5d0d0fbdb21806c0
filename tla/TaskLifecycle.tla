---------------------------- MODULE TaskLifecycle ----------------------------
(***************************************************************************)
(* The task / execution / lease state machine of the AgentGuild backend:   *)
(* the aggregates of internal/domain, the commands of internal/application *)
(* and internal/review that change them, the reaper of internal/postgres,  *)
(* and the optimistic concurrency control (state_version) and row locks    *)
(* (FOR UPDATE, SKIP LOCKED) through which they share the two tables.      *)
(*                                                                         *)
(* Every command is one READ COMMITTED transaction.  It is modelled by two *)
(* actions: XRead, the statement that loads the rows (taking the row lock  *)
(* when the query says FOR UPDATE) followed by the checks of the domain    *)
(* objects on what was loaded, and XCommit, the UPDATEs that compare       *)
(* state_version with the loaded value.  Anything may happen in between.   *)
(* A command that a check refuses changes nothing and is not a step; an    *)
(* UPDATE that matches no row, an error or a crash is Rollback.            *)
(*                                                                         *)
(* A transaction reads the clock once, before it waits for anything: the   *)
(* `now' it uses may be up to MaxStall ticks old when it gets its rows.    *)
(***************************************************************************)
EXTENDS Integers, FiniteSets

CONSTANTS
  Tasks,                 \* task ids
  Execs,                 \* execution ids
  Agents,                \* agent versions that claim and execute
  Publishers,            \* agent versions that publish
  SystemIssuePublisher,  \* domain.SystemIssuePublisherID, the issue sync
  Procs,                 \* database sessions
  Deadlines,             \* the deadlines tasks are published with
  LeaseTerm,             \* LeaseDuration + LeaseGrace, in ticks
  BatchLimit,            \* the LIMIT of one reaper batch
  MaxClock, MaxGen, MaxVer, MaxStall,  \* bounds of the instance
  None

ASSUME LifecycleAssumption ==
  /\ Deadlines \subseteq Nat
  /\ LeaseTerm \in Nat \ {0}
  /\ BatchLimit \in Nat \ {0}
  /\ MaxClock \in Nat /\ MaxGen \in Nat /\ MaxVer \in Nat /\ MaxStall \in Nat
  /\ None \notin Tasks \cup Execs \cup Agents \cup Publishers \cup Procs
  /\ SystemIssuePublisher # None

VARIABLES
  task,    \* the tasks table
  exec,    \* the executions table
  event,   \* type of the last task event (and outbox event) of each task
  txn,     \* the open transaction of each session
  lock,    \* which session holds the row lock of an execution
  granted, \* when the current lease generation was committed: the holder
           \* learns the generation, and can present it, only after that
  clock    \* the database clock

vars == <<task, exec, event, txn, lock, granted, clock>>

TaskStatus == {"none", "open", "claimed", "in_progress", "completed",
               "cancelled", "expired"}

ExecStatus == {"none", "leased", "running", "submitted", "validating",
               "validation_failed", "reviewing", "revision_requested",
               "accepted", "rejected", "expired", "cancelled"}

\* The statuses of the partial unique index executions_one_active_per_task.
Active == {"leased", "running", "submitted", "validating", "reviewing",
           "revision_requested"}

\* The statuses in which the lease is what keeps the execution alive.
Live == {"leased", "running"}

EventType == {"none", "task.published", "execution.claimed",
              "execution.started", "execution.heartbeated", "task.cancelled",
              "task.reopened", "task.expired"}

Cancellable == {"open", "claimed", "in_progress"}

NotifyIntents == {"submit", "start_validation", "fail_validation",
                  "mark_reviewing"}

Decisions == {"accepted", "rejected", "revision_requested"}

\* The commands that load their execution FOR UPDATE.
LockingOps == {"start", "heartbeat", "submit_for_review"} \cup Decisions

Ops == {"idle", "claim", "cancel", "cancel_system", "update_system"}
         \cup NotifyIntents \cup LockingOps

NoTask == [status |-> "none", pub |-> None, deadline |-> 0, ver |-> 0,
           active |-> None]

NoExec == [status |-> "none", task |-> None, agent |-> None, gen |-> 0,
           hard |-> 0, ver |-> 0]

NoTxn == [op |-> "idle", who |-> None, tsk |-> None, exe |-> None,
          gen |-> 0, now |-> 0, trow |-> NoTask, erow |-> NoExec]

TaskRow == [status : TaskStatus,
            pub : Publishers \cup {None},
            deadline : Nat, ver : Nat, active : Execs \cup {None}]

ExecRow == [status : ExecStatus, task : Tasks \cup {None},
            agent : Agents \cup {None}, gen : Nat, hard : Nat, ver : Nat]

Txn == [op : Ops, who : Agents \cup Publishers \cup {None},
        tsk : Tasks \cup {None}, exe : Execs \cup {None}, gen : Nat,
        now : Nat, trow : TaskRow, erow : ExecRow]

-----------------------------------------------------------------------------
(* What the domain objects allow.                                          *)

ActiveExecs(t) == {e \in Execs : exec[e].task = t /\ exec[e].status \in Active}

\* Task.ClaimedBy is filled by the join of GetTask on active_execution_id.
ClaimedBy(t) == IF task[t].active = None THEN None
                ELSE exec[task[t].active].agent

\* Task.Apply(IntentClaim)
MayClaim(row, n) == row.status = "open" /\ n < row.deadline

\* Fault: the status of the task is not checked.
MayCancelAnyStatus(row, who, n) == n < row.deadline /\ who = row.pub

\* Task.Apply(IntentCancel)
MayCancel(row, who, n) ==
  row.status \in Cancellable /\ n < row.deadline /\ who = row.pub

\* Task.Apply(IntentStart), on the task of a claimed execution
MayStartTask(t, a, n) ==
  task[t].status = "claimed" /\ ClaimedBy(t) = a /\ n < task[t].deadline

\* The generation presented is the current one and the lease is not over.
HoldsLease(row, g, n) == g = row.gen /\ n < row.hard

\* Execution.Start and Execution.Heartbeat
MayMutate(op, row, g, n) ==
  /\ IF op = "start" THEN row.status = "leased" ELSE row.status \in Live
  /\ HoldsLease(row, g, n)

\* Fault: the renewal forgets to advance the generation.
RenewSameGeneration(row, g, n) == [row EXCEPT !.hard = n + LeaseTerm]

\* Fault: the term is subtracted.
RenewBackwards(row, g, n) == [row EXCEPT !.gen = g + 1, !.hard = n - LeaseTerm]

\* RenewLease
RenewLease(row, g, n) == [row EXCEPT !.gen = g + 1, !.hard = n + LeaseTerm]

\* The transitions of Execution.Apply that leave the task alone.
From(i) == CASE i = "submit"             -> "running"
             [] i = "start_validation"   -> "submitted"
             [] i = "fail_validation"    -> "validating"
             [] i = "mark_reviewing"     -> "validating"
             [] i = "submit_for_review"  -> "running"
             [] OTHER                    -> "reviewing"

To(i) == CASE i = "submit"             -> "submitted"
           [] i = "start_validation"   -> "validating"
           [] i = "fail_validation"    -> "validation_failed"
           [] i = "mark_reviewing"     -> "reviewing"
           [] i = "submit_for_review"  -> "reviewing"
           [] OTHER                    -> i

MayApply(i, row, n) ==
  /\ row.status = From(i)
  /\ i \in {"submit", "submit_for_review"} => n < row.hard

-----------------------------------------------------------------------------
(* Transactions.                                                           *)

\* Tx.Now, taken at most MaxStall ticks ago.
TxNow == {n \in 0 .. clock : clock - n <= MaxStall}

Snapshot(op, who, t, e, g, n) ==
  [op |-> op, who |-> who, tsk |-> t, exe |-> e, gen |-> g, now |-> n,
   trow |-> IF t = None THEN NoTask ELSE task[t],
   erow |-> IF e = None THEN NoExec ELSE exec[e]]

\* The statement that loads the rows; locking commands take the row lock.
Load(p, x) ==
  /\ txn[p].op = "idle"
  /\ txn' = [txn EXCEPT ![p] = x]
  /\ IF x.op \in LockingOps
       THEN lock[x.exe] = None /\ lock' = [lock EXCEPT ![x.exe] = p]
       ELSE UNCHANGED lock
  /\ UNCHANGED <<task, exec, event, granted, clock>>

\* The end of a transaction: its row locks go with it.
Close(p) ==
  /\ txn' = [txn EXCEPT ![p] = NoTxn]
  /\ lock' = [e \in Execs |-> IF lock[e] = p THEN None ELSE lock[e]]

\* Fault: the UPDATE does not compare state_version.
AlwaysUnchanged(x) == TRUE

\* UPDATE tasks ... WHERE state_version = the loaded one
TaskUnchanged(x) == task[x.tsk].ver = x.trow.ver

\* UPDATE executions ... WHERE state_version = the loaded one
ExecUnchanged(x) == exec[x.exe].ver = x.erow.ver

WriteTask(t, status, active) ==
  task' = [task EXCEPT ![t] = [task[t] EXCEPT !.status = status,
                                              !.active = active,
                                              !.ver = task[t].ver + 1]]

\* UpdateExecution writes back every column it loaded.
WriteExec(e, row) ==
  exec' = [exec EXCEPT ![e] = [row EXCEPT !.ver = exec[e].ver + 1]]

AppendEvent(t, type) == event' = [event EXCEPT ![t] = type]

\* Fault: the event of a cancellation is written outside the transaction.
RollbackKeepsEvent(p) ==
  /\ txn[p].op # "idle"
  /\ Close(p)
  /\ IF txn[p].op = "cancel" THEN AppendEvent(txn[p].tsk, "task.cancelled")
                             ELSE UNCHANGED event
  /\ UNCHANGED <<task, exec, granted, clock>>

\* An UPDATE that matched no row, an error, or the death of the session.
Rollback(p) ==
  /\ txn[p].op # "idle"
  /\ Close(p)
  /\ UNCHANGED <<task, exec, event, granted, clock>>

-----------------------------------------------------------------------------
(* Publishing.                                                             *)

InsertTask(t, who, d) ==
  /\ task[t].status = "none"
  /\ clock < d
  /\ task' = [task EXCEPT ![t] = [NoTask EXCEPT !.status = "open",
                                                !.pub = who, !.deadline = d]]
  /\ AppendEvent(t, "task.published")
  /\ UNCHANGED <<exec, txn, lock, granted, clock>>

PublishTask(t, who, d) == who # SystemIssuePublisher /\ InsertTask(t, who, d)

PublishSystemTask(t, d) ==
  SystemIssuePublisher \in Publishers /\ InsertTask(t, SystemIssuePublisher, d)

-----------------------------------------------------------------------------
(* Claiming.                                                               *)

\* UPDATE tasks ... 'claimed', then INSERT INTO executions, whose partial
\* unique index refuses a second active execution of the task.
InsertClaim(t, a, e, n) ==
  /\ ActiveExecs(t) = {}
  /\ exec[e].status = "none"
  /\ WriteTask(t, "claimed", e)
  /\ exec' = [exec EXCEPT ![e] =
                [status |-> "leased", task |-> t, agent |-> a, gen |-> 1,
                 hard |-> n + LeaseTerm, ver |-> 0]]
  /\ granted' = [granted EXCEPT ![e] = clock]
  /\ AppendEvent(t, "execution.claimed")

ClaimRead(p, a, t, n) ==
  /\ MayClaim(task[t], n)
  /\ Load(p, Snapshot("claim", a, t, None, 0, n))

ClaimCommit(p, e) ==
  /\ txn[p].op = "claim"
  /\ MayClaim(task[txn[p].tsk], txn[p].now)
  /\ TaskUnchanged(txn[p])
  /\ InsertClaim(txn[p].tsk, txn[p].who, e, txn[p].now)
  /\ Close(p)
  /\ UNCHANGED clock

\* The claim of a public task locks the task row with its first query, so it
\* is one step; only its reading of the clock is older.
PublicClaim(t, a, e, n) ==
  /\ MayClaim(task[t], n)
  /\ InsertClaim(t, a, e, n)
  /\ UNCHANGED <<txn, lock, clock>>

-----------------------------------------------------------------------------
(* Start and heartbeat: mutateExecution.                                   *)

MutateRead(p, op, a, e, g, n) ==
  LET t == exec[e].task IN
  /\ exec[e].status # "none"
  /\ exec[e].agent = a
  /\ n >= granted[e]
  /\ n < task[t].deadline
  /\ MayMutate(op, exec[e], g, n)
  /\ op = "start" => MayStartTask(t, a, n)
  /\ Load(p, Snapshot(op, a, t, e, g, n))

\* The WHERE clause of UpdateOwnedExecution.
OwnedUnchanged(x) ==
  LET row == exec[x.exe] IN
  /\ ExecUnchanged(x)
  /\ row.agent = x.who /\ row.gen = x.gen
  /\ row.status \in Live /\ row.hard >= x.now

StartCommit(p) ==
  LET x == txn[p] IN
  /\ x.op = "start"
  /\ OwnedUnchanged(x)
  /\ TaskUnchanged(x)
  /\ WriteExec(x.exe, [x.erow EXCEPT !.status = "running"])
  /\ WriteTask(x.tsk, "in_progress", x.exe)
  /\ AppendEvent(x.tsk, "execution.started")
  /\ Close(p)
  /\ UNCHANGED <<granted, clock>>

HeartbeatCommit(p) ==
  LET x == txn[p] IN
  /\ x.op = "heartbeat"
  /\ OwnedUnchanged(x)
  /\ WriteExec(x.exe, RenewLease(x.erow, x.gen, x.now))
  /\ granted' = [granted EXCEPT ![x.exe] = clock]
  /\ AppendEvent(x.tsk, "execution.heartbeated")
  /\ Close(p)
  /\ UNCHANGED <<task, clock>>

-----------------------------------------------------------------------------
(* Cancelling, and the two commands of the issue sync.                     *)

CancelRead(p, who, t, n) ==
  /\ who # SystemIssuePublisher
  /\ MayCancel(task[t], who, n)
  /\ Load(p, Snapshot("cancel", who, t, None, 0, n))

\* ListActiveExecutions waits for the row locks of the task's executions and
\* cancels the ones that are still active once it has them.
CancelCommit(p) ==
  LET t == txn[p].tsk IN
  /\ txn[p].op = "cancel"
  /\ \A e \in ActiveExecs(t) : lock[e] = None
  /\ TaskUnchanged(txn[p])
  /\ exec' = [e \in Execs |->
                IF e \in ActiveExecs(t)
                  THEN [exec[e] EXCEPT !.status = "cancelled", !.ver = @ + 1]
                  ELSE exec[e]]
  /\ WriteTask(t, "cancelled", None)
  /\ AppendEvent(t, "task.cancelled")
  /\ Close(p)
  /\ UNCHANGED <<granted, clock>>

\* The sync engine calls this after it has seen the task open in an earlier
\* transaction; since then the task may have been claimed.
CancelSystemTaskRead(p, t, n) ==
  /\ MayCancel(task[t], SystemIssuePublisher, n)
  /\ Load(p, Snapshot("cancel_system", SystemIssuePublisher, t, None, 0, n))

\* The executions of the task are left as they are.
CancelSystemTaskCommit(p) ==
  /\ txn[p].op = "cancel_system"
  /\ TaskUnchanged(txn[p])
  /\ WriteTask(txn[p].tsk, "cancelled", None)
  /\ AppendEvent(txn[p].tsk, "task.cancelled")
  /\ Close(p)
  /\ UNCHANGED <<exec, granted, clock>>

UpdateSystemTaskRead(p, t) ==
  /\ task[t].pub = SystemIssuePublisher
  /\ task[t].status = "open"
  /\ task[t].ver < MaxVer
  /\ Load(p, Snapshot("update_system", SystemIssuePublisher, t, None, 0, clock))

\* The content of a task is not modelled; the write of the other columns is.
UpdateSystemTaskCommit(p) ==
  /\ txn[p].op = "update_system"
  /\ TaskUnchanged(txn[p])
  /\ WriteTask(txn[p].tsk, txn[p].trow.status, None)
  /\ Close(p)
  /\ UNCHANGED <<exec, event, granted, clock>>

-----------------------------------------------------------------------------
(* CoreExecutionNotifier.Notify, review.SubmitForReview and the decision   *)
(* of a review.                                                            *)

NotifyRead(p, i, e, n) ==
  /\ MayApply(i, exec[e], n)
  /\ Load(p, Snapshot(i, None, None, e, 0, n))

NotifyCommit(p) ==
  LET x == txn[p] IN
  /\ x.op \in NotifyIntents
  /\ ExecUnchanged(x)
  /\ WriteExec(x.exe, [x.erow EXCEPT !.status = To(x.op)])
  /\ Close(p)
  /\ UNCHANGED <<task, event, granted, clock>>

SubmitForReviewRead(p, e, n) ==
  /\ MayApply("submit_for_review", exec[e], n)
  /\ Load(p, Snapshot("submit_for_review", None, None, e, 0, n))

\* An accepting decision also loads the task and completes it.
DecisionRead(p, d, e) ==
  LET t == exec[e].task IN
  /\ MayApply(d, exec[e], clock)
  /\ d = "accepted" => task[t].status = "in_progress"
  /\ Load(p, Snapshot(d, None, IF d = "accepted" THEN t ELSE None, e, 0, clock))

ReviewCommit(p) ==
  LET x == txn[p] IN
  /\ x.op \in {"submit_for_review", "rejected", "revision_requested"}
  /\ ExecUnchanged(x)
  /\ WriteExec(x.exe, [x.erow EXCEPT !.status = To(x.op)])
  /\ Close(p)
  /\ UNCHANGED <<task, event, granted, clock>>

AcceptCommit(p) ==
  LET x == txn[p] IN
  /\ x.op = "accepted"
  /\ ExecUnchanged(x)
  /\ TaskUnchanged(x)
  /\ WriteExec(x.exe, [x.erow EXCEPT !.status = "accepted"])
  /\ WriteTask(x.tsk, "completed", x.exe)
  /\ Close(p)
  /\ UNCHANGED <<event, granted, clock>>

-----------------------------------------------------------------------------
(* The reaper.                                                             *)

Overdue(t) == task[t].deadline <= clock

\* Fault: running executions are not scanned.
DueLeased == {e \in Execs : /\ exec[e].status = "leased"
                            /\ lock[e] = None
                            /\ exec[e].hard < clock \/ Overdue(exec[e].task)}

\* SKIP LOCKED passes over the rows other transactions hold.
DueExecs == {e \in Execs : /\ exec[e].status \in Live
                           /\ lock[e] = None
                           /\ exec[e].hard < clock \/ Overdue(exec[e].task)}

DueTasks == {t \in Tasks : /\ task[t].status = "open"
                           /\ task[t].active = None
                           /\ Overdue(t)}

\* ORDER BY LEAST(lease_hard_expires_at, deadline) LIMIT ...
DueAt(e) == LET d == task[exec[e].task].deadline IN
            IF exec[e].hard < d THEN exec[e].hard ELSE d

IsBatch(S, due) ==
  /\ S \subseteq due
  /\ IF Cardinality(due) <= BatchLimit THEN S = due
                                       ELSE Cardinality(S) = BatchLimit

\* Whether the second UPDATE of the reaper finds the task of an expired
\* execution; if not, the execution stays expired and nothing else happens.
Detached(t, E) == task[t].active \in E
                    /\ task[t].status \in {"claimed", "in_progress"}

\* Fault: the task keeps naming the expired execution.
ReapedKeepsActive(t, E, O) ==
  CASE Detached(t, E) ->
         [task[t] EXCEPT !.status = IF Overdue(t) THEN "expired" ELSE "open",
                         !.ver = @ + 1]
    [] ~Detached(t, E) /\ t \in O ->
         [task[t] EXCEPT !.status = "expired", !.ver = @ + 1]
    [] OTHER -> task[t]

Reaped(t, E, O) ==
  CASE Detached(t, E) /\ ~Overdue(t) ->
         [task[t] EXCEPT !.status = "open", !.active = None, !.ver = @ + 1]
    [] Detached(t, E) /\ Overdue(t) ->
         [task[t] EXCEPT !.status = "expired", !.active = None, !.ver = @ + 1]
    [] ~Detached(t, E) /\ t \in O ->
         [task[t] EXCEPT !.status = "expired", !.ver = @ + 1]
    [] OTHER -> task[t]

\* One transaction: the selected rows stay locked until it commits, so it is
\* one step.
ReaperBatch ==
  \E E \in SUBSET Execs, O \in SUBSET Tasks :
    /\ E # {} \/ O # {}
    /\ IsBatch(E, DueExecs)
    /\ \A e \in E, f \in DueExecs \ E : DueAt(e) <= DueAt(f)
    /\ IsBatch(O, DueTasks)
    /\ \A t \in O, u \in DueTasks \ O : task[t].deadline <= task[u].deadline
    /\ exec' = [e \in Execs |->
                  IF e \in E
                    THEN [exec[e] EXCEPT !.status = "expired", !.ver = @ + 1]
                    ELSE exec[e]]
    /\ task' = [t \in Tasks |-> Reaped(t, E, O)]
    /\ event' = [t \in Tasks |->
                   CASE task'[t] = task[t] -> event[t]
                     [] task'[t] # task[t] /\ task'[t].status = "open" ->
                          "task.reopened"
                     [] OTHER -> "task.expired"]
    /\ UNCHANGED <<txn, lock, granted, clock>>

Tick ==
  /\ clock < MaxClock
  /\ clock' = clock + 1
  /\ UNCHANGED <<task, exec, event, txn, lock, granted>>

-----------------------------------------------------------------------------
Init ==
  /\ task = [t \in Tasks |-> NoTask]
  /\ exec = [e \in Execs |-> NoExec]
  /\ event = [t \in Tasks |-> "none"]
  /\ txn = [p \in Procs |-> NoTxn]
  /\ lock = [e \in Execs |-> None]
  /\ granted = [e \in Execs |-> 0]
  /\ clock = 0

Publish ==
  \E t \in Tasks, d \in Deadlines :
    \/ \E who \in Publishers : PublishTask(t, who, d)
    \/ PublishSystemTask(t, d)

Commit(p) ==
  \/ \E e \in Execs : ClaimCommit(p, e)
  \/ StartCommit(p)
  \/ HeartbeatCommit(p)
  \/ CancelCommit(p)
  \/ CancelSystemTaskCommit(p)
  \/ UpdateSystemTaskCommit(p)
  \/ NotifyCommit(p)
  \/ ReviewCommit(p)
  \/ AcceptCommit(p)
  \/ Rollback(p)

\* A client knows the ids of existing tasks and executions only.
ReadTask(p) ==
  \E t \in Tasks : task[t].status # "none" /\
    \/ \E a \in Agents, n \in TxNow : ClaimRead(p, a, t, n)
    \/ \E who \in Publishers, n \in TxNow : CancelRead(p, who, t, n)
    \/ \E n \in TxNow : CancelSystemTaskRead(p, t, n)
    \/ UpdateSystemTaskRead(p, t)

ReadExec(p) ==
  \E e \in Execs : exec[e].status # "none" /\
    \/ \E a \in Agents, n \in TxNow :
         \/ \E g \in 1 .. MaxGen : MutateRead(p, "start", a, e, g, n)
         \/ \E g \in 1 .. MaxGen - 1 : MutateRead(p, "heartbeat", a, e, g, n)
    \/ \E i \in NotifyIntents, n \in TxNow : NotifyRead(p, i, e, n)
    \/ \E n \in TxNow : SubmitForReviewRead(p, e, n)
    \/ \E d \in Decisions : DecisionRead(p, d, e)

Next ==
  \/ Publish
  \/ \E p \in Procs : ReadTask(p) \/ ReadExec(p) \/ Commit(p)
  \/ \E t \in Tasks, a \in Agents, e \in Execs, n \in TxNow :
       PublicClaim(t, a, e, n)
  \/ ReaperBatch
  \/ Tick

Spec == Init /\ [][Next]_vars

-----------------------------------------------------------------------------
(* Properties.                                                             *)

\* Type correctness of both tables, the transactions and the locks.
TypeOK ==
  /\ task \in [Tasks -> TaskRow]
  /\ exec \in [Execs -> ExecRow]
  /\ event \in [Tasks -> EventType]
  /\ txn \in [Procs -> Txn]
  /\ lock \in [Execs -> Procs \cup {None}]
  /\ granted \in [Execs -> Nat]
  /\ clock \in Nat

\* The task row names the execution that is doing it, and their statuses fit:
\* a claimed task has a leased execution of its own, a task in progress one
\* that has started and is neither accepted, expired nor cancelled, a
\* completed task an accepted one, and any other task none at all.  The two
\* rows are written by different statements of different commands and only
\* state_version keeps them together (application/claim.go, task_commands.go,
\* review/application/service.go applyDecisionToExecution, postgres/reaper.go).
TaskMatchesExecution ==
  \A t \in Tasks :
    LET e == task[t].active IN
    /\ task[t].status \in {"claimed", "in_progress", "completed"} <=> e # None
    /\ e # None =>
         /\ exec[e].task = t
         /\ task[t].status = "claimed" => exec[e].status = "leased"
         /\ task[t].status = "in_progress" =>
              exec[e].status \in (Active \ {"leased"})
                                   \cup {"validation_failed", "rejected"}
         /\ task[t].status = "completed" => exec[e].status = "accepted"

\* An execution that still counts as active is the one its task names, except
\* under a task that the issue sync cancelled.  With it the unique index
\* executions_one_active_per_task is never what refuses a claim: a task that
\* can be claimed has no active execution left.
ActiveExecutionIsBacked ==
  \A e \in Execs :
    exec[e].status \in Active =>
      LET t == exec[e].task IN
      \/ task[t].active = e /\ task[t].status \in {"claimed", "in_progress"}
      \/ task[t].status = "cancelled" /\ task[t].pub = SystemIssuePublisher

\* The last event appended for a task (which is also the last outbox event
\* about it) tells where it is: claimable after publish or reopen, over after
\* cancel or expire, held by an execution otherwise.  Tasks of the issue sync
\* are left out: the orphan of a cancelled one goes on emitting heartbeats.
AuditTracksTask ==
  \A t \in Tasks :
    task[t].pub # SystemIssuePublisher =>
      /\ event[t] \in {"task.published", "task.reopened"} <=>
           task[t].status = "open"
      /\ event[t] = "task.cancelled" <=> task[t].status = "cancelled"
      /\ event[t] = "task.expired" <=> task[t].status = "expired"

\* Every renewal moves the fencing generation forward and no write ever
\* shortens a lease or moves the generation back: not a late heartbeat whose
\* clock reading is old, not a Notify that writes back the columns it loaded.
LeaseIsMonotone ==
  [][\A e \in Execs : exec[e].status # "none" =>
       /\ exec'[e].gen >= exec[e].gen
       /\ exec'[e].hard >= exec[e].hard
       /\ exec'[e].gen = exec[e].gen => exec'[e].hard = exec[e].hard]_vars

\* Over is over: no command revives a task or an execution that has reached
\* a final status, whatever it loaded before.
FinalStaysFinal ==
  [][/\ \A t \in Tasks : task[t].status \in {"completed", "cancelled", "expired"}
           => task'[t] = task[t]
     /\ \A e \in Execs : exec[e].status \in
           {"accepted", "rejected", "expired", "cancelled", "validation_failed"}
           => exec'[e] = exec[e]]_vars

\* What one transaction has done to a lease or a final row, no transaction that
\* loaded the rows before it takes back.
NothingIsUndone == LeaseIsMonotone /\ FinalStaysFinal

\* The database clock advances; a session finishes what it has begun (commit,
\* or rollback by its timeout); the reaper runs again and again (cmd/
\* agentguild-api/main.go repeat), so a row that is free again and again is
\* not passed over for ever.  Nothing is assumed of agents, publishers,
\* reviewers and validation workers.
Fairness ==
  /\ WF_vars(Tick)
  /\ \A p \in Procs : WF_vars(Commit(p))
  /\ SF_vars(ReaperBatch)

FairSpec == Spec /\ Fairness

\* An agent that stops renewing loses the task: a lease that has run out is
\* reaped, unless a heartbeat that was already under way renews it
\* (postgres/reaper.go, FOR UPDATE SKIP LOCKED against mutateExecution).
AbandonedLeaseIsReclaimed ==
  \A e \in Execs :
    (exec[e].status \in Live /\ exec[e].hard < clock)
      ~> (exec[e].status \notin Live \/ exec[e].hard >= clock)

\* After the deadline a task does not stay with an agent or on the board: it
\* is over, or its execution has been handed in for validation or review.
OverdueTaskLeavesAgents ==
  \A t \in Tasks :
    (task[t].status \in Cancellable /\ Overdue(t))
      ~> (\/ task[t].status \in {"completed", "cancelled", "expired"}
          \/ task[t].active # None /\ exec[task[t].active].status \notin Live)

\* The reaper, which passes over what is locked, gets to everything it is for:
\* lapsed leases and open tasks past their deadline.
ReaperCatchesUp == AbandonedLeaseIsReclaimed /\ OverdueTaskLeavesAgents

-----------------------------------------------------------------------------
(* The promise to those who watch the board.                               *)

BoardOf(status) == CASE status \in {"claimed", "in_progress"} -> "held"
                     [] status = "completed" -> "done"
                     [] OTHER -> status

Board == INSTANCE TaskBoard WITH
           board <- [t \in Tasks |-> BoardOf(task[t].status)],
           holder <- [t \in Tasks |-> task[t].active],
           used <- {e \in Execs : exec[e].status # "none"}

\* The lifecycle, with its two tables, its races and its leases, implements
\* the board: one holder at a time, an execution id never used twice, nothing
\* leaves a final status.
ImplementsTaskBoard == Board!Spec

-----------------------------------------------------------------------------
(* The strengthening under which the invariants are inductive.             *)

\* What a transaction loaded is what the row still holds, or is older.
Versioned(x) ==
  /\ x.tsk # None =>
       /\ x.trow.ver <= task[x.tsk].ver
       /\ x.trow.ver = task[x.tsk].ver => x.trow = task[x.tsk]
  /\ x.exe # None =>
       /\ x.erow.ver <= exec[x.exe].ver
       /\ x.erow.ver = exec[x.exe].ver => x.erow = exec[x.exe]

\* A state_version identifies the content of a row: what a transaction loaded
\* is either what the row still holds or has a smaller version.  This is what
\* makes the compare-and-set of UpdateTask, UpdateExecution and claimSQL
\* sound; it fails as soon as one writer forgets to advance state_version.
VersionIdentifiesRow == \A p \in Procs : Versioned(txn[p])

\* What a transaction loaded passed the checks of its command.
RequestFits(x) ==
  /\ x.tsk # None => task[x.tsk].status # "none"
  /\ x.exe # None => exec[x.exe].status # "none"
  /\ x.op \in {"claim", "cancel", "cancel_system", "update_system"} =>
       x.tsk # None /\ x.exe = None
  /\ x.op = "claim" => x.trow.status = "open" /\ x.who \in Agents
  /\ x.op = "update_system" => x.trow.status = "open"
  /\ x.op \in {"cancel", "cancel_system"} => x.trow.status \in Cancellable
  /\ x.op = "cancel_system" => x.trow.pub = SystemIssuePublisher
  /\ x.op \in LockingOps \cup NotifyIntents => x.exe # None
  /\ x.op \in {"start", "heartbeat", "accepted"} =>
       x.tsk # None /\ x.tsk = x.erow.task
  /\ x.op = "start" => x.erow.status = "leased" /\ x.trow.status = "claimed"
  /\ x.op = "heartbeat" => x.erow.status \in Live
  /\ x.op = "accepted" => x.trow.status = "in_progress"
  /\ x.op \in (LockingOps \cup NotifyIntents) \ {"start", "heartbeat"} =>
       x.erow.status = From(x.op)

\* The rows refer to each other properly.
RowsFit ==
  /\ \A e \in Execs :
       IF exec[e].status = "none" THEN exec[e] = NoExec
       ELSE exec[e].task \in Tasks /\ task[exec[e].task].status # "none"
  /\ \A t \in Tasks : task[t].status = "none" => task[t] = NoTask

\* No request in flight is about a task or an execution that does not exist or
\* that its command should have refused, and an execution belongs to a
\* published task (the checks between load and write of each command).
RequestsFitRows == RowsFit /\ \A p \in Procs : RequestFits(txn[p])

\* The inductive invariant.
IInv == /\ TypeOK
        /\ VersionIdentifiesRow
        /\ RequestsFitRows
        /\ TaskMatchesExecution
        /\ ActiveExecutionIsBacked

=============================================================================
