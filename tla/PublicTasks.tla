----------------------------- MODULE PublicTasks -----------------------------
(***************************************************************************)
(* Tasks made from public issues are shown to everybody and claimed by       *)
(* agents of no tenant: the projection worker (publictask/worker/worker.go), *)
(* the public claim (publictask/postgres/claim.go), the participation grants *)
(* it hands out (participation/postgres/repository.go) and the commands the  *)
(* claimant may then give (application/claim.go, mutateExecution).           *)
(*                                                                          *)
(* The tasks are those of one sponsor; the requests an agent makes are told  *)
(* apart per sponsor.  Identities are those of OpenRegistration.  Leases,    *)
(* the reaper and the commands of tenants are the subject of TaskLifecycle;  *)
(* here a lease lapses, and an execution ends, when the model likes.         *)
(*                                                                          *)
(* A transaction reads the clock before it waits for a lock, so a claim and  *)
(* what it is allowed to do are two steps.                                   *)
(***************************************************************************)
EXTENDS OpenRegistration

CONSTANTS
  Tasks, Execs,
  Insider,        \* an agent of the sponsor's tenant
  Requests,       \* request ids an agent uses
  Workers,        \* processes that run the projection worker
  MaxRevision,    \* bound on the revisions of an issue
  MaxCalls        \* bound on the calls of agents under way

ASSUME PublicTasksAssumption ==
  /\ Insider \notin Agents /\ None \notin Tasks \cup Execs \cup {Insider}
  /\ MaxRevision \in Nat \ {0} /\ MaxCalls \in Nat

VARIABLES
  task,         \* tasks, with the revision of their issue
  projection,   \* public_task_projections, by task
  candidate,    \* what each worker has read of each task it will publish
  exec,         \* executions
  grant,        \* task_participation_grants, by execution
  answer,       \* idempotency_records of public claims: the execution
                \* answered with, by agent and request
  call          \* calls of agents under way: claims that have read the clock,
                \* and commands that have been authorised

taskVars == <<task, projection, candidate, exec, grant, answer, call>>

-----------------------------------------------------------------------------
(* The data *)

Terms == [rev : 1 .. MaxRevision, analysed : BOOLEAN]

Task == [status : {"open", "claimed", "in_progress", "closed"}, late : BOOLEAN,
         rev : 1 .. MaxRevision, exec : Execs \cup {None}]

\* Past "running" the execution is with the validation, the review or done.
Downstream == {"submitted", "reviewing"}
Alive == {"leased", "running"} \cup Downstream

Execution == [status : {"none", "ended"} \cup Alive, task : Tasks \cup {None},
              agent : Agents \cup {Insider, None},
              request : Requests \cup {None}, late : BOOLEAN]

NoExecution == [status |-> "none", task |-> None, agent |-> None,
                request |-> None, late |-> FALSE]

Grant == [status : {"none", "active", "expired"}, late : BOOLEAN]

NoGrant == [status |-> "none", late |-> FALSE]

ClaimCall == [kind : {"claim"}, agent : Agents, request : Requests,
              task : Tasks, late : BOOLEAN]
CommandCall == [kind : {"start", "heartbeat"}, agent : Agents, exec : Execs]

TasksTypeOK ==
  /\ task \in [Tasks -> Task]
  /\ projection \in [Tasks -> Terms \cup {None}]
  /\ candidate \in [Workers -> [Tasks -> 0 .. MaxRevision]]
  /\ exec \in [Execs -> Execution]
  /\ grant \in [Execs -> Grant]
  /\ answer \in [Agents \X Requests -> Execs \cup {None}]
  /\ call \subseteq ClaimCall \cup CommandCall
  /\ Cardinality(call) <= MaxCalls

-----------------------------------------------------------------------------
(* The projection worker *)

\* RunOnce: open tasks of public repositories without a projection, as they
\* are now; the rows are worked off one by one.
Unpublished == {t \in Tasks : /\ task[t].status = "open" /\ ~ task[t].late
                              /\ projection[t] = None}

ListCandidates(w) ==
  /\ \A t \in Tasks : candidate[w][t] = 0
  /\ Unpublished # {}
  /\ candidate' = [candidate EXCEPT ![w] =
                     [t \in Tasks |-> IF t \in Unpublished THEN task[t].rev ELSE 0]]
  /\ UNCHANGED <<task, projection, exec, grant, answer, call>>

\* GitCloner.Snapshot: the files of the base commit, or none.
Snapshot == {"files", "failed"}

\* What the provider makes of them, which is refused when it is not complete.
Analyze(files) ==
  IF files = "failed" THEN {"failed"} ELSE {"contract", "incomplete", "failed"}

validateResult(result) == result = "contract"

\* A valid analysis replaces the deterministic text.
Written(rev) ==
  {[rev |-> rev, analysed |-> validateResult(result)] :
     result \in UNION {Analyze(files) : files \in Snapshot}}

\* Fault: what is published again replaces what was published.
Upserted(old, new) == new

\* ON CONFLICT (resource_tenant_id, task_id) DO NOTHING
InsertIfAbsent(old, new) == IF old = None THEN new ELSE old

Publish(w, t) ==
  /\ candidate[w][t] # 0
  /\ \E p \in Written(candidate[w][t]) :
       projection' = [projection EXCEPT ![t] = InsertIfAbsent(@, p)]
  /\ candidate' = [candidate EXCEPT ![w][t] = 0]
  /\ UNCHANGED <<task, exec, grant, answer, call>>

\* The base commit cannot be resolved, the projection is refused, or the
\* process dies with all it had read.
PublishFails(w, lost) ==
  /\ \E t \in lost : candidate[w][t] # 0
  /\ candidate' = [candidate EXCEPT ![w] =
                     [t \in Tasks |-> IF t \in lost THEN 0 ELSE @[t]]]
  /\ UNCHANGED <<task, projection, exec, grant, answer, call>>

-----------------------------------------------------------------------------
(* The public claim *)

\* requireActiveIdentity
IsActive(a) == Live(a)

Calls(c) == Cardinality(call) < MaxCalls /\ call' = call \cup {c}

\* The claim begins and reads the clock.
ClaimBegins(a, r, t) ==
  /\ Verify(a)
  /\ projection[t] # None
  /\ Calls([kind |-> "claim", agent |-> a, request |-> r, task |-> t,
            late |-> task[t].late])
  /\ UNCHANGED <<task, projection, candidate, exec, grant, answer>>

\* Fault: the record is good only as long as the execution it names.
AnsweredAlive(a, r) ==
  answer[a, r] # None /\ exec[answer[a, r]].status \in Alive

\* acquirePublicClaimIdempotency: a record there is, expired or not, answers;
\* one for another task is a mismatch.
Answered(a, r) == answer[a, r] # None

\* Task.Apply(IntentClaim) and the conditions of claimSponsorTask, but for the
\* deadline.
IsOpen(row) == row.status = "open"

\* insertClaimGrant: a grant lasts to the deadline at most.
NewGrant(t) == [status |-> "active", late |-> task[t].late]

\* completePublicClaimIdempotency
Remember(c, e) == answer' = [answer EXCEPT ![<<c.agent, c.request>>] = e]

NewLeasedExecution(c) ==
  [status |-> "leased", task |-> c.task, agent |-> c.agent,
   request |-> c.request, late |-> FALSE]

\* The rows of the projection and the task are locked.  Task, execution,
\* grant, answer, events and what the participants write (the reward lock) are
\* one transaction.
Claim(c, e) ==
  /\ c.kind = "claim"
  /\ IsActive(c.agent)
  /\ ~ Answered(c.agent, c.request)
  /\ IsOpen(task[c.task]) /\ ~ c.late
  /\ exec[e].status = "none"
  /\ task' = [task EXCEPT ![c.task].status = "claimed", ![c.task].exec = e]
  /\ exec' = [exec EXCEPT ![e] = NewLeasedExecution(c)]
  /\ grant' = [grant EXCEPT ![e] = NewGrant(c.task)]
  /\ Remember(c, e)
  /\ call' = call \ {c}
  /\ UNCHANGED <<projection, candidate>>

\* A call that is answered from the record, refused, or breaks off - also
\* because a participant fails - changes nothing.
CallEnds(c) ==
  /\ call' = call \ {c}
  /\ UNCHANGED <<task, projection, candidate, exec, grant, answer>>

-----------------------------------------------------------------------------
(* What a grant allows *)

\* Grant.Authorizes, and the identity is active.
Authorizes(a, e) ==
  /\ grant[e].status = "active" /\ ~ grant[e].late
  /\ exec[e].agent = a
  /\ Live(a)

\* AuthorizeResource, in a transaction of its own, before the command.
Authorize(a, e, kind) ==
  /\ Verify(a)
  /\ Authorizes(a, e)
  /\ Calls([kind |-> kind, agent |-> a, exec |-> e])
  /\ UNCHANGED <<task, projection, candidate, exec, grant, answer>>

\* A grant that is found past its time is marked on the way.
Expire(a, e) ==
  /\ Verify(a)
  /\ grant[e].status = "active" /\ grant[e].late
  /\ exec[e].agent = a
  /\ grant' = [grant EXCEPT ![e].status = "expired"]
  /\ UNCHANGED <<task, projection, candidate, exec, answer, call>>

\* Execution.Start, Execution.Heartbeat
Accepts(kind, status) ==
  status \in IF kind = "start" THEN {"leased"} ELSE {"leased", "running"}

\* Identity and version, which are locked, are active.
RequireLiveAgent(a) == Live(a)

\* mutateExecution: the agent is still live, and so are deadline and lease.
\* A heartbeat sets the lease again, which is not late then either.
Command(c) ==
  LET e == c.exec
      t == exec[e].task
  IN /\ c.kind \in {"start", "heartbeat"}
     /\ RequireLiveAgent(c.agent)
     /\ exec[e].agent = c.agent
     /\ ~ task[t].late
     /\ Accepts(c.kind, exec[e].status) /\ ~ exec[e].late
     /\ IF c.kind = "start"
        THEN /\ task[t].status = "claimed"
             /\ task' = [task EXCEPT ![t].status = "in_progress"]
             /\ exec' = [exec EXCEPT ![e].status = "running"]
        ELSE UNCHANGED <<task, exec>>
     /\ call' = call \ {c}
     /\ UNCHANGED <<projection, candidate, grant, answer>>

-----------------------------------------------------------------------------
(* The rest of the system *)

\* The issue is edited, and the task follows it until it is claimed.
Edited(t) ==
  /\ task[t].status = "open"
  /\ task[t].rev < MaxRevision
  /\ task' = [task EXCEPT ![t].rev = @ + 1]
  /\ UNCHANGED <<projection, candidate, exec, grant, answer, call>>

\* Grants last to the deadline at most.
DeadlinePasses(t) ==
  /\ ~ task[t].late
  /\ task' = [task EXCEPT ![t].late = TRUE]
  /\ grant' = [e \in Execs |-> IF exec[e].task = t THEN [grant[e] EXCEPT !.late = TRUE]
                               ELSE grant[e]]
  /\ UNCHANGED <<projection, candidate, exec, answer, call>>

\* The grant's own term, 24 hours, is over.
GrantLapses(e) ==
  /\ grant[e].status = "active" /\ ~ grant[e].late
  /\ grant' = [grant EXCEPT ![e].late = TRUE]
  /\ UNCHANGED <<task, projection, candidate, exec, answer, call>>

\* The sponsor's own agent claims.
InsiderClaims(t, e) ==
  /\ IsOpen(task[t]) /\ ~ task[t].late
  /\ exec[e].status = "none"
  /\ task' = [task EXCEPT ![t].status = "claimed", ![t].exec = e]
  /\ exec' = [exec EXCEPT ![e] = [NoExecution EXCEPT
                !.status = "leased", !.task = t, !.agent = Insider]]
  /\ UNCHANGED <<projection, candidate, grant, answer, call>>

\* The reaper takes a lapsed execution away, and the task is open again.
Reap(e) ==
  /\ exec[e].status \in {"leased", "running"} /\ exec[e].late
  /\ exec' = [exec EXCEPT ![e].status = "ended"]
  /\ task' = [task EXCEPT ![exec[e].task].status = "open",
                          ![exec[e].task].exec = None]
  /\ UNCHANGED <<projection, candidate, grant, answer, call>>

\* The task is cancelled, or completed by the acceptance of its execution.
Close(t) ==
  /\ task[t].status # "closed"
  /\ task' = [task EXCEPT ![t].status = "closed"]
  /\ exec' = [e \in Execs |-> IF e = task[t].exec
                              THEN [exec[e] EXCEPT !.status = "ended"] ELSE exec[e]]
  /\ UNCHANGED <<projection, candidate, grant, answer, call>>

-----------------------------------------------------------------------------
TasksInit ==
  /\ task = [t \in Tasks |-> [status |-> "open", late |-> FALSE, rev |-> 1,
                              exec |-> None]]
  /\ projection = [t \in Tasks |-> None]
  /\ candidate = [w \in Workers |-> [t \in Tasks |-> 0]]
  /\ exec = [e \in Execs |-> NoExecution]
  /\ grant = [e \in Execs |-> NoGrant]
  /\ answer = [ar \in Agents \X Requests |-> None]
  /\ call = {}

PublicNext ==
  \/ \E w \in Workers :
       \/ ListCandidates(w)
       \/ \E t \in Tasks : Publish(w, t)
       \/ \E lost \in SUBSET Tasks : PublishFails(w, lost)
  \/ \E a \in Agents :
       \/ \E r \in Requests, t \in Tasks : ClaimBegins(a, r, t)
       \/ \E e \in Execs :
            \/ \E kind \in {"start", "heartbeat"} : Authorize(a, e, kind)
            \/ Expire(a, e)
  \/ \E c \in call :
       \/ \E e \in Execs : Claim(c, e)
       \/ Command(c)
       \/ CallEnds(c)
  \/ \E t \in Tasks : Edited(t)
  \/ \E e \in Execs : GrantLapses(e)

SponsorNext ==
  \/ \E t \in Tasks : \/ DeadlinePasses(t) \/ Close(t)
                       \/ \E e \in Execs : InsiderClaims(t, e)
  \/ \E e \in Execs : Reap(e)

-----------------------------------------------------------------------------
(* What it promises *)

\* Whatever an agent repeats, and however often the task it got is taken away
\* and opened again, one request id makes one execution, and it is answered
\* with that one (acquirePublicClaimIdempotency).
OneExecutionPerRequest ==
  \A d, e \in Execs : exec[d].agent \in Agents =>
    /\ answer[exec[d].agent, exec[d].request] = d
    /\ exec[d].agent = exec[e].agent /\ exec[d].request = exec[e].request => d = e

\* A task has one execution alive at most, the one it names, whether the
\* sponsor's agents or the public got there first; and every execution of an
\* agent from outside comes with a grant (Claim).
OneClaimant ==
  \A e \in Execs :
    /\ exec[e].status \in Alive => task[exec[e].task].exec = e
    /\ exec[e].agent \in Agents => grant[e].status # "none"

\* The claims of a task exclude each other, in time and in repetition.
ClaimsAreExclusive == OneExecutionPerRequest /\ OneClaimant

\* What the public was shown of a task stays as it was, whatever slower or
\* other worker has read of it (InsertIfAbsent): a claim is made, and reviewed,
\* against these terms.
TermsStand ==
  [][\A t \in Tasks : projection[t] # None => projection'[t] = projection[t]]_projection

=============================================================================
