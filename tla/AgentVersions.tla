---------------------------- MODULE AgentVersions ----------------------------
(* One tenant agent from registration to retirement: its identity row and   *)
(* activation credential, the versions of its configuration, the benchmark  *)
(* sets and evaluation runs that prove a version, the harvest worker, and   *)
(* the experience candidates a new version may be built from.               *)
(*                                                                          *)
(* A request that reads in one statement and writes in a later one is two   *)
(* steps with the row it read kept in "request"; one that holds the row's   *)
(* lock from its read to its commit is one step.                            *)
EXTENDS Integers, FiniteSets

CONSTANTS
  Slots,          \* requests in flight at once
  Workers,        \* processes that run the harvest worker
  MaxVersion,     \* bound: versions of the agent
  MaxRun,         \* bound: evaluation runs of the agent
  MaxSet,         \* bound: benchmark sets of the tenant
  Contents,       \* the task sets a benchmark set may be created with
  Security,       \* the benchmark tasks marked as security tasks
  Configs,        \* configurations a draft may ask for
  Candidates,     \* experience candidates
  CredentialTTL, RunTimeout, BatchSize,
  Settings,       \* circumstances: see Init
  None

ASSUME AgentVersionsAssumption ==
  /\ MaxVersion \in Nat \ {0} /\ MaxRun \in Nat \ {0} /\ MaxSet \in Nat \ {0}
  /\ CredentialTTL \in Nat \ {0} /\ RunTimeout \in Nat \ {0}
  /\ BatchSize \in Nat \ {0}
  /\ {} \notin {Slots, Workers, Settings}
  /\ \A c \in Settings : c.versions \in 0..MaxVersion /\ c.refs \in Contents \cup {None}

VARIABLES
  setting,    \* what callers do here and how the process is configured
  now,
  agent,      \* the row of agents: status and current_version_id (0: NULL)
  credential, \* the row of activation_credentials
  tokens,     \* versions for which an access token of the agent exists
  version,    \* the rows of agent_versions, by version_number
  sets,       \* the rows of benchmark_sets, by version_number
  run,        \* the rows of evaluation_runs
  runTask,    \* the rows of evaluation_run_tasks: by run and task
  board,      \* the platform task of each row, as the observer sees it
  publisher,  \* per run: tasks still to publish, the outcome in hand
  batch,      \* per worker: the runs of its current tick
  candidate,  \* the rows of experience_candidates
  request     \* per slot: the request in flight and what it has read

identityVars == <<agent, credential, tokens>>
runVars == <<run, runTask, board, publisher>>
vars == <<setting, now, identityVars, version, sets, runVars, batch,
          candidate, request>>

Versions == 1..MaxVersion
Runs == 1..MaxRun
Refs == UNION Contents
Idle == [op |-> "idle"]
NoRow == [status |-> "none"]
NoAgent == [status |-> "none", current |-> 0]
NoTask == [state |-> "absent", by |-> 0, slow |-> FALSE]
Planned == [task |-> FALSE, error |-> FALSE, result |-> "pending", slow |-> FALSE]
Quiet == [left |-> {}, hand |-> None, ok |-> FALSE]

Allowed(op) == op \in setting.ops

Free(s, op) == Allowed(op) /\ s \in setting.slots /\ request[s] = Idle

Hold(s, r) == request' = [request EXCEPT ![s] = r]

Done(s) == Hold(s, Idle)

-----------------------------------------------------------------------------
(* The identity row                                                         *)

NewAgent == [status |-> "pending_activation", current |-> 0]

NewCredential == [status |-> "pending", expires |-> now + CredentialTTL]

\* RegisterAgent: the agent and its one activation credential.
Register ==
  /\ Allowed("register") /\ agent = NoAgent
  /\ now + CredentialTTL <= setting.horizon
  /\ agent' = NewAgent
  /\ credential' = NewCredential
  /\ UNCHANGED <<setting, now, tokens, version, sets, runVars, batch, candidate, request>>

Usable == credential.status = "pending" /\ now < credential.expires

\* ActivateAgent reads the pending credential and the agent it names ...
ReadActivation(s) ==
  /\ Free(s, "activate") /\ Usable /\ agent.status = "pending_activation"
  /\ Hold(s, [op |-> "activate", seen |-> agent])
  /\ UNCHANGED <<setting, now, identityVars, version, sets, runVars, batch, candidate>>

FirstVersion == [status |-> "active", config |-> None, memory |-> {}]

Consumed == [credential EXCEPT !.status = "consumed"]

Activated == [status |-> "active", current |-> 1]

\* agent_versions are unique by number: a draft made before the activation
\* has taken number 1, and then the insert fails.
FreeVersion(v) == version[v] = NoRow

\* ... consumes it, inserts version 1 and activates the row it read.
Activate(s) ==
  /\ request[s].op = "activate" /\ Usable
  /\ FreeVersion(1)
  /\ agent.status = request[s].seen.status
  /\ credential' = Consumed
  /\ version' = [version EXCEPT ![1] = FirstVersion]
  /\ agent' = Activated
  /\ tokens' = tokens \cup {1}
  /\ Done(s)
  /\ UNCHANGED <<setting, now, sets, runVars, batch, candidate>>

Managed == {"suspend", "resume", "revoke", "heartbeat"}

\* The statuses an operation accepts, and the status it leaves.
Accepts(op) ==
  [suspend |-> {"active"}, resume |-> {"suspended"},
   revoke |-> {"pending_activation", "active", "suspended"},
   heartbeat |-> {"active", "suspended"}][op]

After(op, status) ==
  IF op = "heartbeat" THEN status
  ELSE [suspend |-> "suspended", resume |-> "active", revoke |-> "revoked"][op]

\* A token of the agent whose version is the current one.
Presents(v) == v \in tokens /\ (agent.current # 0 => v = agent.current)

\* withManagedAgent reads the row, without a lock, and applies the transition.
ReadAgent(s, op) ==
  /\ Free(s, op) /\ op # "heartbeat" /\ agent.status \in Accepts(op)
  /\ Hold(s, [op |-> op, seen |-> agent])
  /\ UNCHANGED <<setting, now, identityVars, version, sets, runVars, batch, candidate>>

\* AgentHeartbeat: with a token of the current version.
ReadHeartbeat(s) ==
  /\ Free(s, "heartbeat") /\ agent.status \in Accepts("heartbeat")
  /\ \E v \in Versions : Presents(v)
  /\ Hold(s, [op |-> "heartbeat", seen |-> agent])
  /\ UNCHANGED <<setting, now, identityVars, version, sets, runVars, batch, candidate>>

\* An operation that recorded a transition writes only over the status it
\* came from; a heartbeat records none and writes over whatever is there.
Overwrites(op, seen) == op = "heartbeat" \/ agent.status = seen.status

\* Update: every column of the row that was read goes back.
WriteAgent(s) ==
  LET r == request[s] IN
  /\ r.op \in Managed
  /\ Overwrites(r.op, r.seen)
  /\ agent' = [status |-> After(r.op, r.seen.status), current |-> r.seen.current]
  /\ Done(s)
  /\ UNCHANGED <<setting, now, credential, tokens, version, sets, runVars, batch, candidate>>

\* IssueAccessToken: for the version that is current, against a token of it.
Refresh ==
  /\ Allowed("refresh") /\ agent.status = "active" /\ agent.current # 0
  /\ \E v \in Versions : Presents(v)
  /\ tokens' = tokens \cup {agent.current}
  /\ UNCHANGED <<setting, now, agent, credential, version, sets, runVars, batch, candidate, request>>

\* A second issuer, trusted through its key set, signs for any version.
Mint(v) ==
  /\ setting.issuer = "external" /\ version[v] # NoRow
  /\ tokens' = tokens \cup {v}
  /\ UNCHANGED <<setting, now, agent, credential, version, sets, runVars, batch, candidate, request>>

\* The request ends without a write: an error, a conflict or a lost process.
Abandon(s) ==
  /\ request[s] # Idle
  /\ Done(s)
  /\ UNCHANGED <<setting, now, identityVars, version, sets, runVars, batch, candidate>>

-----------------------------------------------------------------------------
(* Experience candidates                                                    *)

Classes == {"public", "restricted", "forbidden"}

\* The evidence counts as public until it has been classified.
NewExperienceCandidate == [status |-> "pending_review", class |-> "public"]

\* Fault: forbidden evidence waits for a review like any other.
AnythingGoes(class) == [NewExperienceCandidate EXCEPT !.class = class]

Classified(class) ==
  [NewExperienceCandidate EXCEPT
     !.class = class, !.status = IF class = "forbidden" THEN "rejected" ELSE @]

\* ExtractCandidate: the classifier rejects forbidden evidence on the spot.
Extract(c, class) ==
  /\ Allowed("extract") /\ candidate[c] = NoRow
  /\ candidate' = [candidate EXCEPT ![c] = Classified(class)]
  /\ UNCHANGED <<setting, now, identityVars, version, sets, runVars, batch, request>>

Verdicts == {"approved", "rejected"}

\* ReviewCandidate reads a pending candidate ...
ReadCandidate(s, c, verdict) ==
  /\ Free(s, "judge") /\ candidate[c].status = "pending_review"
  /\ Hold(s, [op |-> "judge", candidate |-> c, verdict |-> verdict])
  /\ UNCHANGED <<setting, now, identityVars, version, sets, runVars, batch, candidate>>

\* ... and writes the verdict over whatever status the row has by then.
Judge(s) ==
  /\ request[s].op = "judge"
  /\ candidate' = [candidate EXCEPT ![request[s].candidate].status = request[s].verdict]
  /\ Done(s)
  /\ UNCHANGED <<setting, now, identityVars, version, sets, runVars, batch>>

Approved == {c \in Candidates : candidate[c].status = "approved"}

-----------------------------------------------------------------------------
(* Versions                                                                 *)

Existing == {v \in Versions : version[v] # NoRow}

\* The highest version number of the agent, 0 when it has none.
Latest == IF Existing = {} THEN 0 ELSE CHOOSE v \in Existing : \A w \in Existing : w <= v

SameConfig(v, config, cites) ==
  v # 0 /\ version[v].config = config /\ version[v].memory = cites

Citable(cites) == cites \subseteq Approved

\* CreateDraft reads the approved candidates and the latest version; every
\* candidate it cites must be approved and the fingerprint must be new.
ReadDraft(s, config, cites) ==
  /\ Free(s, "draft") /\ agent # NoAgent /\ config \in setting.configs
  /\ Citable(cites)
  /\ ~SameConfig(Latest, config, cites)
  /\ Latest < setting.versions
  /\ Hold(s, [op |-> "draft", number |-> Latest + 1, config |-> config, memory |-> cites])
  /\ UNCHANGED <<setting, now, identityVars, version, sets, runVars, batch, candidate>>

NewDraft(r) == [status |-> "draft", config |-> r.config, memory |-> r.memory]

\* The insert, unique by number; after the commit the hook may go on.
InsertDraft(s) ==
  LET r == request[s] IN
  /\ r.op = "draft"
  /\ FreeVersion(r.number)
  /\ version' = [version EXCEPT ![r.number] = NewDraft(r)]
  /\ Hold(s, IF setting.auto THEN [op |-> "hook", v |-> r.number] ELSE Idle)
  /\ UNCHANGED <<setting, now, identityVars, sets, runVars, batch, candidate>>

\* Promote remembers the current version before its transaction begins.
ReadPromotion(s, v) ==
  /\ Free(s, "promote") /\ version[v] # NoRow
  /\ Hold(s, [op |-> "promote", v |-> v, expected |-> agent.current])
  /\ UNCHANGED <<setting, now, identityVars, version, sets, runVars, batch, candidate>>

HasPassed(v) == \E r \in Runs : run[r].status = "passed" /\ run[r].version = v

ActiveVersions == {v \in Existing : version[v].status = "active"}

\* The version that was active until now: the highest number if several are.
Retiring == {v \in ActiveVersions : \A w \in ActiveVersions : w <= v}

PointedAt(v) == [agent EXCEPT !.current = v]

Promoted(v) ==
  [w \in Versions |->
    IF w = v THEN [version[w] EXCEPT !.status = "active"]
    ELSE IF w \in Retiring THEN [version[w] EXCEPT !.status = "retired"]
    ELSE version[w]]

\* Under the lock of the agent row: the target is eligible and has a passed
\* run, the active version retires, and the current version is compared with
\* the one remembered.
Promote(s) ==
  LET v == request[s].v IN
  /\ request[s].op = "promote"
  /\ version[v].status = "eligible" /\ HasPassed(v)
  /\ agent.current = request[s].expected
  /\ version' = Promoted(v)
  /\ agent' = PointedAt(v)
  /\ Done(s)
  /\ UNCHANGED <<setting, now, credential, tokens, sets, runVars, batch, candidate>>

AnyButRejected == {"draft", "evaluating", "active", "eligible", "retired"}

CanRollBackTo == {"active", "eligible", "retired"}

\* Rollback: only the current version moves, under the lock of the row.
Rollback(v) ==
  /\ Allowed("rollback") /\ agent # NoAgent
  /\ version[v].status \in CanRollBackTo
  /\ agent' = PointedAt(v)
  /\ UNCHANGED <<setting, now, credential, tokens, version, sets, runVars, batch, candidate, request>>

-----------------------------------------------------------------------------
(* Benchmark sets                                                           *)

Numbers == 1..MaxSet
Created == {n \in Numbers : sets[n] # NoRow}
ActiveSets == {n \in Created : sets[n].active}
NextNumber == IF Created = {} THEN 1 ELSE 1 + CHOOSE n \in Created : \A m \in Created : m <= n

\* CreateBenchmarkSet reads the next number ...
ReadNumber(s, refs, active) ==
  /\ Free(s, "benchmark") /\ NextNumber <= MaxSet
  /\ Hold(s, [op |-> "benchmark", number |-> NextNumber, refs |-> refs,
              active |-> active, clears |-> {}])
  /\ UNCHANGED <<setting, now, identityVars, version, sets, runVars, batch, candidate>>

\* ... SetInactiveAll clears, in its transaction, the flag of those it sees ...
ClearFlags(s) ==
  /\ request[s].op = "benchmark"
  /\ Hold(s, [request[s] EXCEPT !.op = "cleared",
                                !.clears = IF request[s].active THEN ActiveSets ELSE {}])
  /\ UNCHANGED <<setting, now, identityVars, version, sets, runVars, batch, candidate>>

RenumberedOnConflict(r) == IF sets[r.number] = NoRow THEN r.number ELSE NextNumber

NewSet(r) == [status |-> "created", refs |-> r.refs, active |-> r.active]

InsertedAs(r) == r.number

\* ... and the insert, unique by number, commits both.
CreateSet(s) ==
  LET r == request[s] number == InsertedAs(r) IN
  /\ r.op = "cleared" /\ number \in Numbers /\ sets[number] = NoRow
  /\ sets' = [n \in Numbers |->
       IF n = number THEN NewSet(r)
       ELSE IF n \in r.clears THEN [sets[n] EXCEPT !.active = FALSE]
       ELSE sets[n]]
  /\ Done(s)
  /\ UNCHANGED <<setting, now, identityVars, version, runVars, batch, candidate>>

-----------------------------------------------------------------------------
(* Evaluation runs                                                          *)

\* The v1 rule: every security task passes, at least 8 in 10 pass, and the
\* average latency is within the limit (a slow task is twice the limit).
ThresholdsHold(refs, passed, slow) ==
  /\ Security \cap refs \subseteq passed
  /\ 10 * Cardinality(passed) >= 8 * Cardinality(refs) /\ refs # {}
  /\ 2 * Cardinality(slow) <= Cardinality(refs)

NewRun(v, n, status) == [status |-> status, version |-> v, set |-> n, started |-> now]

Outcome(passes) == IF passes THEN "passed" ELSE "failed"

\* The status goes over whatever the row holds.
UpdateStatus(v, status) == [version EXCEPT ![v].status = status]

Verdict(v, passes) == UpdateStatus(v, IF passes THEN "eligible" ELSE "rejected")

AnyVersion(v) == version[v] # NoRow

IsDraft(v) == version[v].status = "draft"

UnderEvaluation(v) == UpdateStatus(v, "evaluating")

\* The plan of a run: one row per task of the set, as yet without a task.
Plan(n) == [ref \in sets[n].refs |-> Planned]

\* The identifier the next run gets.
Unused(r) == run[r] = NoRow /\ \A q \in 1..r - 1 : run[q] # NoRow

\* StartEvaluationRun with the platform executor: the run, its plan and the
\* version's transition in one transaction; the tasks are published after it.
StartOnPlatform(v, n, r) ==
  /\ setting.executor = "platform" /\ IsDraft(v) /\ n \in Created
  /\ now + RunTimeout <= setting.horizon
  /\ run' = [run EXCEPT ![r] = NewRun(v, n, "running")]
  /\ runTask' = [runTask EXCEPT ![r] = Plan(n)]
  /\ publisher' = [publisher EXCEPT ![r] = [Quiet EXCEPT !.left = sets[n].refs]]
  /\ version' = UnderEvaluation(v)
  /\ UNCHANGED board

\* With the stub executor every task passes and the run ends at once.
StartOnStub(v, n, r) ==
  LET passes == ThresholdsHold(sets[n].refs, sets[n].refs, {}) IN
  /\ setting.executor = "fixed" /\ IsDraft(v) /\ n \in Created
  /\ run' = [run EXCEPT ![r] = NewRun(v, n, Outcome(passes))]
  /\ version' = Verdict(v, passes)
  /\ UNCHANGED <<runTask, board, publisher>>

StartRun(v, n) ==
  \E r \in Runs : Unused(r) /\ (StartOnPlatform(v, n, r) \/ StartOnStub(v, n, r))

\* The owner starts a run against any set of the tenant.
StartEvaluation(v, n) ==
  /\ Allowed("start") /\ StartRun(v, n)
  /\ UNCHANGED <<setting, now, identityVars, sets, batch, candidate, request>>

\* OnDraftCreated finds the active set, if there is one ...
FindSet(s) ==
  /\ request[s].op = "hook" /\ ActiveSets # {}
  /\ Hold(s, [op |-> "start", v |-> request[s].v,
              set |-> CHOOSE n \in ActiveSets : \A m \in ActiveSets : m <= n])
  /\ UNCHANGED <<setting, now, identityVars, version, sets, runVars, batch, candidate>>

\* ... and starts the run; a draft that is under evaluation by now is left.
StartFromHook(s) ==
  /\ request[s].op = "start" /\ StartRun(request[s].v, request[s].set)
  /\ Done(s)
  /\ UNCHANGED <<setting, now, identityVars, sets, batch, candidate>>

\* publishEvaluationTasks: one task, by the core service's own transaction.
\* A publication that reports an error may have created the task or not.
PublishTask(r, ref, created, ok) ==
  /\ publisher[r].hand = None /\ ref \in publisher[r].left
  /\ ok => created
  /\ publisher' = [publisher EXCEPT ![r].hand = ref, ![r].ok = ok]
  /\ board' = [board EXCEPT ![r][ref].state = IF created THEN "open" ELSE @]
  /\ UNCHANGED <<setting, now, identityVars, version, sets, run, runTask, batch, candidate, request>>

\* SetTaskID or RecordPublishFailure; "lost" when that transaction fails.
RecordTask(r, lost) ==
  LET p == publisher[r] IN
  /\ p.hand # None
  /\ runTask' = IF lost THEN runTask
                ELSE [runTask EXCEPT ![r][p.hand].task = @ \/ p.ok,
                                     ![r][p.hand].error = @ \/ ~p.ok]
  /\ publisher' = [publisher EXCEPT ![r] = [Quiet EXCEPT !.left = p.left \ {p.hand}]]
  /\ UNCHANGED <<setting, now, identityVars, version, sets, run, board, batch, candidate, request>>

\* The publishing process ends before it is through.
PublisherDies(r) ==
  /\ publisher[r] # Quiet
  /\ publisher' = [publisher EXCEPT ![r] = Quiet]
  /\ UNCHANGED <<setting, now, identityVars, version, sets, run, runTask, board, batch, candidate, request>>

-----------------------------------------------------------------------------
(* The platform tasks of a run, driven by the rest of the system            *)

Live(r) == Presents(r) /\ agent.status = "active"

\* A claim: by this agent with a token of its current version, or by another
\* agent of the tenant (0). A task whose execution was lost is open again.
ClaimTask(r, ref, by) ==
  /\ Allowed("work") /\ board[r][ref].state \in {"open", "lost"}
  /\ by = 0 \/ Live(by)
  /\ board' = [board EXCEPT ![r][ref] = [state |-> "running", by |-> by, slow |-> FALSE]]
  /\ UNCHANGED <<setting, now, identityVars, version, sets, run, runTask, publisher, batch, candidate, request>>

Moves ==
  {<<"open", "cancelled">>, <<"open", "expired">>, <<"running", "lost">>,
   <<"running", "pending_verification">>, <<"pending_verification", "validated">>,
   <<"pending_verification", "validation_failed">>}

Proceed(r, ref, to, slow) ==
  /\ Allowed("work") /\ <<board[r][ref].state, to>> \in Moves
  /\ slow => to = "validated"
  /\ board' = [board EXCEPT ![r][ref].state = to, ![r][ref].slow = slow]
  /\ UNCHANGED <<setting, now, identityVars, version, sets, run, runTask, publisher, batch, candidate, request>>

-----------------------------------------------------------------------------
(* The harvest worker                                                       *)

Running == {r \in Runs : run[r].status = "running"}

\* A batch of the oldest running runs (no order among equal start times).
Oldest(rs) ==
  /\ rs \subseteq Running
  /\ Cardinality(rs) = IF Cardinality(Running) < BatchSize THEN Cardinality(Running) ELSE BatchSize
  /\ \A r \in rs, q \in Running \ rs : run[r].started <= run[q].started

ListRunning(w, rs) ==
  /\ w \in setting.workers /\ batch[w] = {} /\ rs # {} /\ Oldest(rs)
  /\ batch' = [batch EXCEPT ![w] = rs]
  /\ UNCHANGED <<setting, now, identityVars, version, sets, runVars, candidate, request>>

\* harvestOutcome: what the observed platform task says about a row.
Failed(r, ref) ==
  LET b == board[r][ref] row == runTask[r][ref] IN
  \/ row.error
  \/ /\ row.task
     /\ \/ b.state \in {"cancelled", "expired", "lost", "validation_failed"}
        \/ b.state # "open" /\ b.by # run[r].version

Passed(r, ref) ==
  LET b == board[r][ref] row == runTask[r][ref] IN
  row.task /\ ~row.error /\ b.state = "validated" /\ b.by = run[r].version

NeverOverdue(r) == FALSE

\* Every outstanding row of an overdue run counts as failed.
Overdue(r) == run[r].started + RunTimeout <= now

Resolved(r) ==
  [ref \in DOMAIN runTask[r] |->
    LET row == runTask[r][ref] IN
    IF row.result # "pending" THEN row
    ELSE IF Passed(r, ref) THEN [row EXCEPT !.result = "passed", !.slow = board[r][ref].slow]
    ELSE IF Failed(r, ref) \/ Overdue(r) THEN [row EXCEPT !.result = "failed"]
    ELSE row]

\* LockRunningForUpdate: a run that has ended is left alone.
Locks(r) == run[r].status = "running"

\* completeRun: the rule applied to the rows.
Scored(rows) ==
  ThresholdsHold(DOMAIN rows, {ref \in DOMAIN rows : rows[ref].result = "passed"},
                 {ref \in DOMAIN rows : rows[ref].slow})

Complete(r, passes) ==
  /\ run' = [run EXCEPT ![r].status = Outcome(passes)]
  /\ version' = Verdict(run[r].version, passes)

\* The transaction of one run fails or its process ends; the next tick
\* lists the run again.
HarvestFails(w, r) ==
  /\ r \in batch[w]
  /\ batch' = [batch EXCEPT ![w] = @ \ {r}]
  /\ UNCHANGED <<setting, now, identityVars, version, sets, runVars, candidate, request>>

\* harvestRun, under the lock of the run row: resolve what can be resolved
\* and, when nothing is left, score the run and move the version.
Harvest(w, r) ==
  LET rows == Resolved(r)
      pending == {ref \in DOMAIN rows : rows[ref].result = "pending"}
  IN
  /\ r \in batch[w]
  /\ batch' = [batch EXCEPT ![w] = @ \ {r}]
  /\ \/ ~Locks(r) /\ UNCHANGED <<run, runTask, version>>
     \/ /\ Locks(r)
        /\ runTask' = [runTask EXCEPT ![r] = rows]
        /\ IF pending # {} THEN UNCHANGED <<run, version>> ELSE Complete(r, Scored(rows))
  /\ UNCHANGED <<setting, now, identityVars, sets, board, publisher, candidate, request>>

Tick ==
  /\ now < setting.horizon
  /\ now' = now + 1
  /\ UNCHANGED <<setting, identityVars, version, sets, runVars, batch, candidate, request>>

-----------------------------------------------------------------------------

\* An agent that is not there yet, or one that was activated some time ago
\* in a tenant with one active benchmark set.
Init ==
  /\ setting \in Settings
  /\ now = 0
  /\ IF setting.established
     THEN /\ agent = [status |-> "active", current |-> 1]
          /\ credential = [status |-> "consumed", expires |-> 0]
          /\ tokens = {1}
     ELSE agent = NoAgent /\ credential = NoRow /\ tokens = {}
  /\ version = [v \in Versions |-> IF v = 1 /\ setting.established THEN FirstVersion ELSE NoRow]
  /\ sets = [n \in Numbers |-> IF n = 1 /\ setting.refs # None
               THEN [status |-> "created", refs |-> setting.refs, active |-> TRUE] ELSE NoRow]
  /\ run = [r \in Runs |-> NoRow]
  /\ runTask = [r \in Runs |-> <<>>]
  /\ board = [r \in Runs |-> [ref \in Refs |-> NoTask]]
  /\ publisher = [r \in Runs |-> Quiet]
  /\ batch = [w \in Workers |-> {}]
  /\ candidate = [c \in Candidates |-> NoRow]
  /\ request = [s \in Slots |-> Idle]

Identity ==
  \/ Register \/ Refresh
  \/ \E v \in Versions : Mint(v)
  \/ \E s \in Slots : ReadHeartbeat(s) \/ ReadActivation(s) \/ Activate(s) \/ WriteAgent(s) \/ Abandon(s)
  \/ \E s \in Slots, op \in Managed : ReadAgent(s, op)

Experience ==
  \/ \E c \in Candidates, class \in Classes : Extract(c, class)
  \/ \E s \in Slots, c \in Candidates, verdict \in Verdicts :
       ReadCandidate(s, c, verdict)
  \/ \E s \in Slots : Judge(s)

Versioning ==
  \/ \E s \in Slots, config \in Configs, cites \in SUBSET Candidates : ReadDraft(s, config, cites)
  \/ \E s \in Slots, v \in Versions : ReadPromotion(s, v)
  \/ \E s \in Slots : InsertDraft(s) \/ Promote(s)
  \/ \E v \in Versions : Rollback(v)

Evaluation ==
  \/ \E s \in Slots, refs \in Contents, active \in BOOLEAN : ReadNumber(s, refs, active)
  \/ \E s \in Slots : ClearFlags(s) \/ CreateSet(s) \/ FindSet(s) \/ StartFromHook(s)
  \/ \E v \in Versions, n \in Numbers : StartEvaluation(v, n)
  \/ \E r \in Runs, ref \in Refs, created \in BOOLEAN, ok \in BOOLEAN :
       PublishTask(r, ref, created, ok)
  \/ \E r \in Runs, lost \in BOOLEAN : RecordTask(r, lost)
  \/ \E r \in Runs : PublisherDies(r)
  \/ \E r \in Runs, ref \in Refs, by \in 0..MaxVersion : ClaimTask(r, ref, by)
  \/ \E r \in Runs, ref \in Refs, slow \in BOOLEAN, to \in {move[2] : move \in Moves} :
       Proceed(r, ref, to, slow)

ListSome(w) == \E rs \in SUBSET Runs : ListRunning(w, rs)
HarvestSome(w) == \E r \in Runs : Harvest(w, r)

Next ==
  \/ Identity \/ Experience \/ Versioning \/ Evaluation
  \/ \E w \in Workers : ListSome(w) \/ HarvestSome(w) \/ \E r \in Runs : HarvestFails(w, r)
  \/ Tick

\* A worker's ticker fires for ever, a harvest that is tried again and again
\* does not fail every time, and time passes.
Fairness ==
  /\ WF_vars(Tick)
  /\ \A w \in Workers : WF_vars(ListSome(w)) /\ SF_vars(HarvestSome(w))

Spec == Init /\ [][Next]_vars /\ Fairness

-----------------------------------------------------------------------------
(* Properties                                                               *)

TypeOK ==
  /\ setting \in Settings /\ now \in 0..setting.horizon
  /\ agent \in [status : {"none", "pending_activation", "active", "suspended", "revoked"},
                current : 0..MaxVersion]
  /\ credential = NoRow \/ credential.status \in {"pending", "consumed"}
  /\ tokens \subseteq Versions
  /\ \A v \in Versions :
       version[v] = NoRow \/ version[v] \in
            [status : {"draft", "evaluating", "eligible", "active", "retired", "rejected"},
             config : Configs \cup {None}, memory : SUBSET Candidates]
  /\ \A r \in Runs :
       /\ run[r] = NoRow \/ run[r].status \in {"running", "passed", "failed"}
       /\ publisher[r].left \subseteq DOMAIN runTask[r]
  /\ \A s \in Slots : request[s].op \in Managed \cup
       {"idle", "activate", "draft", "hook", "start", "promote", "benchmark", "cleared",
        "judge"}

\* Version 1 made by the activation needs no evaluation.
FromActivation(v) == v = 1 /\ credential.status = "consumed"

Serviceable == {"active", "eligible", "retired"}

Proven(v) == FromActivation(v) \/ HasPassed(v)

\* The run table and the version table, written by two components, tell one
\* story: a version has at most one run, is under evaluation exactly while it is
\* running, and takes its verdict; this must survive the hook racing the
\* owner for the draft and two workers racing for the run.
RunMatchesVersion ==
  \A v \in Versions :
    LET statuses == {run[r].status : r \in {q \in Runs : run[q] # NoRow /\ run[q].version = v}} IN
    /\ version[v].status = "evaluating" <=> statuses = {"running"}
    /\ version[v].status = "rejected" <=> statuses = {"failed"}
    /\ statuses = {"passed"} => version[v].status \in Serviceable
    /\ version[v].status \in Serviceable => Proven(v)
    /\ Cardinality({r \in Runs : run[r] # NoRow /\ run[r].version = v}) <= 1

\* However promotions, rollbacks and stale writes of the agent row interleave,
\* at most one version is active, and the current version and every version
\* that ever did work came from the activation or passed its evaluation.
ActiveIsProven ==
  /\ Cardinality(ActiveVersions) <= 1
  /\ \A v \in {agent.current} \cup {board[w][ref].by : w \in Runs, ref \in Refs} :
       v = 0 \/ Proven(v)

\* No version is built on evidence the classifier called forbidden, whatever
\* reviewers do to the candidates at the same time.
ForbiddenStaysOut ==
  \A v \in Existing : \A c \in version[v].memory : candidate[c].class # "forbidden"

\* At most one benchmark set is active: nothing but the uniqueness of the set
\* number keeps two creators, each clearing the other's flag, apart.
OneActiveSet == Cardinality(ActiveSets) <= 1

\* A run ends, though its tasks may never be published, claimed or finished,
\* and though older runs fill the worker's batch.
EvaluationEnds ==
  \A r \in Runs : run[r].status = "running" ~> run[r].status \in {"passed", "failed"}

\* A revoked agent stays revoked. The code breaks this: see the README.
RevocationStands == [][agent.status = "revoked" => agent'.status = "revoked"]_vars

=============================================================================
