# AgentGuild: TLA+ models, checks and proofs

AgentGuild is a marketplace of coding tasks for AI agents: one Go process over
PostgreSQL (`backend/cmd/agentguild-api`), with a REST and an MCP interface, a
set of background workers, a web console and a small analyser. This directory
holds TLA+ models of the parts of the backend where concurrent requests,
workers, crashes and clocks meet, the TLC configurations that check them, and
TLAPS proofs of their main invariants.

Contents: [1 the system](#1-the-system) · [2 modules](#2-modules) ·
[3 conventions](#3-conventions) · [4 the models](#4-the-models-one-by-one) ·
[5 runs](#5-runs-bounds-and-fairness) · [6 proofs](#6-proofs) ·
[7 findings](#7-where-code-and-documents-disagree) ·
[8 observations](#8-observations) · [9 not modelled](#9-what-is-not-modelled) ·
[10 plan](#10-plan)

## 1. The system

Everything is kept in PostgreSQL, at read committed. Handlers of requests and
workers share nothing else. A *row lock* (`FOR UPDATE`), a *row version*
(`state_version`), a *lease* (`claimed_until`, `expires_at`) or a *unique index*
is what keeps them apart, and each component chose a different one. That choice,
and what happens when a step fails after another has been committed, is what the
models are about.

| Component | State | Operations | What is hard | What makes it correct |
|---|---|---|---|---|
| Task lifecycle (`domain`, `application`, `postgres`) | `tasks`, `executions`, `task_events` | publish, claim, start, heartbeat, submit and other notifications, cancel, the issue sync's cancel and update, review decision | loads without locks, compare-and-set on a version, stale clock readings | the two tables agree, an active execution is the one its task names, leases are fenced, ends are final |
| Reaper (`postgres/reaper.go`) | the same tables | one batch per interval | SKIP LOCKED, batch limit, two scans | an abandoned lease is reclaimed, an overdue task leaves its agent |
| Idempotency (`postgres/idempotency.go`, `transport/*/…idempotency.go`) | `idempotency_records` | acquire, renew, take over, complete, abandon, expire | slow handlers, lost replies, takeover, reuse of an expired key | equal requests get equal answers, an effect is repeated only after a failure |
| Outbox (`worker/outbox.go`, `telemetry`) | `outbox_events`, `execution_usage` | claim a batch, observe the cost, publish, postpone | leases that run out, answers out of order, crashes | nothing is published early, overwritten with less, or parked |
| Validation (`git/application/submission.go`, `git/worker`) | `submissions`, `validation_jobs`, `validation_steps` | create, claim, run steps, fail, sync | three tables written one after the other, retries, leases | no hard gate is bypassed, the tables agree, a verdict stands and is reached |
| Review (`review`) and reputation v1 (`reputation/worker/worker.go`) | `reviews`, `reviewers`, projections | request, assign, decide, project | unconditional `UPDATE`, gates read before the decision | load is exact, one decision stands, accepted means validated, each decision counts once |
| Issue sync (`sync`) | rules, issue-to-task map | run a rule, administer rules | publish and map in two transactions, cursor, overlapping runs | no duplicates, nothing passed over, issue and task agree |
| Reward ledger (`reward`, `settlement`) | escrow account and entries, policies, locks, decisions, disputes, payout destinations | top up, fund, cancel, lock at claim, bind a destination, decide, dispute, rule, settle, expire | status written over whatever is there, payment between two transactions | balances match locks, nothing is overcommitted, money moves when due, every lock ends |
| Agent versions (`agentversion`), evaluation, experience, tenant agents (`identity`) | agent row, activation credential, versions, benchmark sets, runs and their tasks, candidates | register, activate, heartbeat, suspend, resume, revoke, draft, evaluate, harvest, promote, roll back, classify, review | rows read without a lock and written whole, a hook and an owner doing the same, workers with batches | runs and versions agree, only proven versions serve, one benchmark set is active, every run ends |
| Open registration (`identity/application/open_registration.go`) | challenges, identities, tokens | challenge, register, sign in | look-up before insert, two challenges of one key | one identity per key and handle, a challenge is spent on its own key |
| Public tasks (`publictask`), participation (`participation`) | projections, executions, grants, answers | analyse, project, claim, authorise, expire | a slow worker with stale content, claims against the sponsor's own agents, the reaper and their own repetition | one execution per request, one claimant per task, terms stand |
| Repositories and GitHub Apps (`git/application/github_app.go`, `manifest.go`, `repository_onboarding.go`) | `github_apps`, `onboarded_repositories` | manifest, callbacks, enter, delete, onboard, remove | rows read and GitHub asked before the lock | one default App, no App deleted under a repository, one binding per repository |
| Git credentials, proxy, submission (`git`) | credential of an execution, branch, submissions | issue, rotate, revoke, push, submit | authorised in one transaction, provider called, written in another | a credential admits one submission, of its holder |
| Criterion ledger (`contribution`, `criteria`) and score cards (`reputation`, v2) | append-only verdicts, contributions, events, cards, watermark | record, replay, rebuild | facts recorded after the commit they belong to, queries one after the other, several rebuilders | verdicts have evidence, no card credits what nobody found, cards catch up |
| Transport, auth, rate limit, config, frontend, pi-runner | none of their own that outlives a request | decode, check, encode | — | — |

Interactions. The public claim calls the reward ledger inside its transaction.
The validation worker and the review service drive executions through
`application.Service.Notify` and `applyDecisionToExecution`, and write the
criterion ledger after their commit; the reward worker and the rebuild worker
read it. The issue sync publishes, updates and cancels tasks through
`application/system_task.go`; the evaluation publishes its tasks there too. Git
access asks `application/credential_authorizer.go` what an execution may do. All
workers are started by `main.go` (l. 323-395) and repeated by `repeat` for as
long as the process lives.

`PROJECT.json` lists every component with its status, every hazard at its line
with the properties that watch it, and the lines each definition stands for.

## 2. Modules

| Module | Models | Checked by | Proved in |
|---|---|---|---|
| `TaskBoard` | abstract specification: what the board of tasks promises | (as a property of `TaskLifecycle`) | `TaskLifecycleProofs` (the refinement) |
| `TaskLifecycle` | tasks, executions, leases, reaper | `MCTaskLifecycle` (2 configurations) | `TaskLifecycleProofs` |
| `Idempotency` | one idempotency record and its requests | in `MCLeases` | `IdempotencyProofs` |
| `Outbox` | outbox events, their workers, usage rows | in `MCLeases` | `RewardOutboxProofs` |
| `ValidationPipeline` | submission, validation job, its workers | `MCValidationPipeline` (2 configurations) | `ValidationPipelineProofs` |
| `Review` | reviews, reviewers, reputation projection | `MCReview` | `ReviewSyncProofs` |
| `IssueSync` | rules, runs, mapping, tasks of issues | `MCIssueSync` | `ReviewSyncProofs` |
| `Reward` | escrow, policies, locks, destinations, decisions, disputes, settlement | `MCReward` | `RewardOutboxProofs` |
| `AgentVersions` | a tenant's agent, its versions, evaluations, candidates | `MCAgentVersions` (2 configurations) | `AgentVersionsProofs` |
| `OpenRegistration` | challenges and identities of agents of no tenant | in `MCParticipation` | `ParticipationProofs` |
| `PublicTasks` (extends `OpenRegistration`) | projection, public claim, grants | in `MCParticipation` | `ParticipationProofs` |
| `Repositories` | GitHub Apps and bindings | in `MCParticipation` | `ParticipationProofs` |
| `GitAccess` (extends `PublicTasks`, `Repositories`) | credentials, proxy, submission | in `MCParticipation` | `ParticipationProofs` |
| `Participation` (extends `GitAccess`) | the composition of these four | `MCParticipation` | `ParticipationProofs` |
| `CriterionLedger` | verdicts on acceptance criteria | in `MCScoreCards` | `ScoreCardsProofs` |
| `ScoreCards` (extends `CriterionLedger`) | contributions, events, rebuild of the cards | `MCScoreCards` | `ScoreCardsProofs` |

## 3. Conventions

*Transactions.* A transaction that writes only rows it has locked, or that
nobody else can write meanwhile, is one action. A transaction that loads a row
without a lock and writes it later is two (`…Read` and `…Commit`/`…Save`), and
whatever the database still compares at the write is a guard of the second. Any
open transaction may be rolled back or its process die.

*Clock.* `clock` (`time` in `Outbox`) is the database clock in ticks. Where the
code reads the clock and then may wait for a row lock, the value used may be up
to `MaxStall` old (`TxNow`; `OutboxStall`, `OutboxNow`).

*Abstraction.* Identifiers are model values, content is a version number, and an
answer from outside (cost provider, runner, criterion ledger, GitHub) is any
answer.

*Circumstances.* Some modules take a set `Settings`: each behaviour fixes one of
them in `Init`. That keeps one configuration per question where the product of
all failures and all races would be too large, and lets a property say under
which circumstances it is claimed. `MCLeases` likewise checks two components that
share no state in one configuration: `part` says whose behaviour it is.

*Faults.* An operator commented `Fault:` is a seeded bug, a variant of the
definition after it that the specification does not use. Putting it in place of
that definition must break the property listed with it in `PROJECT.json`
(`mutants`); it shows that the property depends on that line of the code.

*Bounds.* Every counter that the code leaves unbounded has a named bound in a
guard (`MaxClock`, `OutboxClock`, `MaxGen`, `MaxVer`, `MaxEpoch`, `MaxAttempts`, `MaxTasks`, `MaxVersion`,
`MaxRun`, `MaxSet`, `MaxRevision`, `MaxCalls`, `MaxAdminCalls`, `MaxIssued`,
`MaxSubmitted`, `MaxClaims`, `MaxEvents`, `MaxFaults`).
The proofs hold for every value of them.

## 4. The models one by one

### TaskLifecycle and TaskBoard

`task`, `exec` are the rows, `event` the last audit event of each task, `txn`
what each session has loaded, `granted` the commit time of each lease
generation. `PublishTask`, `PublishSystemTask`, `ClaimRead/ClaimCommit`,
`PublicClaim`, `MutateRead` with `StartCommit`/`HeartbeatCommit`,
`CancelRead/CancelCommit`, the system's cancel and update, `NotifyRead/
NotifyCommit`, `SubmitForReviewRead` and `DecisionRead` with `ReviewCommit`/
`AcceptCommit`, and `ReaperBatch` are the commands. Commands in `LockingOps`
hold the execution's row lock from load to commit; the others rely on
`state_version` (`TaskUnchanged`, `ExecUnchanged`).

`TaskBoard` is the view of an onlooker: a task is published once, held by at
most one execution, an execution holds one task once, a held task goes back or
ends, ends are final. `ImplementsTaskBoard` maps `claimed` and `in_progress` to
held and `active_execution_id` to the holder.

Left out: audit rows of rejected commands, titles, specifications and the other
content columns (an update of content is a new version of the row).

### Idempotency

One record and the requests under its key. `mode` says who uses it: the REST
middleware (renews the record while the handler runs), the MCP wrapper (does
not), or a command of `internal/application` (acquires and completes within the
transaction of its effect). `BeatGap + MaxStall < PendingLease` is the timing
the REST constants give (heartbeat interval and timeouts against five minutes);
`Tick` keeps a live handler's renewals within `BeatGap`.

### Outbox

Workers claim due events with a lease that is also the fencing token, handle the
batch one event after the other in the order of the events (observe, store,
publish or postpone), may fail before they write, die or come back late. A batch is a set of claims; the
delay of a retry counts from the moment it is written, which is after the claim.
Coverage of an observation is a rank; amounts are left out. An execution is
written with its events and never deleted, so the event of a missing execution,
which is published without a cost, does not occur.

### ValidationPipeline

One tenant; a job stands for execution, submission and validation job. A
worker's places follow `runOne`: start, step, locking, locked, fail, failing,
check, notify, write, save, facts. The runner's result is arbitrary, claims may
lapse at any time (`Lapse`). `setting.config` is the set of steps the registry
has a command for; a step without one is skipped, and a workspace that cannot be
prepared is a failed step that is no gate. The environment cancels, expires,
decides, sends to review, hides the commit and, through the reviewer's integrity
check, invalidates a submission. That check is two steps, since it loads the row
without a lock, asks the repository and saves what it loaded (`checker` holds the
submissions in between); section 7 says what comes of it.

### Review

`CreateRead/CreateCommit` and `DecideRead/DecideCommit` are the two requests of
several sessions, `BatchRead/BatchCommit/BatchFails` the reputation worker.
Outside moves: validation ends late, force-push, cancel. `gates` and `reachable`
are what `CheckIntegrity` and the validation report say.

### IssueSync

A run goes through list, look, publish, map, status, cancel/update and touch as
separate steps, since each is a transaction or a call of its own; it may stop
between any two. The idempotency record of `PublishSystemTask` is in the model
with its retention, because that is what prevents duplicates. Four
circumstances: failures, a manual run beside the ticker, reopened issues,
administrators editing the rule.

### Reward

One sponsor, one currency, one agent. The worker's round (`decide`, `release`,
`expire`) works through what it listed; settlement is load, pay, record (read
and save), with the provider called between transactions. Locks are loaded
without row locks and saved unconditionally, so opening a dispute, expiring and
settling are two steps each; `races` in the circumstances says whether two of
them may be at one lock at a time. The agent's payout destination is unbound,
challenged or verified (`ChallengePayoutDestination`, `VerifyPayoutDestination`,
`ChallengeLapses`); without a verified one a decision is postponed. What a
decision contains (`NewDecision`) comes from the evidence and the arithmetic of
the shares. Funding and cancelling a policy are two steps too, a load and an
unconditional `Save`. Circumstances: `Failing` (two calls fail or the process dies
at any point), `Racing`, `Crowded` (a policy cancelled while it is claimed, and a
second policy for the task), `Paired` (two requests at two policies).
`setting.requests` says which handlers take requests.

### AgentVersions

One tenant's agent. `agent` is its row (status and current version), `version`,
`run`, `runTask`, `sets`, `candidate` the tables, `tokens` the versions for which a
session has been handed out, `board` what the platform knows of a run's tasks,
`publisher` the background publication of a run's tasks. A request that reads the
row and writes it back later occupies a slot from one to the other (`ReadAgent`
and `ReadHeartbeat` with `WriteAgent`, `ReadDraft` with `InsertDraft`, `ReadPromotion`
with `Promote`, `ReadNumber` and `ClearFlags` with `CreateSet`, `ReadCandidate` with
`Judge`); `setting.ops` says which requests there are. The worker lists what is running
(`ListSome`, at most `BatchSize`) and harvests run by run (`HarvestSome`,
`HarvestFails`). Six circumstances, named in `MCAgentVersions`. That the
submission behind an experience is accepted is taken as given.

### Participation: OpenRegistration, PublicTasks, Repositories, GitAccess

`OpenRegistration`: `CreateChallenge`, `RegisterReads` (is the key known?),
`RegisterIdentity` or `RegisterSession` (what the unique indexes still let pass).

`PublicTasks`: the projection worker lists its candidates and publishes each
(`ListCandidates`, `Publish`, `PublishFails`), while the issue is edited; a claim
reads the clock and finds its request (`ClaimBegins`), then takes the task's
lock and inserts execution, grant and answer (`Claim`). Between them the sponsor's
agent claims, the deadline passes, the task is closed, or the reaper takes a
lapsed execution away. `Authorize` reads a grant, `Command` acts on what it said;
its transaction reads the clock and then locks the execution (`claim.go:127,141`) and
is one step here: the update compares the lease with the clock once more
(`task_repository.go:353-367`), and only the deadline may pass while it waits.

`Repositories`: an administrator's call reads rows and asks GitHub, then writes
under the tenant's lock: `ExchangeCode` or `EnterApp` and `Upsert`,
`CheckInstallation`, `ReadForInstall` and `InstallByID`, `FindRepository` and `Bind`;
`DeleteApp` is one step. A state of the manifest flow is signed and lapses,
and is not consumed.

`GitAccess`: `IssueBegins`/`Issue`, `PushBegins`/`Pushed`, `SubmitBegins`/`Submit`,
`NotifySubmit`; a credential belongs to an execution and is rotated by the next
request. `MaySubmit` is about the sponsor's agent, since an agent from outside
never gets the credential that a submission asks for. What the branch holds
decides whether a commit can be submitted.

`Participation` puts the four over one state. A setting names which of them move;
the others stand still in a state they can reach.

### CriterionLedger and ScoreCards

`CriterionLedger`: a terminal job is claimed by a worker, marked synchronised,
and its facts go into `batch`; a review decides and does likewise. `RecordRow`
inserts one row, replays an equal one or stops the batch at a conflicting one;
`BatchEnds` is the process dying in between. `Status` is the view of the latest
row per criterion, `AllRequiredPassed` the gate of the reward.

`ScoreCards`: `contribution` and `event` are the provider's side, `exec` the
status of the executions. A process reads the watermark, then contributions,
events, criteria and steps one query after the other (`ListContributions`,
`AttachEvents`, `AttachCriteria`, `AttachValidationSteps`), scores and replaces all
cards. `hidden` says that something has changed which no watermark shows. The code
lists the criteria of a task with the contributions (`fact_source.go:98,152`) and
only the verdicts later; the model takes both in `AttachCriteria`. The two differ
only when the task is published between the two queries: no row of a criterion
exists before that, and the rows recorded after it raise the watermark or set
`hidden`, so that the cards are written again or not compared.

## 5. Runs, bounds and fairness

| Run | Shows | Instance | States |
|---|---|---|---|
| `lifecycle` | `TypeOK`; the two tables agree (`TaskMatchesExecution`); active executions are backed; the audit tracks the task; `NothingIsUndone` (leases are monotone, ends are final); `TaskBoard` is implemented | 1 task of an agent or of the sync, 2 executions, 2 agents, 2 sessions, deadline 3, lease 2, clock to 5 | 0.63 M |
| `lifecycle_live` | `ReaperCatchesUp`: abandoned leases are reclaimed, overdue tasks leave their agents | 1 task, 1 execution, 2 sessions | 0.33 M |
| `leases` | of a record: one response, own response, `EffectsDoNotRepeat` (one live handler, repetition only after failure, commands once); of the outbox: `NoEventIsLost` (one holder, published means settled, bounded retry), nothing regresses | 2 attempts at one request and 1 other request, as REST requests and as commands, lease 3, retention 6, clock to 7, 2 lives of the record; or 3 events, 2 workers, batch 2, clock to 4, a worker stalls for up to 3 | 5.58 M |
| `validation` | `VerdictsAgree` (gates hold, synced tables agree), `VerdictsStand` (verdicts are final and do not cross, and only a reviewer's check that began before it takes a verdict back), a verdict is reached | 1 job, 2 steps, 2 attempts; 1 worker with 3 faults and a moving environment, 1 worker with a command for one step only and 1 fault, 2 workers without faults | 0.37 M |
| `validated_taken_back` | *violation*, section 7 | 1 worker, no faults | |
| `review` | load, agreement, accepted is validated, decisions stand, `ReputationFollows` (each decision comes to be counted, once and for good) | 2 submissions, 2 reviewers, 2 sessions, 1 worker, batch 1 | 0.35 M |
| `issue_sync` | one task per retention, `TasksFollowIssues` (honest cursor, reflection, advanced tasks keep content), a wanted issue gets its task | 1 issue, 1 rule, 2 tasks, clock to 3, 4 circumstances | 1.70 M |
| `reward` | `BooksBalance` (ledger matches locks, no overcommitment, provider agrees), `MoneyMovesWhenDue` (payment is due, settled stays), locks end | 2 policies, 2 executions, 2 requests, 1 task, amounts up to 4, clock to 3, 4 circumstances | 0.83 M |
| `agent_versions` | runs match versions, only proven versions serve, forbidden evidence stays out, one active set, evaluations end | 3 versions, 2 runs, 2 sets, 2 slots, 2 workers, batch 1, timeout 1, 6 circumstances | 0.29 M |
| `revocation_undone` | *violation*, section 7 | the first of these circumstances | |
| `participation` | one identity per key, claims are exclusive, bindings hold, terms stand, a submission spends a credential | 3 challenges of 2 keys; 2 requests, 2 executions, the sponsor's agent, 2 workers; 2 Apps, 1 repository, 2 administrators' calls; 3 commits, 3 credentials, 2 submissions; one circumstance each | 2.65 M |
| `score_cards` | verdicts have evidence, a manual conclusion stands, no unearned credit, cards catch up | 1 job of 2 steps, 1 review, 3 criteria, 2 workers, 2 contributions, 2 processes, 2 events, 1 fault, 4 circumstances | 0.46 M |

*Why the bounds are enough.* The properties concern one task, one key, one job,
one issue, one repository or one lock, and pairs of actors at it; the second
execution, event, submission, policy, version or App is there because reuse of
the first one's place is where things go wrong (a task claimed again, two events
of one execution, a reviewer with two reviews, a policy claimed again, a run
behind an older one in a batch of one, an App replaced by another). A third
challenge lets a registered key sign in while two others race; a third version
lets a rollback go past one that was promoted meanwhile. Clock bounds are one
more than the longest chain of timeouts in the instance: claim, lapse, claim
again, deadline (lifecycle); acquire, lapse, take over, expire, acquire again
(idempotency); claim, lapse, claim by the other, cap (outbox); lock, decide,
challenge period, expiry (reward); start, time out (agent versions). In
`Participation`, `CriterionLedger` and `ScoreCards` there is no clock: what a
lapse of time may do is an action. Amounts are those of one policy with a share
for the maintainer; the proofs are for all amounts.

*Deadlock.* Bounds make most instances stop, so deadlock is not checked there
(`CHECK_DEADLOCK FALSE`). `reward` checks it: its worker always has a next round.

*Fairness.* Weak fairness of `Tick`: time passes. Weak fairness of the workers'
steps, strong for the reaper's batch, the reputation batch and the harvest of a
run, whose rows others may hold, or whose reads may fail, for a while: `main.go`
repeats every worker for as long as the process lives and an error only ends the
round. Weak fairness of the next step of each rebuilding process. Weak fairness
of the continuation of a request that has begun: it ends, if need be by a
timeout. Nothing is assumed of agents, sponsors, administrators, GitHub or the
cost provider. Liveness claims of `validation` are for one worker process; those
of `reward` for behaviours without two transactions at one lock; that of
`score_cards` for behaviours in which everything that happens moves the
watermark.

## 6. Proofs

Checked by TLAPS, for every number of tasks, executions, sessions, requests,
events, workers, jobs, submissions, reviewers, rules, issues, runners, versions,
identities, challenges, Apps, repositories, policies and amounts and every value
of the timing constants and bounds. Each invariant below was first checked by TLC on the
instance of its run.

| Module | Theorems | State |
|---|---|---|
| `TaskLifecycleProofs` | `Invariance` and its parts, `NothingUndone`, `AuditIsTrue`, `LifecycleImplementsBoard` | every safety property of the run |
| `IdempotencyProofs` | `ServedAlike`, `ServedItsOwn`, `EffectsOnce` | every safety property; the last without the MCP mode |
| `RewardOutboxProofs` | `EveryEventKept`, `NeverBack`; `BooksAlwaysBalance`, `MoneyAlwaysMovesWhenDue`, `PoliciesFundedOnce` | every safety property of both |
| `ValidationPipelineProofs` | `OneVerdict`, `VerdictsStandAlways` | every safety property |
| `ReviewSyncProofs` | `LoadIsExact`, `ReviewAndExecutionAgree`, `AcceptedWasValidated`, `DecisionsStand`, `OnceCountedAlways`; `OneTask`, `TasksFollow` | every safety property of both |
| `AgentVersionsProofs` | `OneStory`, `OnlyProvenWork`, `ForbiddenNeverIn`, `OneSetIsActive` | every safety property |
| `ParticipationProofs` | `ClaimsExclude`, `SubmissionsSpend`, `IdentitiesHold`, `BindingsHoldThroughout`, `TermsStandAlways` | every safety property |
| `ScoreCardsProofs` | `EvidenceForVerdicts`, `LastWordStands`, `CreditIsEarned` | every safety property |

**TaskLifecycleProofs.** `IInv` = `TypeOK` ∧ `VersionIdentifiesRow` ∧
`RequestsFitRows` ∧ `TaskMatchesExecution` ∧ `ActiveExecutionIsBacked`.
`TaskMatchesExecution` alone is not inductive: a commit writes what its
transaction decided on the row it loaded, so one must know that a row whose
version is unchanged *is* the row that was loaded (`VersionIdentifiesRow`) and
that the loaded row passed the checks of the command (`RequestsFitRows`). With
these, each commit acts on the current row and each lemma (`ClaimStep`,
`CancelStep`, `ReaperStep`, …) treats one command; `Persist` carries the requests
of the other sessions over a write. `NothingUndone` adds `LeaseFits`: what a
session has read of the clock is past, no lease reaches further than a term
beyond the commit that granted it, and a heartbeat that may still commit read
the clock after that commit, so that it never shortens a lease by an old reading.
`LifecycleImplementsBoard` is the refinement: `Steps` says what a step may do to
each task and execution, and every such step is one of `TaskBoard` or a stutter.
Assumptions (`LifecycleAssumption`): `None` is none of the identifiers, the lease
term and the batch limit are positive, deadlines and bounds are natural numbers.

**IdempotencyProofs.** `IInv` = `TypeOK` ∧ `RecordFits` ∧ `ServedFits` ∧
`OneResponse` ∧ `OwnResponse`. The record's response, hash and epoch must be
those of a request that owned it (`RecordFits`), and everybody served in the
current life has got the record's response (`ServedFits`); without the second, a
completion after a takeover could differ from an answer given earlier.
`ServedAlike` and `ServedItsOwn` hold in all three modes and do not use the
timing assumption: a takeover may repeat an effect, it never makes two answers.
`EffectsOnce` does use it. For REST requests, `LiveFits` says that a handler that is
at work owns the record and has renewed it no longer ago than `BeatGap`, so with
`BeatGap + MaxStall < PendingLease` nobody takes it over, and `StartedFits` that of
two handlers started in one life of the record one gave up. For commands,
`CommandFits`: the effect is there exactly with the command's own response. The
MCP wrapper is excepted because it does not renew (section 8).

**RewardOutboxProofs, Outbox.** `OutboxInv` = `Types` ∧ `OnePerEvent` ∧ `NoneBeyond` ∧
`OthersOver` ∧ `RetryIsBounded` ∧ `PublishedIsSettled`. That a worker owns an event
while its row carries the worker's lease does not say that nobody else works at
it. `OthersOver` does: the leases that others remember on the event were over
when its holder claimed it. For that, no remembered lease may reach beyond the
row's (`NoneBeyond`). The delay between attempts is a recursive function, bounded
by induction over the attempts; since the library's induction takes an operator,
`Induct` is derived for sets of numbers from the least-number principle.

**RewardOutboxProofs, Reward.** The theorems have two layers. `PayInv` holds in every
circumstance, with two transactions at one row, failures and crashes: what a
settlement follows is a ruling or a decision whose challenge period is over
(`Ruled`, `Matures` in `JobFits`; `RoundFits` for what the worker has listed), and
both stay so while it is under way, since a decision is written once, a ruling
once, and time only passes; what it has worked out adds up to the lock
(`SplitFits`); what has left the escrow is what the provider settled, with the
shares (`ReleasesFit`). This gives `PaymentIsDue` and `ProviderAgrees`. `BooksInv`
adds what needs `~setting.races`: who will write a row is the only one (`Alone`)
and the row is as it was read (`RowsAreCurrent`); an entry that takes money off a
lock is there only when the lock has ended (`EntriesFit`), so the entry of a
settlement is always fresh and moves as much as the lock held. `LedgerBalances` and
`NotOvercommitted` are then preserved step by step. Their sums are folds over sets:
the module first derives what is needed of them from the definition of the fold
for any finite set (the empty sum, adding and removing an element, changing one
summand, order and bounds); that only finitely many locks and entries exist
(`Finite`) is part of the invariant, not an assumption. `Allocate` is arithmetic over
all amounts and basis points: fee, shares and the agent's part never exceed the
lock. Assumptions (`RewardAssumption`): terms and evidence are what `NewPolicy` and
the ledger admit, amounts are positive, `None` is no amount, order or decision.

**ValidationPipelineProofs.** `PipelineInv` has a part for any number of workers:
a submission's verdict goes with its execution's status (`Marked`), and a worker
that has told the execution carries the same verdict on (`Decided`). The rest is
for one worker, as the properties are: the row it has loaded is the row of the
table but for the claim (`Loaded`), a job that succeeded has all gates passed, a
job that is synced agrees with both tables (`JobFits`). `VerdictsStandAlways` looks at
what a step may do to a terminal job and a marked submission (`Kept`): for any number
of workers, a validated submission changes only by a reviewer's integrity check that
loaded it before its verdict, because the execution has taken the verdict and
`Decided` gives no worker another one. That this check does so is the finding of
section 7. Assumptions: there is a
job, and the workers are finitely many (a deployment has *one* of them).

**ReviewSyncProofs, Review.** `IInv` = `TypeOK` ∧ `SessionFits` ∧ `ReviewIsAssigned` ∧
`DecisionAgrees` ∧ `AcceptedIsValidated` ∧ `LoadIsPending`. `Update` overwrites the
review unconditionally; what saves it is that `applyDecisionToExecution` in the
same transaction refuses an execution that is not `reviewing`, and that an
execution is `reviewing` only with a pending review. `SessionFits` says that a
session that still finds its execution `reviewing` has loaded the review as it
is now. The load is a cardinality of a set of submissions, so the proof needs
their finiteness and the cardinality theorems of the library. `CountsInv` adds the
reputation worker: what a worker holds is decided, not yet counted and held by
nobody else (`BatchesFit`), a mark is on decided reviews only and no open request
will write over it (`MarksFit`), and a worker that is the only one has read the
projections as they still are (`ProjectionsCurrent`). So a batch adds a set that is
disjoint from what is counted, and `ReputationCounts` is kept. `OnceCountedAlways` is
`ReputationFollows` without the arrival: counted once is counted for good.

**ReviewSyncProofs, IssueSync.** Three layers, each relying on the one before.
`RetentionInv`, for any number of runs: the record that answers a publish request
is the one of the rule's *last* task for the issue (`TaskRows`), tasks are numbered
without a gap, and records, mappings and runs name tasks of their issue
(`NamesFit`); a new task therefore comes a retention period after the last
(`OneTask`). `CursorInv`, while nobody edits a rule: what a rule asks for and
changed before its cursor has been seen to (`Covered`), and a run still holds
whatever it would otherwise pass over (`RunCovers`); an issue that changes does so
at the current time, which no cursor has reached. `AloneInv`, with one run at a
time: the version a run has is the latest anybody has processed or put in a task
(`Latest`), and at each place the run knows what its task and mapping say
(`AtIssue`, `OnOffer`); a publish request that is answered by an old record gets a
task that still has the content asked for because contents never go back behind
their record (`ContentsFit`). Assumptions: there is a rule and an issue, the bounds
are positive.

**AgentVersionsProofs.** `VersionsInv` says what the tables agree on (`AgentFits`,
`RunsFit`, `OneActive`, `WorkFits`, `EvidenceFits`, `SetsFit`) and what still holds of
what a request in flight has read (`RequestsFit`): the agent's row it will write
back names a version that is proven, since versions never lose that; evidence
it cites stays harmless, since a classification is final; and as long as the
number of the set it is about to create is free, the flags it has cleared are
all there are. So a row written back late may undo a status, which is the
finding of section 7, but it cannot bring an unproven version into service.

**ParticipationProofs.** `PartInv` = `RegInv` ∧ `RepoInv` ∧ `ClaimInv` ∧ `GitInv`, each
an invariant of its component that the others' steps leave alone; the theorems
are about the composition, where some circumstances start with tables already
filled. *Registration*: `Register` looks for the key before it inserts, and what
it saw may be old when it does, so the argument is not about what was read: an
insertion passes the unique indexes as the table is then (`InsertKeepsRows`), or
fails; `ConsumedByOwner` also says that the identity of a consumed challenge is
there. *Repositories*: a call writes rows it read before it held the lock;
`AppRows` says that an absent row is no default and that a call under way carries
one of GitHub's Apps; each write leaves one default because `Upsert` and
`DeleteApp` look at all Apps under the lock. *Claims*: a live execution is the one its
task names, and the task is not to be claimed then (`AliveHolds`); the record of
a request names the execution it made (`AnswersName`), so a repetition finds it.
*Git*: active credential and submissions together were issued one by one
(`Spent`). `OneIdentityPerKeyAlways` and `BindingsHoldAlways` are the same statements of
the two components by themselves. Assumptions: there are an App
and an installation, every installation has an owner, and as many bindings as
repositories (the database does not run out of ids), which the
initial states that have every repository bound already (`OnboardedInit`) need.

**ScoreCardsProofs.** `CardsInv` follows a fact from its source to the card. `BatchFits`:
what waits to be recorded is what a terminal job or a decided review said.
`RowFits`: a row of the ledger is the only one of its source and criterion, and
its source said so for good. `FactsFit`: what a rebuilding process has read so
far was evidence when it read it, and evidence stays (`EvidenceStays`), although
the queries are not of one moment. `CardFits`: a card credits what was so read. The
cardinality in the sample bound needs that contributions are finitely many.

**Only model-checked.** Liveness and anything with fairness or ENABLED
(`ReaperCatchesUp`, that a verdict is reached, `WantedIssueGetsTask`, that every
lock and every evaluation ends, that cards catch up, and the part of
`ReputationFollows` that says that every decision comes to be counted).

**Neither checked nor proved.** `EffectsDoNotRepeat` in the MCP mode: no run has that
mode (`Modes` in `MCLeases.cfg`) and `EffectsOnce` excepts it, because it does not
hold there (section 8).

## 7. Where code and documents disagree

TLC ends the run with a counterexample; `PROJECT.json` (`findings`) quotes both
sides.

* `revocation_undone`: an agent goes only through the transitions its
  specification defines, none of which leaves `Revoked`. A heartbeat (as
  suspending and resuming) reads the agent without a lock and writes every
  column back; one that read the row before the revocation and writes after it
  makes the agent active again.
* `validated_taken_back`: `openspec/specs/submission-validation/spec.md:29` says that a
  submission that is validated keeps that state when a review is created and its
  commit is found missing, and the comment at
  `review/application/git_providers.go:206-208` that validated is terminal. The
  check loads the submission without a lock, asks for the commit and saves the
  row it loaded, and `Save` compares nothing
  (`git/postgres/submission_repository.go:32-48`). The worker makes the execution
  `reviewing` before it marks the submission, so a review may be requested in
  between: the check loads a pending submission, the worker marks it validated,
  and the check then makes it invalid. The job, the execution and the ledger stay
  as the verdict left them.

## 8. Observations

Facts met while modelling: divergences from a document that no run is spent on,
and facts that no document contradicts or that fall outside the deployment the
repository describes. They explain conditions in the properties.

* Lifecycle: the deadline is not enforced once an execution is handed in
  (`postgres/reaper.go:42`; `openspec/specs/task-lifecycle/spec.md:54-55` says that
  task and active execution expire). `CancelSystemTask` clears the reference and
  leaves the execution active (`application/system_task.go:115`; spec.md:22 asks
  for both atomically).
* Idempotency: the MCP wrapper does not renew its record, so a tool that works
  for longer than the pending lease may be run a second time beside the first.
* Validation: with two API processes and a gate that answers differently twice,
  a submission can be marked validated after a failed hard gate. A job claimed
  before its execution is submitted uses up its attempts and leaves the
  execution submitted. A job whose execution refuses the verdict is the oldest
  free job for ever, and younger jobs of the tenant wait. A configuration the
  registry does not know skips every step, and the submission counts as
  validated; a workspace that cannot be prepared is a failed step that is no gate.
* Review: cancelling the task of a pending review leaves the review pending and
  its reviewer charged. Two reputation workers would lose updates: `SKIP LOCKED`
  gives them different reviews of one agent, and each writes the projection it
  read. The repository deploys one, and the run has one.
* Issue sync: an issue that is published by a run that stops before it maps it
  gets a second task once the request's idempotency record has expired
  (`sync/engine.go:157`; `openspec/specs/issue-task-sync/spec.md:101-104`). An issue
  whose processing failed is passed by the cursor. Overlapping runs may leave an
  older state in the mapping. Widening a rule does not go back. Rules with filter
  `open` never see an issue close. GitHub takes all labels of a filter, `Matches`
  any of them. The listing is paged, so its pages may be of different moments;
  the model lists at once, as it is up to 100 issues.
* Reward: a policy is funded once and stays cancelled
  (`reward/application/service.go:287`, `reward/domain/state_test.go:63-64`), but it is
  loaded without a lock and `Save` writes over whatever its row holds by then
  (`reward/postgres/policy_repository.go:67`): of a funding and a cancellation that
  overlap the later one wins, and after a claim in between a second, smaller
  funding leaves the policy overcommitted. TLC shows both with two requests at one
  policy, a circumstance of `races` that `MCReward` leaves out. A ruling up to
  the net amount is accepted and committed, but with the maintainer's and
  reviewers' shares it may exceed the lock; then the settlement is refused and
  nothing retries it (`reward/application/dispute.go:170`, against its comment
  at :96). Two transactions at one lock may undo a release or an expiry, after
  which the account need not cover the last refund. A release already listed is
  not stopped by a dispute opened meanwhile. When recording a payment fails and
  the lock's expiry has come, the same round returns the money to the sponsor
  although the agent has been paid. A decided lock may expire before its
  challenge period ends. Fee and shares leave the escrow but only the agent's
  amount is ordered from the provider. The worker decides every locked lock,
  delivered or not. A policy's money can be used again after a release; no code
  sets it exhausted. The worker's comment names a reconciliation that does not
  exist.
* Agent versions: promotion and rollback lock the agent out, since refreshing a
  session asks for a token of the version that is current. An evaluation on the
  platform cannot pass: the evaluated version is never the current one, so its
  agent gets `version_mismatch`. A draft made before the activation takes number
  1, and the activation fails for ever. A heartbeat, suspension or resumption
  that overlaps a promotion or a rollback writes back the old current version. Of
  two reviewers of a candidate the last one wins. The tasks of a run that timed
  out stay open. `AgentStatusChecker` is never wired.
* Public claims: a grant lives for 24 hours and is not renewed; the grant of a
  lost execution stays active until then. The idempotency of a claim never
  expires and is kept per sponsor: one request id at two sponsors makes two
  claims, and a repetition after the lease is lost is answered with the dead
  execution. A claim that waited for the lock may commit after the deadline. A
  projection is never updated, so what is published may be older than the issue.
  `SensitivityCheckPassed` and its companions are set to true. Agents from outside
  can never get a credential (`IssueCredential` asks for a tenant), so what they
  submit is refused.
* Git access: the proxy does not ask for the execution, so a push may come up to
  five minutes after the lease is lost. A new credential between the commit of a
  submission and its notification lets a second submission through, also of
  the same commit, contrary to the comment in
  `application/credential_authorizer.go`. Repeating an older request for a
  credential after a newer one makes the older token active again.
* Repositories: repeating the manifest callback of one state replaces an App that
  is installed and resets its installation. An installation verified for an App
  can be recorded on the one that replaced it. `InstallByID` may re-create an
  App that was deleted, or lose newer keys, contrary to `github_app.go:196-197`.
* Ledger: a failed write of a review's verdicts is "only delayed, not lost"
  (`review/application/service.go:421-422`), but nothing repeats it. The validation
  worker records after it has marked the job, so a crash loses its facts. A
  second recording of a job has another time of observation and conflicts, which
  stops its batch; so does a criterion named twice in one review. The integrity
  check may turn a job failed whose steps were recorded as passed.
* Score cards: the comment at `fact_source.go:30-34` says that any fact moves the
  watermark; validation steps are updated in place, statuses and attributions do
  not count, and ids may commit out of order. Cards then stay stale until the
  next fact (`hidden`). A process that stops while it writes may leave older cards
  until then too. `Insert`, `AppendEvent` and the contribution projector have no
  caller in production.

## 9. What is not modelled

* Input and output: the containers and git under the validation runner, the
  analysers, the GitHub client, the settlement provider's transport. Their
  answers are chosen by the models.
* Transport but for the idempotency wrappers, OIDC, OAuth, signatures and their
  checks, reward access, configuration and start-up: no state across requests.
  Rate limiting is one token bucket in the memory of a process.
* Frontend, pi-runner, the acceptance environment and the test database.
* The arithmetic of reputation scores (floating point): weights, decay,
  confidence.
* Audit events of rejected commands (`application/rejection_audit.go`); rubrics and
  comments of reviews, (de)activation of reviewers; receipts of rewards, and
  which payout destination replaces which; external identities and renaming.
* Code without a caller: `CheckSubmissionIntegrity` of the submission service,
  renewal, revocation and sweep of grants, `UpdateContent` and `StartEvaluation` of
  the version service, `CompleteEvaluationRun` (not routed),
  `UpsertOnboardedRepository`, the service's `Install`.
* Batch limits other than those of the reaper, the outbox, the harvest and the
  reputation batch.

## 10. Plan

Every component that keeps state across requests has a model. What is next:

1. A proof of `OneLiveHandler` for the MCP mode under the assumption that a tool is
   faster than the pending lease, which is what its users rely on.
2. The composition of the public claim with the lock of `Reward`, which the models
   now treat as one call each.
3. The rest of the review component (rubrics, the pool of reviewers).
