------------------------------- MODULE Reward -------------------------------
(***************************************************************************)
(* The reward ledger: sponsors' escrow, policies, the lock a public claim   *)
(* puts on the money, the decision, disputes and the settlement             *)
(* (reward/application, reward/domain, reward/postgres, reward/worker).     *)
(*                                                                         *)
(* One sponsor tenant, one currency, one agent.  An execution has at most   *)
(* one lock and a lock at most one decision and one dispute, so the         *)
(* execution stands for all of them and for the decision hash too.          *)
(*                                                                         *)
(* The transactions run at read committed and load a lock without locking   *)
(* its row; Save writes the status whatever it is by then.  A transaction   *)
(* that writes a row it has loaded is therefore two steps, except where     *)
(* nothing else can write that row meanwhile.  The payment is made between  *)
(* two transactions.                                                        *)
(***************************************************************************)
EXTENDS Integers, FiniteSets, FiniteSetsExt

CONSTANTS
  Policies, Executions, Tasks,
  TopUps,      \* requests to top up the account, each with its id and amount
  Fundings,    \* amounts a sponsor may fund a policy with
  Terms,       \* what a sponsor may write into a policy
  Evidence,    \* what the criterion ledger may hold when a lock is decided
  Requests,    \* handlers of REST and MCP requests
  RewardWorker, \* the reward worker of the one API process
  Scale,       \* BasisPointsScale
  LockTTL, Deadline, Horizon,
  Settings,    \* the circumstances considered: which policies, executions and
               \* handlers of requests there are, whether decisions are
               \* disputed, whether two transactions may be at one lock or
               \* policy row at a time, and how many calls may fail
  None

Procs == Requests \cup {RewardWorker}

\* NewPolicy: the money is positive, and neither what is taken off first nor
\* what is shared out afterwards exceeds the whole.
ValidTerms(t) ==
  /\ t.gross \in Nat \ {0} /\ t.period \in Nat /\ t.life \in Nat \ {0}
  /\ t.multiplier \in BOOLEAN
  /\ {t.fee, t.reserve, t.maintainer, t.reviewer} \subseteq 0 .. Scale
  /\ t.fee + t.reserve <= Scale
  /\ t.maintainer + t.reviewer <= Scale

\* DecisionEvidence: whether every required criterion has passed, and the
\* weight of those that have.
ValidEvidence(v) == v.passed \in BOOLEAN /\ v.weight \in 0 .. Scale

\* What the provider is asked to settle for a decision.
OrderRow == [intent : {"release", "refund"}, amount : Nat]

\* The parts of a decision: what is left of the lock after fee and reserve, what
\* others than the agent get, what the agent gets, and how long it can be
\* challenged.
DecisionRow == [net : Nat, shares : Nat, agent : Nat, deadline : Nat]

ASSUME RewardAssumption ==
  /\ Scale \in Nat \ {0} /\ LockTTL \in Nat \ {0} /\ Horizon \in Nat
  /\ \A r \in TopUps : r.amount \in Nat \ {0}
  /\ Fundings \subseteq Nat \ {0}
  /\ Deadline \in [Tasks -> Nat]
  /\ RewardWorker \notin Requests
  /\ None \notin Nat \cup OrderRow \cup DecisionRow
  /\ \A t \in Terms : ValidTerms(t)
  /\ \A v \in Evidence : ValidEvidence(v)
  /\ Settings \subseteq [policies : SUBSET Policies, execs : SUBSET Executions,
                         requests : SUBSET Requests, disputes : BOOLEAN,
                         races : BOOLEAN, faults : Nat]

VARIABLES
  now,
  account,   \* sponsor_escrow_accounts
  entries,   \* sponsor_escrow_entries
  policy,    \* reward_policies
  lock,      \* reward_locks
  decision,  \* reward_decisions
  dispute,   \* reward_disputes
  wallet,    \* the payout destination of the agent and the nonce to bind one
  settled,   \* external: what the provider has settled for each decision
  job,       \* where each handler is, and what it has in memory
  round,     \* where the worker's round is, and what it has listed
  setting

rewardVars == <<now, account, entries, policy, lock, decision, dispute, wallet,
          settled, job, round, setting>>

-----------------------------------------------------------------------------
(* Rows *)

Holding == {"locked", "releasable", "disputed"}
Terminal == {"released", "refunded", "expired"}

NoPolicy == [status |-> "none", task |-> None, terms |-> None, funded |-> 0,
             expires |-> 0]
NoLock == [status |-> "none", policy |-> None, terms |-> None, amount |-> 0,
           expires |-> 0]
NoDispute == [status |-> "none", intent |-> None, amount |-> 0]

\* A handler: the operation, what it is about, the amount its request or its
\* loaded row gave, and the split of the lock it has worked out.
NoJob == [at |-> "idle", on |-> None, intent |-> None, amount |-> None,
         out |-> 0, back |-> 0]

Places == {"idle", "fund", "cancel", "dispute", "load", "pay", "record",
           "save", "expire"}

PolicyRow == [status : {"none", "unfunded", "funded", "cancelled"},
              task : Tasks \cup {None}, terms : Terms \cup {None},
              funded : Nat, expires : Nat]

LockRow == [status : {"none"} \cup Holding \cup Terminal, policy : Policies \cup {None},
            terms : Terms \cup {None}, amount : Nat, expires : Nat]

DisputeRow == [status : {"none", "open", "resolved"},
               intent : {"release", "refund", None}, amount : Nat]

JobRow == [at : Places, on : Policies \cup Executions \cup {None},
           intent : {"release", "refund", None}, amount : Nat \cup {None},
           out : Nat, back : Nat]

\* What an entry is about, and the kind of entry: its idempotency key.
EntryKeys == ({"topup"} \X {r.id : r \in TopUps})
                \cup ({"lock", "release", "refund", "expire"} \X Executions)

EntryRow == [key : EntryKeys, amount : Nat \ {0}]

RewardTypeOK ==
  /\ now \in 0 .. Horizon
  /\ account \in [available : Nat, locked : Nat]
  /\ entries \subseteq EntryRow
  /\ policy \in [Policies -> PolicyRow]
  /\ lock \in [Executions -> LockRow]
  /\ decision \in [Executions -> DecisionRow \cup {None}]
  /\ dispute \in [Executions -> DisputeRow]
  /\ wallet \in {"unbound", "challenged", "verified"}
  /\ settled \in [Executions -> OrderRow \cup {None}]
  /\ job \in [Procs -> JobRow]
  /\ round \in [phase : {"decide", "release", "expire"}, todo : SUBSET Executions]
  /\ setting \in [policies : SUBSET Policies, execs : SUBSET Executions,
                  requests : SUBSET Requests, disputes : BOOLEAN,
                  races : BOOLEAN, faults : Nat]

RewardInit ==
  /\ now = 0
  /\ account = [available |-> 0, locked |-> 0]
  /\ entries = {}
  /\ policy = [p \in Policies |-> NoPolicy]
  /\ lock = [e \in Executions |-> NoLock]
  /\ decision = [e \in Executions |-> None]
  /\ dispute = [e \in Executions |-> NoDispute]
  /\ wallet = "unbound"
  /\ settled = [e \in Executions |-> None]
  /\ job = [q \in Procs |-> NoJob]
  /\ round = [phase |-> "expire", todo |-> {}]
  /\ setting \in Settings

-----------------------------------------------------------------------------
(* The escrow account *)

Entry(prefix, of, n) == [key |-> <<prefix, of>>, amount |-> n]

\* Deltas.  An expired lock is a refund under a key of its own.
AvailableDelta(x) ==
  CASE x.key[1] \in {"topup", "refund", "expire"} -> x.amount
    [] x.key[1] = "lock" -> - x.amount
    [] x.key[1] = "release" -> 0

LockedDelta(x) ==
  CASE x.key[1] = "topup" -> 0
    [] x.key[1] = "lock" -> x.amount
    [] x.key[1] \in {"release", "refund", "expire"} -> - x.amount

\* Entries whose idempotency key is not taken yet.
Fresh(new) == {x \in new : \A y \in entries : y.key # x.key}

\* ApplyEntry: an entry that is there already moves nothing; a balance never
\* goes below zero, the transaction is rolled back instead.
AccountAfter(new) ==
  LET moved == Fresh(new) IN
  [available |-> account.available
                   + SumFunctionOnSet([x \in moved |-> AvailableDelta(x)], moved),
   locked |-> account.locked
                + SumFunctionOnSet([x \in moved |-> LockedDelta(x)], moved)]

Covered(new) == AccountAfter(new).available >= 0 /\ AccountAfter(new).locked >= 0

ApplyEntries(new) ==
  /\ Covered(new)
  /\ account' = AccountAfter(new)
  /\ entries' = entries \cup Fresh(new)

\* TopUpEscrow.  The same request again changes nothing.
TopUpEscrow(r) ==
  /\ Fresh({Entry("topup", r.id, r.amount)}) # {}
  /\ ApplyEntries({Entry("topup", r.id, r.amount)})
  /\ UNCHANGED <<now, policy, lock, decision, dispute, wallet, settled, job,
                 round, setting>>

-----------------------------------------------------------------------------
(* Policies *)

\* LockedAmount: what is still held under a policy.
LockedAmount(p) ==
  SumFunctionOnSet([e \in Executions |-> lock[e].amount],
    {e \in Executions : lock[e].policy = p /\ lock[e].status \in Holding})

\* reward_policies_active_task: one policy of a task at a time is claimable.
NoOtherPolicy(p, t) ==
  \A o \in Policies \ {p} :
    policy[o].task = t => policy[o].status \notin {"unfunded", "funded"}

CreateRewardPolicy(p, t, terms) ==
  /\ p \in setting.policies
  /\ policy[p].status = "none"
  /\ NoOtherPolicy(p, t)
  /\ policy' = [policy EXCEPT ![p] =
       [status |-> "unfunded", task |-> t, terms |-> terms, funded |-> 0,
        expires |-> now + terms.life]]
  /\ UNCHANGED <<now, account, entries, lock, decision, dispute, wallet,
                 settled, job, round, setting>>

\* Another handler has loaded the policy and not written it yet.
PolicyInUse(p, q) ==
  \E o \in Procs \ {q} : job[o].at \in {"fund", "cancel"} /\ job[o].on = p

\* FundRewardPolicy looks at the balance and reserves nothing.
FundRead(q, p, n) ==
  /\ job[q] = NoJob
  /\ policy[p].status = "unfunded"
  /\ n \in 1 .. policy[p].terms.gross
  /\ account.available >= n
  /\ setting.races \/ ~PolicyInUse(p, q)
  /\ job' = [job EXCEPT ![q] = [NoJob EXCEPT !.at = "fund", !.on = p, !.amount = n]]
  /\ UNCHANGED <<now, account, entries, policy, lock, decision, dispute,
                 wallet, settled, round, setting>>

\* CancelRewardPolicy refuses while anything is held under the policy.
CancelRead(q, p) ==
  /\ job[q] = NoJob
  /\ policy[p].status \in {"unfunded", "funded"}
  /\ LockedAmount(p) = 0
  /\ setting.races \/ ~PolicyInUse(p, q)
  /\ job' = [job EXCEPT ![q] =
       [NoJob EXCEPT !.at = "cancel", !.on = p, !.amount = policy[p].funded]]
  /\ UNCHANGED <<now, account, entries, policy, lock, decision, dispute,
                 wallet, settled, round, setting>>

\* Save writes status and funded amount over whatever the row holds.
PolicySave(q) ==
  /\ job[q].at \in {"fund", "cancel"}
  /\ LET p == job[q].on
         status == IF job[q].at = "fund" THEN "funded" ELSE "cancelled"
     IN /\ status = "funded" => NoOtherPolicy(p, policy[p].task)
        /\ policy' = [policy EXCEPT ![p].status = status,
                                    ![p].funded = job[q].amount]
  /\ job' = [job EXCEPT ![q] = NoJob]
  /\ UNCHANGED <<now, account, entries, lock, decision, dispute, wallet,
                 settled, round, setting>>

-----------------------------------------------------------------------------
(* The claim *)

\* The part of the funding that no lock holds.
Uncommitted(p) == Min({policy[p].funded - LockedAmount(p), policy[p].terms.gross})

\* OnClaim, in the transaction of the public claim, with the policy's row
\* locked.  Without money the whole claim fails; without a policy, or with
\* one that has expired, the task is claimed without a reward.
OnClaim(e, p) ==
  LET n == Uncommitted(p)
      expires == Min({now + LockTTL, policy[p].expires, Deadline[policy[p].task]})
  IN /\ e \in setting.execs
     /\ lock[e] = NoLock
     /\ policy[p].status = "funded"
     /\ now < policy[p].expires
     /\ n > 0
     /\ expires > now
     /\ lock' = [lock EXCEPT ![e] =
          [status |-> "locked", policy |-> p, terms |-> policy[p].terms,
           amount |-> n, expires |-> expires]]
     /\ ApplyEntries({Entry("lock", e, n)})
     /\ UNCHANGED <<now, policy, decision, dispute, wallet, settled, job,
                    round, setting>>

-----------------------------------------------------------------------------
(* The worker's round *)

\* Fault: the challenge period is not waited for.
MaturedAtOnce(e) == lock[e].status = "releasable"

\* ListReleasable
Matured(e) == lock[e].status = "releasable" /\ decision[e].deadline <= now

\* Fault: a lock that could not be decided is left alone.
StaleIfDecided(e) == lock[e].status = "releasable" /\ lock[e].expires <= now

\* ListExpired
Stale(e) == lock[e].status \in {"locked", "releasable"} /\ lock[e].expires <= now

Listing(phase) ==
  {e \in Executions : CASE phase = "decide" -> lock[e].status = "locked"
                   [] phase = "release" -> Matured(e)
                   [] phase = "expire" -> Stale(e)}

\* RunOnce: decidePending, releaseMatured, expireStale, again and again.
NextPhase ==
  /\ round.todo = {} /\ job[RewardWorker] = NoJob
  /\ LET phase == CASE round.phase = "decide" -> "release"
                    [] round.phase = "release" -> "expire"
                    [] round.phase = "expire" -> "decide"
     IN round' = [phase |-> phase, todo |-> Listing(phase)]
  /\ UNCHANGED <<now, account, entries, policy, lock, decision, dispute,
                 wallet, settled, job, setting>>

\* The worker takes the next lock of its list.
Takes(e, phase) ==
  /\ round.phase = phase /\ e \in round.todo /\ job[RewardWorker] = NoJob
  /\ round' = [round EXCEPT !.todo = @ \ {e}]

ApplyBps(n, bps) == (n * bps) \div Scale

\* Allocate, with the quality multiplier of one that the worker always asks
\* for; terms.multiplier says whether the range of the policy allows it.
Allocate(n, t, v) ==
  LET fee == ApplyBps(n, t.fee)
      net == n - fee - ApplyBps(n, t.reserve)
      maintainer == ApplyBps(net, t.maintainer)
      reviewer == ApplyBps(net, t.reviewer)
      pool == net - maintainer - reviewer
  IN [net |-> net, shares |-> fee + maintainer + reviewer,
      agent |-> IF v.passed THEN ApplyBps(pool, v.weight) ELSE 0]

\* What NewDecision asks of an allocation once more: the parts do not exceed
\* the whole, and the agent gets nothing unless every required criterion passed.
Consistent(e, a, v) ==
  /\ a.agent + a.shares <= lock[e].amount
  /\ ~v.passed => a.agent = 0

NewDecision(e, a) ==
  [net |-> a.net, shares |-> a.shares, agent |-> a.agent,
   deadline |-> now + lock[e].terms.period]

\* GetActive
HasDestination == wallet = "verified"

\* Decide.  Nothing else writes a lock that is not decided yet.
Decide(e, v) ==
  LET a == Allocate(lock[e].amount, lock[e].terms, v)
  IN /\ Takes(e, "decide")
     /\ lock[e].status = "locked"
     /\ lock[e].terms.multiplier
     /\ a.agent > 0 => HasDestination
     /\ Consistent(e, a, v)
     /\ decision' = [decision EXCEPT ![e] = NewDecision(e, a)]
     /\ lock' = [lock EXCEPT ![e].status = "releasable"]
     /\ UNCHANGED <<now, account, entries, policy, dispute, wallet, settled,
                    job, setting>>

\* The evidence is not complete, the agent has no destination, or the policy
\* does not allow the multiplier: left for the next round.
Deferred(e) ==
  /\ Takes(e, "decide")
  /\ UNCHANGED <<now, account, entries, policy, lock, decision, dispute,
                 wallet, settled, job, setting>>

\* Another handler has loaded the lock and not written it yet.
InUse(e, q) ==
  \E o \in Procs \ {q} : job[o].on = e /\ job[o].at \in {"dispute", "save", "expire"}

Unshared(e, q) == setting.races \/ ~InUse(e, q)

Release(e) ==
  /\ Takes(e, "release")
  /\ job' = [job EXCEPT ![RewardWorker] =
       [NoJob EXCEPT !.at = "load", !.on = e, !.intent = "release"]]
  /\ UNCHANGED <<now, account, entries, policy, lock, decision, dispute,
                 wallet, settled, setting>>

\* Lock.Apply for the intent to expire.
MayExpire(e) == lock[e].status \in {"locked", "releasable"}

\* ExpireLock loads the lock again; one that is disputed or settled by then
\* is passed over.
ExpireRead(e) ==
  /\ Takes(e, "expire")
  /\ Unshared(e, RewardWorker)
  /\ job' = [job EXCEPT ![RewardWorker] =
       IF MayExpire(e) THEN [NoJob EXCEPT !.at = "expire", !.on = e] ELSE NoJob]
  /\ UNCHANGED <<now, account, entries, policy, lock, decision, dispute,
                 wallet, settled, setting>>

ExpireSave ==
  /\ job[RewardWorker].at = "expire"
  /\ LET e == job[RewardWorker].on
     IN /\ lock' = [lock EXCEPT ![e].status = "expired"]
        /\ ApplyEntries({Entry("expire", e, lock[e].amount)})
  /\ job' = [job EXCEPT ![RewardWorker] = NoJob]
  /\ UNCHANGED <<now, policy, decision, dispute, wallet, settled, round,
                 setting>>

-----------------------------------------------------------------------------
(* Disputes *)

\* Lock.Apply for the intent to dispute.
MayDispute(e) == lock[e].status \in {"locked", "releasable"}

\* OpenDispute loads the lock within the challenge period, its last instant
\* included.  A lock that has a dispute keeps it.
DisputeRead(q, e) ==
  /\ setting.disputes
  /\ job[q] = NoJob
  /\ dispute[e].status = "none"
  /\ decision[e] # None
  /\ now <= decision[e].deadline
  /\ MayDispute(e)
  /\ Unshared(e, q)
  /\ job' = [job EXCEPT ![q] = [NoJob EXCEPT !.at = "dispute", !.on = e]]
  /\ UNCHANGED <<now, account, entries, policy, lock, decision, dispute,
                 wallet, settled, round, setting>>

DisputeSave(q) ==
  /\ job[q].at = "dispute"
  /\ LET e == job[q].on
     IN /\ dispute[e].status = "none"
        /\ lock' = [lock EXCEPT ![e].status = "disputed"]
        /\ dispute' = [dispute EXCEPT ![e].status = "open"]
  /\ job' = [job EXCEPT ![q] = NoJob]
  /\ UNCHANGED <<now, account, entries, policy, decision, wallet, settled,
                 round, setting>>

\* Dispute.Resolve: the agent gets all, some or nothing of the net amount.
Resolutions(net) == [intent : {"release"}, amount : 1 .. net]
                      \cup [intent : {"refund"}, amount : {0}]

\* ResolveDispute: the ruling is committed, then the lock is settled with it.
\* The same request again returns the ruling and settles nothing.
ResolveDispute(q, e, r) ==
  /\ job[q] = NoJob
  /\ dispute[e].status = "open"
  /\ r \in Resolutions(decision[e].net)
  /\ dispute' = [dispute EXCEPT ![e] =
       [status |-> "resolved", intent |-> r.intent, amount |-> r.amount]]
  /\ job' = [job EXCEPT ![q] =
       [NoJob EXCEPT !.at = "load", !.on = e, !.intent = r.intent, !.amount = r.amount]]
  /\ UNCHANGED <<now, account, entries, policy, lock, decision, wallet,
                 settled, round, setting>>

-----------------------------------------------------------------------------
(* Settlement: Service.Release and Service.Refund *)

\* What the agent gets, the ruling before the decision, what leaves the
\* escrow, and what goes back to the sponsor.
AgentAmount(j) == IF j.amount = None THEN decision[j.on].agent ELSE j.amount

\* Fault: the shares and the fee stay in the escrow.
PaidOutToAgent(j) == IF j.intent = "refund" THEN 0 ELSE AgentAmount(j)

PaidOut(j) ==
  IF j.intent = "refund" THEN 0 ELSE AgentAmount(j) + decision[j.on].shares

\* loadSettlement: a settled lock needs nothing, and a ruling that gives more
\* than the lock holds is a conflict.
SettleLoad(q) ==
  LET j == job[q]
      e == j.on
      out == PaidOut(j)
  IN /\ j.at = "load"
     /\ job' = [job EXCEPT ![q] =
          IF lock[e].status \in Terminal \/ out > lock[e].amount THEN NoJob
          ELSE [j EXCEPT !.at = "pay", !.amount = AgentAmount(j), !.out = out,
                         !.back = lock[e].amount - out]]
     /\ UNCHANGED <<now, account, entries, policy, lock, decision, dispute,
                    wallet, settled, round, setting>>

\* What the provider is asked to settle.
Order(j) == [intent |-> j.intent,
             amount |-> IF j.intent = "refund" THEN lock[j.on].amount ELSE j.amount]

\* The provider settles a decision once; the same order again is answered
\* alike, another one is a conflict.
Accepts(e, o) == settled[e] \in {None, o}

SettlePay(q) ==
  LET e == job[q].on
      o == Order(job[q])
  IN /\ job[q].at = "pay"
     /\ \/ /\ Accepts(e, o)
           /\ settled' = [settled EXCEPT ![e] = o]
           /\ job' = [job EXCEPT ![q].at = "record"]
        \/ /\ ~Accepts(e, o)
           /\ job' = [job EXCEPT ![q] = NoJob]
           /\ UNCHANGED settled
     /\ UNCHANGED <<now, account, entries, policy, lock, decision, dispute,
                    wallet, round, setting>>

\* Lock.Apply for the two intents of a settlement.
MayApply(e, intent) ==
  lock[e].status \in {"releasable", "disputed"}
                       \cup (IF intent = "refund" THEN {"locked"} ELSE {})

\* recordSettlement loads the lock again; one that is settled by now only
\* gets its receipt.
SettleRead(q) ==
  LET e == job[q].on
  IN /\ job[q].at = "record"
     /\ Unshared(e, q)
     /\ job' = [job EXCEPT ![q] =
          IF MayApply(e, job[q].intent) THEN [@ EXCEPT !.at = "save"] ELSE NoJob]
     /\ UNCHANGED <<now, account, entries, policy, lock, decision, dispute,
                    wallet, settled, round, setting>>

SettlementEntries(j) ==
  {x \in {Entry("release", j.on, j.out), Entry("refund", j.on, j.back)} : x.amount > 0}

SettleSave(q) ==
  LET j == job[q]
  IN /\ j.at = "save"
     /\ lock' = [lock EXCEPT ![j.on].status =
          IF j.intent = "release" THEN "released" ELSE "refunded"]
     /\ ApplyEntries(SettlementEntries(j))
     /\ job' = [job EXCEPT ![q] = NoJob]
     /\ UNCHANGED <<now, policy, decision, dispute, wallet, settled, round,
                    setting>>

-----------------------------------------------------------------------------
(* The rest of the world *)

\* NewChallenge: a nonce to be used once and in time, by whom it was given to.
ChallengePayoutDestination ==
  /\ wallet = "unbound" /\ wallet' = "challenged"
  /\ UNCHANGED <<now, account, entries, policy, lock, decision, dispute,
                 settled, job, round, setting>>

\* VerifyPayoutDestination consumes the nonce.  A later destination takes the
\* place of this one: there is a verified one still.
VerifyPayoutDestination ==
  /\ wallet = "challenged" /\ wallet' = "verified"
  /\ UNCHANGED <<now, account, entries, policy, lock, decision, dispute,
                 settled, job, round, setting>>

\* The nonce expires unused: ConsumeChallenge finds none.
ChallengeLapses ==
  /\ wallet = "challenged" /\ wallet' = "unbound"
  /\ UNCHANGED <<now, account, entries, policy, lock, decision, dispute,
                 settled, job, round, setting>>

\* The transaction of a handler fails or is rolled back, the provider fails
\* or reports failure, or the answer is lost.
Fails(q) ==
  /\ job[q] # NoJob
  /\ setting.faults > 0
  /\ setting' = [setting EXCEPT !.faults = @ - 1]
  /\ job' = [job EXCEPT ![q] = NoJob]
  /\ UNCHANGED <<now, account, entries, policy, lock, decision, dispute,
                 wallet, settled, round>>

\* A write that the database refuses for the balance, for the second dispute
\* of a lock or for the second policy of a task is rolled back.
Refused(q) ==
  /\ \/ job[q].at = "dispute" /\ dispute[job[q].on].status # "none"
     \/ job[q].at = "fund" /\ ~NoOtherPolicy(job[q].on, policy[job[q].on].task)
     \/ job[q].at = "save" /\ ~Covered(SettlementEntries(job[q]))
     \/ job[q].at = "expire" /\
          ~Covered({Entry("expire", job[q].on, lock[job[q].on].amount)})
  /\ job' = [job EXCEPT ![q] = NoJob]
  /\ UNCHANGED <<now, account, entries, policy, lock, decision, dispute,
                 wallet, settled, round, setting>>

RewardTick ==
  /\ now < Horizon
  /\ now' = now + 1
  /\ UNCHANGED <<account, entries, policy, lock, decision, dispute, wallet,
                 settled, job, round, setting>>

-----------------------------------------------------------------------------

\* What a handler does next on its own.
Continue(q) ==
  \/ PolicySave(q) \/ DisputeSave(q) \/ Refused(q)
  \/ SettleLoad(q) \/ SettlePay(q) \/ SettleRead(q) \/ SettleSave(q)

WorkerStep ==
  \/ NextPhase \/ ExpireSave \/ Continue(RewardWorker)
  \/ \E e \in Executions :
       \/ \E v \in Evidence : Decide(e, v)
       \/ Deferred(e) \/ Release(e) \/ ExpireRead(e)

Request(q) ==
  \/ \E p \in Policies : \/ CancelRead(q, p)
                         \/ \E n \in Fundings : FundRead(q, p, n)
  \/ \E e \in Executions :
       \/ DisputeRead(q, e)
       \/ /\ dispute[e].status = "open"
          /\ \E r \in Resolutions(decision[e].net) : ResolveDispute(q, e, r)

RewardNext ==
  \/ \E r \in TopUps : TopUpEscrow(r)
  \/ \E p \in Policies, t \in Tasks, c \in Terms : CreateRewardPolicy(p, t, c)
  \/ \E e \in Executions, p \in Policies : OnClaim(e, p)
  \/ \E q \in setting.requests : Request(q)
  \/ \E q \in Requests : Continue(q)
  \/ WorkerStep
  \/ \E q \in Procs : Fails(q)
  \/ ChallengePayoutDestination \/ VerifyPayoutDestination \/ ChallengeLapses
  \/ RewardTick

RewardSpec == RewardInit /\ [][RewardNext]_rewardVars

\* Time passes, the worker's rounds follow one another (cmd/agentguild-api/
\* main.go repeat), and a handler that has begun comes to an end.  Nothing is
\* assumed of sponsors, agents and administrators.
FairRewardSpec ==
  /\ RewardSpec
  /\ WF_rewardVars(RewardTick)
  /\ WF_rewardVars(WorkerStep)
  /\ \A q \in Requests : WF_rewardVars(Continue(q))

-----------------------------------------------------------------------------
(* Properties *)

Posted(prefix) ==
  SumFunctionOnSet([x \in entries |-> x.amount], {x \in entries : x.key[1] = prefix})

\* The account and the locks tell the same story: what the account calls
\* locked is what the locks that still hold money add up to, and the rest of
\* what was topped up is available or has been paid out.  Two transactions
\* that load one lock at a time may break this, so it is stated without them.
LedgerMatchesLocks ==
  ~setting.races =>
    /\ account.locked =
         SumFunctionOnSet([e \in Executions |-> lock[e].amount],
                          {e \in Executions : lock[e].status \in Holding})
    /\ account.available + account.locked + Posted("release") = Posted("topup")

\* However often a task is claimed again, the locks that hold money under one
\* policy never hold more than it was funded with.  Two transactions at one
\* policy may lower what it was funded with when a lock holds it already.
PolicyNotOvercommitted ==
  ~setting.races => \A p \in Policies : LockedAmount(p) <= policy[p].funded

\* Money goes to the agent when the challenge period of the decision is over,
\* or because an administrator ruled so, and then in the amount decided or
\* ruled; it goes back by a ruling only.  Races and failures change nothing
\* about that.
PaymentIsDue ==
  [][\A e \in Executions : settled'[e] # settled[e] =>
       \/ /\ dispute[e].status = "resolved"
          /\ settled'[e].intent = dispute[e].intent
          /\ dispute[e].intent = "release" => settled'[e].amount = dispute[e].amount
       \/ /\ settled'[e].intent = "release"
          /\ decision[e].deadline <= now
          /\ settled'[e].amount = decision[e].agent]_rewardVars

\* A lock is released or refunded only with a payment or a refund that the
\* provider has settled, and the ledger shows what left the escrow for it:
\* the agent's amount with the shares and the fee.
ProviderAgrees ==
  \A e \in Executions :
    /\ lock[e].status = "released" =>
         /\ settled[e] # None /\ settled[e].intent = "release"
         /\ \A x \in entries : x.key = <<"release", e>> =>
              x.amount = settled[e].amount + decision[e].shares
    /\ lock[e].status = "refunded" => settled[e] # None /\ settled[e].intent = "refund"

\* A lock that is released, refunded or expired stays so.  An OpenDispute, an
\* expiry or a settlement that loaded the lock before would write over it, so
\* this too is stated without two transactions at one lock.
SettledStays ==
  [][~setting.races =>
       \A e \in Executions : lock[e].status \in Terminal => lock'[e] = lock[e]]_rewardVars

\* The escrow account, the policies, the locks and what the provider has
\* settled are four records of the same money.
BooksBalance == LedgerMatchesLocks /\ PolicyNotOvercommitted /\ ProviderAgrees

\* Money moves when it is due, and then it has moved.
MoneyMovesWhenDue == PaymentIsDue /\ SettledStays

\* No sponsor's money is held for ever: a lock that nobody disputes ends.
\* (After a race the account may no longer cover the refund of the last lock.)
LockEnds ==
  \A e \in Executions :
    ~setting.races /\ lock[e].status \in {"locked", "releasable"} ~>
      lock[e].status \in Terminal \cup {"disputed"}

=============================================================================
