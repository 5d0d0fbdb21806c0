------------------------------- MODULE Outbox -------------------------------
(***************************************************************************)
(* The outbox worker, internal/worker/outbox.go: several workers take       *)
(* batches of outbox events under a lease (claimed_until), observe the cost *)
(* of the executions the events are about, and publish or postpone each     *)
(* event.  The lease is also the fencing token: every later write repeats   *)
(* the claimed_until that the claim has set.                                *)
(* Events are numbered in the order of (available_at, created_at).  The     *)
(* rows a statement locks are locked within one step only, so SKIP LOCKED   *)
(* never finds one.                                                        *)
(***************************************************************************)
EXTENDS Integers, FiniteSets

CONSTANTS
  NEvents,      \* the number of events
  Kind,         \* of each event: "execution", or "plain" for all others
  ExecOf,       \* the execution an event is about
  Execs,
  Workers,
  Disabled,     \* whether the cost provider is switched off
  Limit,        \* batch size
  ClaimBase, BackoffBase, Cap,   \* the delays, in ticks
  OutboxStall,  \* how old a worker's reading of the clock may be
  OutboxClock, MaxAttempts       \* bounds of the instance

Events == 1 .. NEvents

ASSUME OutboxAssumption ==
  /\ NEvents \in Nat
  /\ Kind \in [Events -> {"plain", "execution"}]
  /\ ExecOf \in [Events -> Execs]
  /\ Disabled \in BOOLEAN
  /\ Limit \in Nat \ {0}
  /\ ClaimBase \in Nat \ {0} /\ BackoffBase \in Nat \ {0}
  /\ Cap \in Nat /\ Cap >= ClaimBase /\ Cap >= BackoffBase
  /\ OutboxStall \in Nat /\ OutboxClock \in Nat /\ MaxAttempts \in Nat

VARIABLES
  ev,     \* the rows of outbox_events
  usage,  \* coverage rank of the execution_usage row of each execution
  wk,     \* what each worker holds: its batch, and where it is with its head
  time    \* the clock of the database

outboxVars == <<ev, usage, wk, time>>

\* Coverage ranks: no row, unavailable, partial, complete.
NoRow == 0
Unavailable == 1
Partial == 2
Complete == 3

NoEvent == [there |-> FALSE, until |-> 0, attempts |-> 0, published |-> FALSE]

EventRow == [there : BOOLEAN, until : Nat, attempts : Nat, published : BOOLEAN]

\* A claimed event as the worker remembers it.
Claim == [id : Events, until : Nat, attempts : Nat]

Idle == [batch |-> {}, step |-> "handle", seen |-> NoRow]

Worker == [batch : SUBSET Claim, step : {"handle", "store", "fail"}, seen : 0 .. 3]

-----------------------------------------------------------------------------
(* The delays.                                                             *)

\* cappedExponential: doubles as long as that stays below the cap.
Doubled(d) == IF 2 * d >= Cap THEN Cap ELSE 2 * d

cappedExponential(base, exponent) ==
  LET d[k \in 0 .. exponent] == IF k = 0 THEN base ELSE Doubled(d[k - 1])
  IN d[exponent]

claimDuration(attempts) == cappedExponential(ClaimBase, attempts)

backoff(attempts) == cappedExponential(BackoffBase, attempts)

OutboxNow == {n \in 0 .. time : time - n <= OutboxStall}

-----------------------------------------------------------------------------
(* Claiming a batch.                                                       *)

\* A domain transaction appends an event.
Emit(e) ==
  /\ ~ev[e].there
  /\ \A f \in Events : f < e => ev[f].there
  /\ ev' = [ev EXCEPT ![e].there = TRUE]
  /\ UNCHANGED <<usage, wk, time>>

Due(n) == {e \in Events : ev[e].there /\ ~ev[e].published /\ ev[e].until <= n}

\* ORDER BY available_at, created_at LIMIT ...
FirstOf(S) == {e \in S : Cardinality({f \in S : f < e}) < Limit}

claimBatch(w, n) ==
  LET S == FirstOf(Due(n))
      Until(e) == n + claimDuration(ev[e].attempts)
  IN
  /\ wk[w].batch = {}
  /\ S # {}
  /\ ev' = [e \in Events |-> IF e \in S THEN [ev[e] EXCEPT !.until = Until(e)]
                                        ELSE ev[e]]
  /\ wk' = [wk EXCEPT ![w].batch =
              {[id |-> e, until |-> Until(e), attempts |-> ev[e].attempts] : e \in S}]
  /\ UNCHANGED <<usage, time>>

-----------------------------------------------------------------------------
(* Handling the events of a batch, one after the other.                    *)

\* Fault: the claim is not compared.
OwnsAnyway(c) == TRUE

\* WHERE published_at IS NULL AND claimed_until = the claim
Owns(c) == ~ev[c.id].published /\ ev[c.id].until = c.until

\* The batch is worked off in the order of its events.
Current(w) == CHOOSE c \in wk[w].batch : \A d \in wk[w].batch : c.id <= d.id

\* The next event of the batch.
Done(w) == wk' = [wk EXCEPT ![w] = [Idle EXCEPT !.batch = wk[w].batch \ {Current(w)}]]

\* errLeaseLost, a database error in markFailure, or a crash: the rest of the
\* batch is given up and stays claimed until its lease is over.
GiveUp(w) == wk' = [wk EXCEPT ![w] = Idle]

\* On to markFailure; what was seen does not matter there.
Postpone(w) == wk' = [wk EXCEPT ![w] = [@ EXCEPT !.step = "fail", !.seen = NoRow]]

At(w, step) == wk[w].batch # {} /\ wk[w].step = step

\* An event that is not about an execution.
markPublished(w) ==
  LET c == Current(w) IN
  /\ At(w, "handle")
  /\ Kind[c.id] = "plain"
  /\ IF Owns(c)
       THEN /\ ev' = [ev EXCEPT ![c.id] = [@ EXCEPT !.published = TRUE, !.until = 0]]
            /\ Done(w)
       ELSE GiveUp(w) /\ UNCHANGED ev
  /\ UNCHANGED <<usage, time>>

\* The call of the cost provider, outside any transaction.
Observe(w) ==
  LET c == Current(w) IN
  /\ At(w, "handle")
  /\ Kind[c.id] = "execution"
  /\ \E o \in IF Disabled THEN {Unavailable} ELSE {Unavailable, Partial, Complete} :
       wk' = [wk EXCEPT ![w] = [@ EXCEPT !.step = "store", !.seen = o]]
  /\ UNCHANGED <<ev, usage, time>>

\* The handler fails before it writes anything: an unusable payload, or an
\* error of the database, for a plain event when it is to be published.
HandleFails(w) ==
  /\ At(w, "handle") \/ At(w, "store")
  /\ Postpone(w)
  /\ UNCHANGED <<ev, usage, time>>

\* Fault: the conflict clause of the upsert does not compare coverage.
LastSeen(old, seen) == seen

\* INSERT INTO execution_usage ... ON CONFLICT ... WHERE rank >= rank
Upsert(old, seen) == IF seen >= old THEN seen ELSE old

\* Fault: whatever was observed settles the event.
AlwaysSettled(seen) == TRUE

Settled(seen) == seen = Complete \/ Disabled

\* One transaction: ownership, upsert, and publication if nothing is left to
\* observe.  An unsettled event goes on to markFailure.
Store(w) ==
  LET c == Current(w)
      x == ExecOf[c.id]
  IN
  /\ At(w, "store")
  /\ IF Owns(c)
       THEN /\ usage' = [usage EXCEPT ![x] = Upsert(@, wk[w].seen)]
            /\ IF Settled(wk[w].seen)
                 THEN /\ ev' = [ev EXCEPT ![c.id] =
                                  [@ EXCEPT !.published = TRUE, !.until = 0]]
                      /\ Done(w)
                 ELSE Postpone(w) /\ UNCHANGED ev
       ELSE GiveUp(w) /\ UNCHANGED <<ev, usage>>
  /\ UNCHANGED time

Postponed(row, until) ==
  [row EXCEPT !.attempts = @ + 1, !.published = FALSE, !.until = until]

\* The event is postponed; the clock is read again, after the claim.
markFailure(w) ==
  LET c == Current(w) IN
  /\ At(w, "fail")
  /\ IF Owns(c)
       THEN /\ c.attempts < MaxAttempts
            /\ \E n \in OutboxNow :
               /\ n >= c.until - claimDuration(c.attempts)
               /\ ev' = [ev EXCEPT ![c.id] = Postponed(@, n + backoff(c.attempts + 1))]
            /\ Done(w)
       ELSE GiveUp(w) /\ UNCHANGED ev
  /\ UNCHANGED <<usage, time>>

WorkerDies(w) ==
  /\ wk[w].batch # {}
  /\ GiveUp(w)
  /\ UNCHANGED <<ev, usage, time>>

OutboxTick ==
  /\ time < OutboxClock
  /\ time' = time + 1
  /\ UNCHANGED <<ev, usage, wk>>

OutboxInit ==
  /\ ev = [e \in Events |-> NoEvent]
  /\ usage = [x \in Execs |-> NoRow]
  /\ wk = [w \in Workers |-> Idle]
  /\ time = 0

Work(w) ==
  \/ \E n \in OutboxNow : claimBatch(w, n)
  \/ markPublished(w) \/ Observe(w) \/ HandleFails(w) \/ Store(w)
  \/ markFailure(w) \/ WorkerDies(w)

OutboxNext == (\E e \in Events : Emit(e)) \/ (\E w \in Workers : Work(w)) \/ OutboxTick

OutboxSpec == OutboxInit /\ [][OutboxNext]_outboxVars

-----------------------------------------------------------------------------
(* Properties.                                                             *)

\* Type correctness of the rows and the workers.
OutboxTypeOK ==
  /\ ev \in [Events -> EventRow]
  /\ usage \in [Execs -> 0 .. 3]
  /\ wk \in [Workers -> Worker]
  /\ time \in Nat

\* Whether a worker could still write about event e.
Holds(w, e) == \E c \in wk[w].batch : c.id = e /\ Owns(c)

\* At most one worker can write about an event: a lease that was taken over
\* is never honoured again, although it is nothing but a timestamp and the
\* new one is computed from a clock reading that may be old.
OneHolder ==
  \A w, v \in Workers, e \in Events : Holds(w, e) /\ Holds(v, e) => w = v

\* An event about an execution is published only when the whole cost of the
\* execution is on record (or nobody observes costs): no sequence of retries,
\* takeovers and late workers loses it.
PublishedIsSettled ==
  \A e \in Events :
    ev[e].published /\ Kind[e] = "execution" /\ ~Disabled
      => usage[ExecOf[e]] = Complete

\* A failing event comes back: however often it has failed, it is free again
\* within the longest delay.
RetryIsBounded ==
  \A e \in Events : ev[e].until <= time + Cap

\* Takeovers and retries lose no event: it has one holder at most, comes back
\* when that one fails, and is published only with its whole cost on record.
NoEventIsLost == OneHolder /\ RetryIsBounded /\ PublishedIsSettled

\* A late worker does not overwrite the cost with a poorer observation, and
\* does not put a published event back (markFailure clears published_at).
NothingRegresses ==
  [][/\ \A x \in Execs : usage'[x] >= usage[x]
     /\ \A e \in Events : ev[e].published => ev'[e].published]_outboxVars

=============================================================================
