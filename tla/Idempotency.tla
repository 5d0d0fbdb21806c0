----------------------------- MODULE Idempotency -----------------------------
(***************************************************************************)
(* The record of one idempotency key (tenant, actor, operation, request id) *)
(* and the requests that carry the key: internal/postgres/idempotency.go   *)
(* and store.go, used in three ways.                                       *)
(*   "rest"     the middleware of transport/rest acquires the record in a  *)
(*              transaction of its own, runs the handler while a heartbeat *)
(*              renews the record, and completes it with the response.     *)
(*   "mcp"      transport/mcp does the same without a heartbeat.           *)
(*   "command"  the commands of internal/application acquire, act and      *)
(*              complete in one transaction, which WithTx refuses to commit *)
(*              while an acquired record is incomplete.                    *)
(* A request that is retried is another member of Requests.  Its random    *)
(* owner token is modelled by the request itself.                          *)
(***************************************************************************)
EXTENDS Integers

CONSTANTS
  Requests,      \* the requests that carry the key
  Hash,          \* the request hash of each: the same for a retry
  Modes,         \* the ways of using the record that are considered
  TTL,           \* mutationIdempotencyTTL, idempotencyTTL
  PendingLease,  \* idempotencyPendingLease
  BeatGap,       \* the longest time between two renewals of a live handler,
                 \* and until its completion: heartbeat interval and timeouts
  MaxStall,      \* how old a reading of the clock may be when it is used
  MaxClock, MaxEpoch,  \* bounds of the instance
  None

ASSUME IdempotencyAssumption ==
  /\ None \notin Requests
  /\ Hash \in [Requests -> Nat]
  /\ Modes \subseteq {"rest", "mcp", "command"}
  /\ TTL \in Nat \ {0} /\ PendingLease \in Nat \ {0}
  /\ BeatGap \in Nat /\ MaxStall \in Nat
  /\ BeatGap + MaxStall < PendingLease
  /\ MaxClock \in Nat /\ MaxEpoch \in Nat

VARIABLES
  rec,    \* the row of idempotency_records
  req,    \* what each request is doing
  clock,  \* the database clock
  mode    \* how the operation of the key uses the record

vars == <<rec, req, clock, mode>>

\* epoch counts the lives of the row: an expired row is reused from scratch.
NoRecord == [owner |-> None, hash |-> 0, resp |-> None, expires |-> 0,
             updated |-> 0, epoch |-> 0]

Record == [owner : Requests \cup {None}, hash : Nat,
           resp : Requests \cup {None}, expires : Nat,
           updated : Nat, epoch : Nat]

\* new, then running (the handler), returned (its response is buffered), and
\* the answer the client gets: served, refused (in progress), mismatch, failed
\* (an internal error), or none at all (dead).
Phase == {"new", "running", "returned", "served", "refused", "mismatch",
          "failed", "dead"}

\* did: the handler has had its effect; code: what it answered; lost: its
\* heartbeat failed and its context is cancelled; got: the response served.
NewRequest == [phase |-> "new", epoch |-> 0, did |-> FALSE, code |-> "none",
               lost |-> FALSE, beat |-> 0, got |-> None]

Request == [phase : Phase, epoch : Nat, did : BOOLEAN,
            code : {"none", "done", "rejected", "error"}, lost : BOOLEAN,
            beat : Nat, got : Requests \cup {None}]

-----------------------------------------------------------------------------
\* Tx.Now, read before the statement that waits for the row.
TxNow == {n \in 0 .. clock : clock - n <= MaxStall}

Completed == rec.resp # None

\* The cases of AcquireIdempotency, in its order.
Expired(n) == rec.owner = None \/ rec.expires <= n

\* Fault: the request hash is not compared.
AnyRequest(r, n) == FALSE

Mismatch(r, n) == ~Expired(n) /\ rec.hash # Hash[r]

Replay(r, n) == ~Expired(n) /\ ~Mismatch(r, n) /\ Completed

\* Fault: a pending record can be taken over at any time.
LapsedAlways(n) == TRUE

Lapsed(n) == rec.updated <= n - PendingLease

Takeover(r, n) == ~Expired(n) /\ ~Mismatch(r, n) /\ ~Completed /\ Lapsed(n)

InProgress(r, n) == ~Expired(n) /\ ~Mismatch(r, n) /\ ~Completed /\ ~Lapsed(n)

\* The row as the transaction that acquires it leaves it.
Acquired(r, n) ==
  IF Expired(n)
    THEN [owner |-> r, hash |-> Hash[r], resp |-> None, expires |-> n + TTL,
          updated |-> n, epoch |-> rec.epoch + 1]
    ELSE [rec EXCEPT !.owner = r, !.updated = n]

\* Fault: whoever has acquired the record once may complete it.
PendingForAnyone(r) == TRUE

\* WHERE owner_token = ... AND response_code IS NULL
PendingFor(r) == rec.owner = r /\ ~Completed

CompletedBy(r, n) == [rec EXCEPT !.resp = r, !.updated = n]

-----------------------------------------------------------------------------
(* The middleware of transport/rest and transport/mcp.                     *)

\* AcquireMutationIdempotency grants the record.
Acquire(r, n) ==
  /\ Expired(n) \/ Takeover(r, n)
  /\ Expired(n) => rec.epoch < MaxEpoch
  /\ rec' = Acquired(r, n)
  /\ req' = [req EXCEPT ![r] = [@ EXCEPT !.phase = "running", !.beat = clock,
                                         !.epoch = Acquired(r, n).epoch]]

\* It answers without running the handler.
Answer(r, n) ==
  /\ \/ /\ Mismatch(r, n)
        /\ req' = [req EXCEPT ![r].phase = "mismatch"]
     \/ /\ Replay(r, n)
        /\ req' = [req EXCEPT ![r] = [@ EXCEPT !.phase = "served",
                                               !.epoch = rec.epoch,
                                               !.got = rec.resp]]
     \/ /\ InProgress(r, n)
        /\ req' = [req EXCEPT ![r].phase = "refused"]
  /\ UNCHANGED rec

Arrive(r) ==
  /\ mode # "command"
  /\ req[r].phase = "new"
  /\ \E n \in TxNow : Acquire(r, n) \/ Answer(r, n)
  /\ UNCHANGED clock

\* The handler has its effect, even if its context is cancelled by now.
HandlerActs(r) ==
  /\ req[r].phase = "running" /\ ~req[r].did
  /\ req' = [req EXCEPT ![r].did = TRUE]
  /\ UNCHANGED <<rec, clock>>

\* It answers: done, rejected (4xx, nothing done), or an error (5xx) that may
\* hide an effect.
HandlerReturns(r) ==
  /\ req[r].phase = "running"
  /\ \E c \in {"error", IF req[r].did THEN "done" ELSE "rejected"} :
       req' = [req EXCEPT ![r] = [@ EXCEPT !.phase = "returned", !.code = c]]
  /\ UNCHANGED <<rec, clock>>

\* RenewIdempotency by the heartbeat of the middleware.
Renew(r) ==
  /\ mode = "rest" /\ req[r].phase = "running" /\ ~req[r].lost
  /\ PendingFor(r)
  /\ \E n \in TxNow : rec' = [rec EXCEPT !.updated = n]
  /\ req' = [req EXCEPT ![r].beat = clock]
  /\ UNCHANGED clock

\* The record is somebody else's, or the statement failed or timed out.
RenewFails(r) ==
  /\ mode = "rest" /\ req[r].phase = "running" /\ ~req[r].lost
  /\ req' = [req EXCEPT ![r].lost = TRUE]
  /\ UNCHANGED <<rec, clock>>

\* CompleteIdempotency succeeds and the client gets the handler's response.
CompleteMutation(r) ==
  /\ req[r].phase = "returned" /\ req[r].code # "error" /\ ~req[r].lost
  /\ PendingFor(r)
  /\ \E n \in TxNow : rec' = CompletedBy(r, n)
  /\ \/ req' = [req EXCEPT ![r] = [@ EXCEPT !.phase = "served", !.got = r]]
     \/ req' = [req EXCEPT ![r].phase = "failed"]  \* the reply was lost
  /\ UNCHANGED clock

\* The client gets an error and the record stays as it is.
Fail(r) ==
  /\ req[r].phase = "returned"
  /\ req' = [req EXCEPT ![r].phase = "failed"]
  /\ UNCHANGED <<rec, clock>>

\* The process serving the request dies.
Crash(r) ==
  /\ req[r].phase \in {"running", "returned"}
  /\ req' = [req EXCEPT ![r].phase = "dead"]
  /\ UNCHANGED <<rec, clock>>

-----------------------------------------------------------------------------
(* A command of internal/application.                                      *)

CommandRecord(r, n) == [Acquired(r, n) EXCEPT !.resp = r]

\* Acquire, act and complete in one transaction; a failure of any part rolls
\* all of it back and changes nothing.
Execute(r, n) ==
  /\ Expired(n) \/ Takeover(r, n)
  /\ Expired(n) => rec.epoch < MaxEpoch
  /\ rec' = CommandRecord(r, n)
  /\ req' = [req EXCEPT ![r] = [@ EXCEPT !.phase = "served", !.did = TRUE,
                                         !.code = "done", !.got = r,
                                         !.epoch = Acquired(r, n).epoch]]

Command(r) ==
  /\ mode = "command"
  /\ req[r].phase = "new"
  /\ \E n \in TxNow : Execute(r, n) \/ Answer(r, n)
  /\ UNCHANGED clock

-----------------------------------------------------------------------------
\* A handler in good standing, between its acquisition and its completion.
Live(r) == req[r].phase \in {"running", "returned"} /\ ~req[r].lost

\* The heartbeat of a live handler is on time (BeatGap); nothing is assumed
\* of a handler without one.
Tick ==
  /\ clock < MaxClock
  /\ mode = "rest" => \A r \in Requests : Live(r) => clock + 1 - req[r].beat <= BeatGap
  /\ clock' = clock + 1
  /\ UNCHANGED <<rec, req>>

Init == /\ rec = NoRecord
        /\ req = [r \in Requests |-> NewRequest]
        /\ clock = 0
        /\ mode \in Modes

Handle(r) == \/ HandlerActs(r) \/ HandlerReturns(r) \/ Renew(r) \/ RenewFails(r)
             \/ CompleteMutation(r) \/ Fail(r) \/ Crash(r)

Next == /\ \/ \E r \in Requests : Arrive(r) \/ Handle(r) \/ Command(r)
           \/ Tick
        /\ UNCHANGED mode

Spec == Init /\ [][Next]_vars

-----------------------------------------------------------------------------
(* Properties.                                                             *)

\* Type correctness of the row and the requests.
TypeOK == /\ rec \in Record
          /\ req \in [Requests -> Request]
          /\ clock \in Nat

\* Everyone who is served in one life of the record gets the same response:
\* the owner from its handler, the others from the row.  An owner that lost
\* the record while it worked cannot answer with what it has done
\* (postgres/idempotency.go CompleteIdempotency, transport/rest
\* mutationIdempotency).
OneResponse ==
  \A r, s \in Requests :
    req[r].phase = "served" /\ req[s].phase = "served"
      /\ req[r].epoch = req[s].epoch => req[r].got = req[s].got

\* Nobody is answered with the response to a different request under the same
\* key (AcquireIdempotency compares the hash before it replays).
OwnResponse ==
  \A r \in Requests : req[r].phase = "served" => Hash[req[r].got] = Hash[r]

\* With timely heartbeats two handlers in good standing never work on the same
\* request at once: the second gets the record only when the first has
\* failed, been cancelled or finished (transport/rest startMutationHeartbeat
\* against the takeover in AcquireIdempotency).
OneLiveHandler ==
  \A r, s \in Requests :
    r # s /\ Live(r) /\ Live(s) => req[r].epoch # req[s].epoch

\* The effect of a request is repeated only if an earlier handler did not get
\* through: it crashed, failed or lost its record.
RepeatOnlyAfterFailure ==
  \A r, s \in Requests :
    r # s /\ req[r].did /\ req[s].did /\ req[r].epoch = req[s].epoch =>
      \E x \in {r, s} : req[x].lost \/ req[x].phase \in {"failed", "dead"}
                          \/ req[x].code = "error"

\* A command of internal/application takes effect at most once in the life of
\* the record, because its effect and the completion commit together.
CommandOnce ==
  mode = "command" =>
    \A r, s \in Requests :
      req[r].did /\ req[s].did /\ req[r].epoch = req[s].epoch => r = s

\* However slow, dead or late the handlers of one request are: one works at a
\* time, and what it did is done again only if it did not get through - as a
\* command, never.
EffectsDoNotRepeat == OneLiveHandler /\ RepeatOnlyAfterFailure /\ CommandOnce

-----------------------------------------------------------------------------
(* The strengthening under which the answers are provably consistent.      *)

\* The row belongs to a request of its present life and of its hash, and so
\* does its response.
RecordFits ==
  /\ rec.owner # None => /\ req[rec.owner].epoch = rec.epoch
                         /\ req[rec.owner].phase # "new"
                         /\ Hash[rec.owner] = rec.hash
  /\ rec.owner = None => rec = NoRecord
  /\ rec.resp # None => Hash[rec.resp] = rec.hash

\* What was served in the present life of the row is what the row holds.
ServedFits ==
  \A r \in Requests :
    /\ req[r].epoch <= rec.epoch
    /\ req[r].phase = "served" =>
         /\ req[r].got # None
         /\ req[r].epoch = rec.epoch => rec.resp = req[r].got

\* The inductive invariant.
IInv == TypeOK /\ RecordFits /\ ServedFits /\ OneResponse /\ OwnResponse

\* A request whose handler has been started.
Started(r) == req[r].did \/ req[r].phase \in {"running", "returned"}

\* A handler that has not got through, or that knows it will not.
GaveUp(r) == req[r].lost \/ req[r].phase \in {"failed", "dead"}
               \/ req[r].code = "error"

\* Only a handler that was started has an effect, and it answers once.
HandlerFits ==
  \A r \in Requests :
    /\ req[r].did => req[r].phase \in {"running", "returned", "served", "failed", "dead"}
    /\ req[r].phase \in {"new", "running"} => req[r].code = "none"

\* A live handler of the present life of the row owns the row and has renewed
\* it too recently for anyone to take it over.
LiveFits ==
  \A r \in Requests : Live(r) =>
    /\ clock <= req[r].beat + BeatGap
    /\ req[r].epoch = rec.epoch =>
         rec.owner = r /\ ~Completed /\ req[r].beat <= rec.updated + MaxStall

\* Of two handlers started in one life of the row, one did not get through.
StartedFits ==
  \A r, s \in Requests :
    r # s /\ Started(r) /\ Started(s) /\ req[r].epoch = req[s].epoch =>
      GaveUp(r) \/ GaveUp(s)

\* A command has had its effect only with its own response in the row.
CommandFits ==
  \A r \in Requests :
    /\ req[r].phase \notin {"running", "returned"}
    /\ req[r].did => req[r].phase = "served" /\ req[r].got = r

\* The inductive invariant behind EffectsDoNotRepeat.
EffectsIInv ==
  /\ IInv
  /\ mode \in {"rest", "mcp", "command"}
  /\ mode = "rest" => HandlerFits /\ LiveFits /\ OneLiveHandler /\ StartedFits
  /\ mode = "command" => CommandFits

=============================================================================
