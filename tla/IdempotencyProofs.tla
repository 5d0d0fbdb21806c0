-------------------------- MODULE IdempotencyProofs --------------------------
(***************************************************************************)
(* Everyone served under one idempotency key gets the same response, and   *)
(* only the response to its own request, for any number of requests, any   *)
(* lease and retention, and every use of the record.                       *)
(***************************************************************************)
EXTENDS Idempotency, TLAPS

\* Initially there is no row and every request is new.
LEMMA InitIInv == Init => IInv
  BY IdempotencyAssumption
  DEF Init, IInv, TypeOK, Record, Request, NoRecord, NewRequest, Phase,
      RecordFits, ServedFits, OneResponse, OwnResponse

\* A step that leaves the row and everything an answer depends on alone.
LEMMA KeepStep ==
  ASSUME IInv, TypeOK', UNCHANGED rec,
         \A r \in Requests :
           /\ req'[r].epoch = req[r].epoch /\ req'[r].got = req[r].got
           /\ req'[r].phase = "served" => req[r].phase = "served"
           /\ req'[r].phase = "new" => req[r].phase = "new"
  PROVE  IInv'
<1>1. rec.owner # None => rec.owner \in Requests
  BY DEF IInv, TypeOK, Record
<1>2. RecordFits'
  BY <1>1 DEF IInv, RecordFits
<1>3. ServedFits' /\ OneResponse' /\ OwnResponse'
  BY DEF IInv, ServedFits, OneResponse, OwnResponse
<1> QED
  BY <1>2, <1>3 DEF IInv

\* A request r is given the record, for a handler or for a whole command.
LEMMA GrantStep ==
  ASSUME IInv, TypeOK', NEW r \in Requests, NEW n \in Nat,
         Expired(n) \/ Takeover(r, n), req[r].phase = "new",
         rec'.owner = r, rec'.hash = Acquired(r, n).hash,
         rec'.epoch = Acquired(r, n).epoch,
         \A s \in Requests : s # r => req'[s] = req[s],
         req'[r].epoch = Acquired(r, n).epoch, req'[r].phase # "new",
         \/ rec'.resp = None /\ req'[r].phase # "served"
         \/ rec'.resp = r /\ req'[r].phase = "served" /\ req'[r].got = r
  PROVE  IInv'
<1> USE IdempotencyAssumption
<1>1. rec \in Record /\ rec.epoch \in Nat
  BY DEF IInv, TypeOK, Record
<1>2. /\ rec'.hash = Hash[r]
      /\ \/ rec'.epoch = rec.epoch + 1
         \/ rec'.epoch = rec.epoch /\ rec.resp = None
  <2>1. CASE Expired(n)
    BY <2>1, <1>1 DEF Acquired
  <2>2. CASE ~Expired(n)
    <3>1. Takeover(r, n) /\ Acquired(r, n) = [rec EXCEPT !.owner = r, !.updated = n]
      BY <2>2 DEF Acquired
    <3>2. Acquired(r, n).hash = rec.hash /\ Acquired(r, n).epoch = rec.epoch
      BY <1>1, <3>1 DEF Record
    <3> QED
      BY <3>1, <3>2 DEF Takeover, Mismatch, Completed
  <2> QED
    BY <2>1, <2>2
<1>3. RecordFits'
  BY <1>2 DEF RecordFits
<1>4. \A s \in Requests : req[s].epoch \in Nat /\ req[s].epoch <= rec.epoch
  BY DEF IInv, TypeOK, Request, ServedFits
<1>5. ASSUME NEW s \in Requests, req[s].phase = "served"
      PROVE  req[s].epoch < rec'.epoch
  <2>1. rec.resp = None => req[s].epoch # rec.epoch
    BY <1>5 DEF IInv, ServedFits
  <2> QED
    BY <1>1, <1>2, <1>4, <2>1
<1>6. ServedFits'
  BY <1>1, <1>2, <1>4, <1>5 DEF IInv, ServedFits
<1>7. OneResponse'
  BY <1>1, <1>2, <1>4, <1>5 DEF IInv, OneResponse
<1>8. OwnResponse'
  BY DEF IInv, OwnResponse
<1> QED
  BY <1>3, <1>6, <1>7, <1>8 DEF IInv

\* The row that a grant writes has its type.
LEMMA AcquiredType ==
  ASSUME TypeOK, NEW r \in Requests, NEW n \in Nat PROVE Acquired(r, n) \in Record
<1> USE IdempotencyAssumption
<1>1. CASE Expired(n)
  <2>1. rec.epoch + 1 \in Nat /\ n + TTL \in Nat /\ Hash[r] \in Nat
    BY DEF TypeOK, Record
  <2> QED
    BY <1>1, <2>1 DEF Acquired, Record
<1>2. CASE ~Expired(n)
  BY <1>2 DEF Acquired, TypeOK, Record
<1> QED
  BY <1>1, <1>2

\* A request gets the record and its handler starts.
LEMMA AcquireStep ==
  ASSUME IInv, NEW r \in Requests, NEW n \in Nat, req[r].phase = "new",
         Acquire(r, n), UNCHANGED clock
  PROVE  IInv'
<1> USE IdempotencyAssumption
<1> DEFINE a == Acquired(r, n)
           q == [req[r] EXCEPT !.phase = "running", !.beat = clock, !.epoch = a.epoch]
<1>1. a \in Record /\ a.epoch \in Nat /\ clock \in Nat /\ req[r] \in Request
  BY AcquiredType DEF IInv, TypeOK, Record
<1>2. a.owner = r /\ a.resp = None
  <2>1. CASE Expired(n)
    BY <2>1 DEF Acquired
  <2>2. CASE ~Expired(n)
    <3>1. Takeover(r, n) /\ a = [rec EXCEPT !.owner = r, !.updated = n]
      BY <2>2 DEF Acquire, Acquired
    <3> QED
      BY <3>1 DEF IInv, TypeOK, Record, Takeover, Completed
  <2> QED
    BY <2>1, <2>2
<1>3. rec' = a /\ req' = [req EXCEPT ![r] = q]
  BY DEF Acquire
<1> HIDE DEF a
<1>4. q \in Request /\ q.phase = "running" /\ q.epoch = a.epoch
  BY <1>1 DEF Request, Phase
<1> HIDE DEF q
<1>5. TypeOK'
  BY <1>1, <1>3, <1>4 DEF IInv, TypeOK
<1>6. req'[r] = q /\ \A s \in Requests : s # r => req'[s] = req[s]
  BY <1>3 DEF IInv, TypeOK
<1> QED
  BY <1>2, <1>3, <1>4, <1>5, <1>6, GrantStep DEF Acquire, a

\* A command acquires, acts and completes at once.
LEMMA ExecuteStep ==
  ASSUME IInv, NEW r \in Requests, NEW n \in Nat, req[r].phase = "new",
         Execute(r, n), UNCHANGED clock
  PROVE  IInv'
<1> USE IdempotencyAssumption
<1> DEFINE a == Acquired(r, n)
           b == [a EXCEPT !.resp = r]
           q == [req[r] EXCEPT !.phase = "served", !.did = TRUE, !.code = "done",
                               !.got = r, !.epoch = a.epoch]
<1>1. a \in Record /\ a.epoch \in Nat /\ clock \in Nat /\ req[r] \in Request
  BY AcquiredType DEF IInv, TypeOK, Record
<1>2. a.owner = r
  BY <1>1 DEF Acquired, IInv, TypeOK, Record
<1>3. rec' = b /\ req' = [req EXCEPT ![r] = q]
  BY DEF Execute, CommandRecord
<1> HIDE DEF a
<1>4. q \in Request /\ q.phase = "served" /\ q.epoch = a.epoch /\ q.got = r
  BY <1>1 DEF Request, Phase
<1>5. /\ b \in Record /\ b.owner = a.owner /\ b.resp = r /\ b.hash = a.hash
      /\ b.epoch = a.epoch
  BY <1>1 DEF Record
<1> HIDE DEF q, b
<1>6. TypeOK'
  BY <1>1, <1>3, <1>4, <1>5 DEF IInv, TypeOK
<1>7. req'[r] = q /\ \A s \in Requests : s # r => req'[s] = req[s]
  BY <1>3 DEF IInv, TypeOK
<1> QED
  BY <1>2, <1>3, <1>4, <1>5, <1>6, <1>7, GrantStep DEF Execute, a

\* A request is answered without a handler.
LEMMA AnswerStep ==
  ASSUME IInv, NEW r \in Requests, NEW n \in Nat, req[r].phase = "new",
         Answer(r, n), UNCHANGED clock
  PROVE  IInv'
<1> USE IdempotencyAssumption
<1>1. rec' = rec /\ rec \in Record /\ req[r] \in Request
  BY DEF Answer, IInv, TypeOK
<1>2. ASSUME NEW ph \in {"mismatch", "refused"}, req' = [req EXCEPT ![r].phase = ph]
      PROVE  IInv'
  <2>1. TypeOK'
    BY <1>1, <1>2 DEF IInv, TypeOK, Request, Phase
  <2>2. \A s \in Requests :
          /\ req'[s].epoch = req[s].epoch /\ req'[s].got = req[s].got
          /\ req'[s].phase = "served" => req[s].phase = "served"
          /\ req'[s].phase = "new" => req[s].phase = "new"
    BY <1>2 DEF IInv, TypeOK, Request
  <2> QED
    BY <1>1, <2>1, <2>2, KeepStep
<1>3. ASSUME Replay(r, n),
             req' = [req EXCEPT ![r] = [@ EXCEPT !.phase = "served",
                                               !.epoch = rec.epoch,
                                               !.got = rec.resp]]
      PROVE  IInv'
  <2> DEFINE q == [req[r] EXCEPT !.phase = "served", !.epoch = rec.epoch,
                                 !.got = rec.resp]
  <2>1. rec.epoch \in Nat /\ rec.resp \in Requests /\ Hash[r] = rec.hash
        /\ (rec.owner # None => rec.owner \in Requests)
    BY <1>1, <1>3 DEF Replay, Completed, Mismatch, Record
  <2>2. q \in Request /\ q.phase = "served" /\ q.epoch = rec.epoch /\ q.got = rec.resp
    BY <1>1, <2>1 DEF Request, Phase
  <2>3. req' = [req EXCEPT ![r] = q]
    BY <1>3
  <2> HIDE DEF q
  <2>4. req'[r] = q /\ \A s \in Requests : s # r => req'[s] = req[s]
    BY <2>3 DEF IInv, TypeOK
  <2>5. TypeOK'
    BY <1>1, <2>2, <2>3 DEF IInv, TypeOK
  <2>6. RecordFits'
    BY <1>1, <2>1, <2>2, <2>4 DEF IInv, RecordFits
  <2>7. ServedFits'
    BY <1>1, <2>1, <2>2, <2>4 DEF IInv, ServedFits
  <2>8. OneResponse'
    BY <2>2, <2>4 DEF IInv, OneResponse, ServedFits
  <2>9. OwnResponse'
    <3>1. Hash[rec.resp] = Hash[r]
      BY <2>1 DEF IInv, RecordFits
    <3> QED
      BY <2>2, <2>4, <3>1 DEF IInv, OwnResponse
  <2> QED
    BY <2>5, <2>6, <2>7, <2>8, <2>9 DEF IInv
<1> QED
  BY <1>2, <1>3 DEF Answer

\* The steps of a handler that do not touch the response.
LEMMA HandlerStep ==
  ASSUME IInv, NEW r \in Requests,
         HandlerActs(r) \/ HandlerReturns(r) \/ RenewFails(r) \/ Fail(r) \/ Crash(r)
  PROVE  IInv'
<1>1. rec' = rec /\ clock' = clock /\ req[r] \in Request
  BY DEF HandlerActs, HandlerReturns, RenewFails, Fail, Crash, IInv, TypeOK
<1>2. PICK q \in Request :
        /\ req' = [req EXCEPT ![r] = q]
        /\ q.epoch = req[r].epoch /\ q.got = req[r].got
        /\ q.phase = req[r].phase \/ q.phase \in {"returned", "failed", "dead"}
  <2>1. CASE HandlerActs(r)
    <3> DEFINE q == [req[r] EXCEPT !.did = TRUE]
    <3>1. q \in Request /\ q.epoch = req[r].epoch /\ q.got = req[r].got
          /\ q.phase = req[r].phase
      BY <1>1 DEF Request
    <3> QED
      BY <2>1, <3>1 DEF HandlerActs
  <2>2. CASE HandlerReturns(r)
    <3>1. PICK c \in {"error", "done", "rejected"} :
            req' = [req EXCEPT ![r] = [@ EXCEPT !.phase = "returned", !.code = c]]
      BY <2>2 DEF HandlerReturns
    <3> DEFINE q == [req[r] EXCEPT !.phase = "returned", !.code = c]
    <3>2. q \in Request /\ q.epoch = req[r].epoch /\ q.got = req[r].got
          /\ q.phase = "returned"
      BY <1>1 DEF Request, Phase
    <3> QED
      BY <3>1, <3>2
  <2>3. CASE RenewFails(r)
    <3> DEFINE q == [req[r] EXCEPT !.lost = TRUE]
    <3>1. q \in Request /\ q.epoch = req[r].epoch /\ q.got = req[r].got
          /\ q.phase = req[r].phase
      BY <1>1 DEF Request
    <3> QED
      BY <2>3, <3>1 DEF RenewFails
  <2>4. CASE Fail(r) \/ Crash(r)
    <3>1. PICK ph \in {"failed", "dead"} : req' = [req EXCEPT ![r].phase = ph]
      BY <2>4 DEF Fail, Crash
    <3> DEFINE q == [req[r] EXCEPT !.phase = ph]
    <3>2. q \in Request /\ q.epoch = req[r].epoch /\ q.got = req[r].got /\ q.phase = ph
      BY <1>1 DEF Request, Phase
    <3> QED
      BY <3>1, <3>2
  <2> QED
    BY <2>1, <2>2, <2>3, <2>4
<1>3. req'[r] = q /\ \A s \in Requests : s # r => req'[s] = req[s]
  BY <1>2 DEF IInv, TypeOK
<1>4. TypeOK'
  BY <1>1, <1>2 DEF IInv, TypeOK
<1> QED
  BY <1>1, <1>2, <1>3, <1>4, KeepStep

\* A heartbeat moves updated_at only.
LEMMA RenewStep ==
  ASSUME IInv, NEW r \in Requests, Renew(r) PROVE IInv'
<1>1. PICK n \in Nat : rec' = [rec EXCEPT !.updated = n]
  BY DEF Renew, TxNow, IInv, TypeOK
<1>2. /\ rec' \in Record /\ rec'.owner = rec.owner /\ rec'.hash = rec.hash
      /\ rec'.resp = rec.resp /\ rec'.epoch = rec.epoch
  BY <1>1 DEF IInv, TypeOK, Record
<1>3. /\ req' \in [Requests -> Request]
      /\ \A s \in Requests : /\ req'[s].epoch = req[s].epoch
                             /\ req'[s].got = req[s].got
                             /\ req'[s].phase = req[s].phase
  <2> DEFINE q == [req[r] EXCEPT !.beat = clock]
  <2>1. q \in Request /\ q.epoch = req[r].epoch /\ q.got = req[r].got
        /\ q.phase = req[r].phase
    BY DEF IInv, TypeOK, Request
  <2>2. req' = [req EXCEPT ![r] = q]
    BY DEF Renew
  <2> HIDE DEF q
  <2> QED
    BY <2>1, <2>2 DEF IInv, TypeOK
<1>4. TypeOK'
  BY <1>2, <1>3 DEF IInv, TypeOK, Renew
<1>5. rec.owner \in Requests /\ rec.owner # None
  BY IdempotencyAssumption DEF Renew, PendingFor
<1>6. RecordFits'
  BY <1>2, <1>3, <1>5 DEF IInv, RecordFits
<1>7. ServedFits' /\ OneResponse' /\ OwnResponse'
  BY <1>2, <1>3 DEF IInv, ServedFits, OneResponse, OwnResponse
<1> QED
  BY <1>4, <1>6, <1>7 DEF IInv

\* The owner of the pending record completes it, and is answered or not.
LEMMA CompleteStep ==
  ASSUME IInv, NEW r \in Requests, CompleteMutation(r) PROVE IInv'
<1> USE IdempotencyAssumption
<1>0. PICK n \in TxNow : rec' = CompletedBy(r, n)
  BY DEF CompleteMutation
<1>1. n \in Nat /\ rec' = [rec EXCEPT !.resp = r, !.updated = n]
  BY <1>0 DEF CompletedBy, TxNow, IInv, TypeOK
<1>2. /\ rec' \in Record /\ rec'.owner = r /\ rec'.hash = rec.hash
      /\ rec'.resp = r /\ rec'.epoch = rec.epoch /\ rec.epoch \in Nat
  BY <1>1 DEF IInv, TypeOK, Record, CompleteMutation, PendingFor
<1>3. rec.owner = r /\ rec.resp = None /\ req[r] \in Request
      /\ req[r].epoch = rec.epoch /\ Hash[r] = rec.hash
  <2>1. rec.owner = r /\ r # None
    BY DEF CompleteMutation, PendingFor
  <2> QED
    BY <2>1 DEF CompleteMutation, PendingFor, Completed, IInv, TypeOK, RecordFits
<1>4. PICK q \in Request :
        /\ req' = [req EXCEPT ![r] = q]
        /\ q.epoch = req[r].epoch /\ q.phase # "new"
        /\ q.phase = "served" => q.got = r
  <2> DEFINE a == [req[r] EXCEPT !.phase = "served", !.got = r]
             b == [req[r] EXCEPT !.phase = "failed"]
  <2>1. a \in Request /\ a.epoch = req[r].epoch /\ a.phase = "served" /\ a.got = r
    BY <1>3 DEF Request, Phase
  <2>2. b \in Request /\ b.epoch = req[r].epoch /\ b.phase = "failed"
    BY <1>3 DEF Request, Phase
  <2>3. req' = [req EXCEPT ![r] = a] \/ req' = [req EXCEPT ![r] = b]
    BY DEF CompleteMutation
  <2> HIDE DEF a, b
  <2> QED
    BY <2>1, <2>2, <2>3
<1>5. req'[r] = q /\ \A s \in Requests : s # r => req'[s] = req[s]
  BY <1>4 DEF IInv, TypeOK
<1>6. TypeOK'
  BY <1>2, <1>4 DEF IInv, TypeOK, CompleteMutation
<1>7. \A s \in Requests : req[s].phase = "served" => req[s].epoch # rec.epoch
  BY <1>3 DEF IInv, ServedFits
<1>8. RecordFits'
  BY <1>2, <1>3, <1>4, <1>5 DEF RecordFits
<1>9. ServedFits'
  BY <1>2, <1>3, <1>4, <1>5, <1>7 DEF IInv, ServedFits
<1>10. OneResponse'
  BY <1>3, <1>4, <1>5, <1>7 DEF IInv, OneResponse
<1>11. OwnResponse'
  BY <1>4, <1>5 DEF IInv, OwnResponse
<1> QED
  BY <1>6, <1>8, <1>9, <1>10, <1>11 DEF IInv

\* The invariant is inductive.
LEMMA NextIInv == IInv /\ [Next]_vars => IInv'
<1> SUFFICES ASSUME IInv, [Next]_vars PROVE IInv'
  OBVIOUS
<1>0. TxNow \subseteq Nat
  BY DEF TxNow, IInv, TypeOK
<1>1. ASSUME NEW r \in Requests, Arrive(r) \/ Command(r) PROVE IInv'
  BY <1>0, <1>1, AcquireStep, ExecuteStep, AnswerStep DEF Arrive, Command
<1>2. ASSUME NEW r \in Requests, Handle(r) PROVE IInv'
  BY <1>2, HandlerStep, RenewStep, CompleteStep DEF Handle
<1>3. CASE Tick \/ UNCHANGED vars
  <2>1. UNCHANGED <<rec, req>> /\ clock' \in Nat
    BY <1>3 DEF Tick, vars, IInv, TypeOK
  <2>2. TypeOK'
    BY <2>1 DEF IInv, TypeOK
  <2> QED
    BY <2>1, <2>2, KeepStep
<1> QED
  BY <1>1, <1>2, <1>3 DEF Next

\* Whatever the number of requests, the leases and the clock readings: all who
\* are served in one life of the record get one response.
THEOREM ServedAlike == Spec => []OneResponse
<1>1. IInv => OneResponse
  BY DEF IInv
<1> QED
  BY <1>1, InitIInv, NextIInv, PTL DEF Spec

\* No request is answered with the response to another one.
THEOREM ServedItsOwn == Spec => []OwnResponse
<1>1. IInv => OwnResponse
  BY DEF IInv
<1> QED
  BY <1>1, InitIInv, NextIInv, PTL DEF Spec

-----------------------------------------------------------------------------
(* Effects.                                                                *)

\* What the middleware owes besides the invariant of the answers.
RestFits == HandlerFits /\ LiveFits /\ OneLiveHandler /\ StartedFits

\* No live handler of the present life of the row stands in the way of one who
\* is granted the record.
LEMMA NoLiveOwner ==
  ASSUME IInv, LiveFits, NEW r \in Requests, NEW n \in TxNow,
         Expired(n) \/ Takeover(r, n), NEW s \in Requests, Live(s)
  PROVE  req[s].epoch # Acquired(r, n).epoch
<1> USE IdempotencyAssumption
<1>1. /\ rec \in Record /\ clock \in Nat /\ req[s] \in Request
      /\ req[s].epoch <= rec.epoch /\ n \in Nat /\ n <= clock
  BY DEF IInv, TypeOK, ServedFits, TxNow
<1>2. /\ rec.epoch \in Nat /\ rec.updated \in Nat
      /\ req[s].epoch \in Nat /\ req[s].beat \in Nat
  BY <1>1 DEF Record, Request
<1>3. CASE Expired(n)
  BY <1>1, <1>2, <1>3 DEF Acquired
<1>4. CASE ~Expired(n)
  <2>1. rec.updated <= n - PendingLease
    BY <1>4 DEF Takeover, Lapsed
  <2>2. Acquired(r, n).epoch = rec.epoch
    BY <1>1, <1>4 DEF Acquired, Record
  <2>3. clock <= req[s].beat + BeatGap
        /\ (req[s].epoch = rec.epoch => req[s].beat <= rec.updated + MaxStall)
    BY DEF LiveFits
  <2> QED
    BY <1>1, <1>2, <2>1, <2>2, <2>3
<1> QED
  BY <1>3, <1>4

\* Nobody who has started in the life a grant opens or continues is still
\* about to answer.
LEMMA OthersGaveUp ==
  ASSUME IInv, RestFits, NEW r \in Requests, NEW n \in TxNow,
         Expired(n) \/ Takeover(r, n), NEW s \in Requests, Started(s),
         req[s].epoch = Acquired(r, n).epoch
  PROVE  GaveUp(s)
<1>1. ~Live(s)
  BY NoLiveOwner DEF RestFits
<1>2. rec \in Record /\ rec.epoch \in Nat /\ req[s].epoch \in Nat
      /\ req[s].epoch <= rec.epoch
  BY DEF IInv, TypeOK, Record, Request, ServedFits
<1>3. ~Expired(n) /\ rec.resp = None /\ req[s].epoch = rec.epoch
  <2>1. ~Expired(n)
    BY <1>2 DEF Acquired
  <2> QED
    BY <1>2, <2>1 DEF Acquired, Record, Takeover, Completed
<1>4. req[s].phase # "served"
  BY <1>3 DEF IInv, ServedFits
<1> QED
  BY <1>1, <1>4 DEF Live, Started, GaveUp, RestFits, HandlerFits

\* A request gets the record and its handler starts.
LEMMA AcquireEffects ==
  ASSUME IInv, RestFits, NEW r \in Requests, NEW n \in TxNow,
         req[r].phase = "new", Acquire(r, n), UNCHANGED clock
  PROVE  RestFits'
<1> USE IdempotencyAssumption
<1> DEFINE a == Acquired(r, n)
           q == [req[r] EXCEPT !.phase = "running", !.beat = clock, !.epoch = a.epoch]
<1>1. /\ req[r] \in Request /\ rec \in Record /\ clock \in Nat /\ n \in Nat
      /\ clock - n <= MaxStall
  BY DEF IInv, TypeOK, TxNow
<1>2. a.owner = r /\ a.resp = None /\ a.updated = n
  <2>1. CASE Expired(n)
    BY <2>1 DEF Acquired
  <2>2. CASE ~Expired(n)
    BY <1>1, <2>2 DEF Acquired, Record, Acquire, Takeover, Completed
  <2> QED
    BY <2>1, <2>2
<1>3. rec' = a /\ req' = [req EXCEPT ![r] = q]
  BY DEF Acquire
<1>4. /\ q.phase = "running" /\ q.epoch = a.epoch /\ q.beat = clock
      /\ q.did = req[r].did /\ q.code = "none"
  BY <1>1 DEF Request, RestFits, HandlerFits
<1>5. /\ \A s \in Requests : Live(s) => req[s].epoch # a.epoch
      /\ \A s \in Requests : Started(s) /\ req[s].epoch = a.epoch => GaveUp(s)
  BY NoLiveOwner, OthersGaveUp DEF Acquire, RestFits
<1> HIDE DEF q, a
<1>6. req'[r] = q /\ \A s \in Requests : s # r => req'[s] = req[s]
  BY <1>3 DEF IInv, TypeOK
<1>7. HandlerFits'
  BY <1>4, <1>6 DEF RestFits, HandlerFits
<1>8. LiveFits'
  <2> SUFFICES ASSUME NEW s \in Requests, Live(s)'
               PROVE  /\ clock <= req'[s].beat + BeatGap
                      /\ req'[s].epoch = a.epoch =>
                           a.owner = s /\ a.resp = None /\ req'[s].beat <= a.updated + MaxStall
    BY <1>3 DEF LiveFits, Completed
  <2>1. CASE s = r
    BY <1>1, <1>2, <1>4, <1>6, <2>1
  <2>2. CASE s # r
    BY <1>5, <1>6, <2>2 DEF RestFits, LiveFits, Live
  <2> QED
    BY <2>1, <2>2
<1>9. OneLiveHandler'
  BY <1>4, <1>5, <1>6 DEF RestFits, OneLiveHandler, Live
<1>10. StartedFits'
  BY <1>4, <1>5, <1>6 DEF RestFits, StartedFits, Started, GaveUp
<1> QED
  BY <1>7, <1>8, <1>9, <1>10 DEF RestFits

\* A step of one request that leaves the row alone, starts nothing and revives
\* nobody.
LEMMA KeepEffects ==
  ASSUME TypeOK, RestFits, UNCHANGED <<rec, clock>>, NEW r \in Requests,
         NEW q \in Request, req' = [req EXCEPT ![r] = q],
         q.did \/ q.phase \in {"running", "returned"} =>
           Started(r) /\ q.epoch = req[r].epoch,
         q.phase \in {"running", "returned"} /\ ~q.lost =>
           Live(r) /\ q.beat = req[r].beat,
         GaveUp(r) => q.lost \/ q.phase \in {"failed", "dead"} \/ q.code = "error",
         q.did => q.phase \in {"running", "returned", "served", "failed", "dead"},
         q.phase \in {"new", "running"} => q.code = "none"
  PROVE  RestFits'
<1>1. req'[r] = q /\ \A s \in Requests : s # r => req'[s] = req[s]
  BY DEF TypeOK
<1>2. HandlerFits'
  BY <1>1 DEF RestFits, HandlerFits
<1>3. LiveFits'
  BY <1>1 DEF RestFits, LiveFits, Live, Completed
<1>4. OneLiveHandler'
  BY <1>1 DEF RestFits, OneLiveHandler, Live
<1>5. StartedFits'
  BY <1>1 DEF RestFits, StartedFits, Started, GaveUp
<1> QED
  BY <1>2, <1>3, <1>4, <1>5 DEF RestFits

\* A request is answered without a handler.
LEMMA AnswerEffects ==
  ASSUME IInv, RestFits, NEW r \in Requests, NEW n \in TxNow,
         req[r].phase = "new", Answer(r, n), UNCHANGED clock
  PROVE  RestFits'
<1>1. rec' = rec /\ req[r] \in Request /\ rec \in Record /\ TypeOK
      /\ req[r].code = "none" /\ ~req[r].did
  BY DEF Answer, IInv, TypeOK, RestFits, HandlerFits
<1>2. ASSUME NEW ph \in {"mismatch", "refused"}, req' = [req EXCEPT ![r].phase = ph]
      PROVE  RestFits'
  <2> DEFINE q == [req[r] EXCEPT !.phase = ph]
  <2>1. q \in Request /\ q.phase = ph /\ ~q.did /\ q.lost = req[r].lost
        /\ q.code = req[r].code
    BY <1>1 DEF Request, Phase
  <2>2. req' = [req EXCEPT ![r] = q]
    BY <1>2
  <2> HIDE DEF q
  <2> QED
    BY <1>1, <2>1, <2>2, KeepEffects DEF GaveUp
<1>3. ASSUME Replay(r, n),
             req' = [req EXCEPT ![r] = [@ EXCEPT !.phase = "served",
                                               !.epoch = rec.epoch,
                                               !.got = rec.resp]]
      PROVE  RestFits'
  <2> DEFINE q == [req[r] EXCEPT !.phase = "served", !.epoch = rec.epoch,
                                 !.got = rec.resp]
  <2>1. q \in Request /\ q.phase = "served" /\ ~q.did /\ q.lost = req[r].lost
        /\ q.code = req[r].code
    BY <1>1 DEF Request, Phase, Record
  <2>2. req' = [req EXCEPT ![r] = q]
    BY <1>3
  <2> HIDE DEF q
  <2> QED
    BY <1>1, <2>1, <2>2, KeepEffects DEF GaveUp
<1> QED
  BY <1>2, <1>3 DEF Answer

\* The steps of a handler that do not touch the row.
LEMMA HandlerEffects ==
  ASSUME IInv, RestFits, NEW r \in Requests,
         HandlerActs(r) \/ HandlerReturns(r) \/ RenewFails(r) \/ Fail(r) \/ Crash(r)
  PROVE  RestFits'
<1>1. UNCHANGED <<rec, clock>> /\ req[r] \in Request /\ TypeOK
      /\ (req[r].phase = "running" => req[r].code = "none")
      /\ (req[r].did => req[r].phase \in {"running", "returned", "served", "failed", "dead"})
  BY DEF HandlerActs, HandlerReturns, RenewFails, Fail, Crash, IInv, TypeOK,
         RestFits, HandlerFits
<1>2. CASE HandlerActs(r)
  <2> DEFINE q == [req[r] EXCEPT !.did = TRUE]
  <2>1. /\ q \in Request /\ q.epoch = req[r].epoch /\ q.phase = "running"
        /\ q.lost = req[r].lost /\ q.beat = req[r].beat /\ q.code = "none"
        /\ req[r].phase = "running" /\ req' = [req EXCEPT ![r] = q]
    BY <1>1, <1>2 DEF Request, HandlerActs
  <2> HIDE DEF q
  <2> QED
    BY <1>1, <2>1, KeepEffects DEF Started, Live, GaveUp
<1>3. CASE HandlerReturns(r)
  <2>1. PICK c \in {"error", "done", "rejected"} :
          req' = [req EXCEPT ![r] = [@ EXCEPT !.phase = "returned", !.code = c]]
    BY <1>3 DEF HandlerReturns
  <2> DEFINE q == [req[r] EXCEPT !.phase = "returned", !.code = c]
  <2>2. /\ q \in Request /\ q.epoch = req[r].epoch /\ q.phase = "returned"
        /\ q.lost = req[r].lost /\ q.beat = req[r].beat
        /\ req[r].phase = "running" /\ req' = [req EXCEPT ![r] = q]
    BY <1>1, <1>3, <2>1 DEF Request, HandlerReturns, Phase
  <2> HIDE DEF q
  <2> QED
    BY <1>1, <2>2, KeepEffects DEF Started, Live, GaveUp
<1>4. CASE RenewFails(r)
  <2> DEFINE q == [req[r] EXCEPT !.lost = TRUE]
  <2>1. /\ q \in Request /\ q.epoch = req[r].epoch /\ q.phase = "running"
        /\ q.lost /\ q.code = "none"
        /\ req[r].phase = "running" /\ req' = [req EXCEPT ![r] = q]
    BY <1>1, <1>4 DEF Request, RenewFails
  <2> HIDE DEF q
  <2> QED
    BY <1>1, <2>1, KeepEffects DEF Started
<1>5. CASE Fail(r) \/ Crash(r)
  <2>1. PICK ph \in {"failed", "dead"} : req' = [req EXCEPT ![r].phase = ph]
    BY <1>5 DEF Fail, Crash
  <2> DEFINE q == [req[r] EXCEPT !.phase = ph]
  <2>2. /\ q \in Request /\ q.epoch = req[r].epoch /\ q.phase = ph
        /\ req[r].phase \in {"running", "returned"} /\ req' = [req EXCEPT ![r] = q]
    BY <1>1, <1>5, <2>1 DEF Request, Fail, Crash, Phase
  <2> HIDE DEF q
  <2> QED
    BY <1>1, <2>2, KeepEffects DEF Started
<1> QED
  BY <1>2, <1>3, <1>4, <1>5

\* A heartbeat renews the claim of its own handler, and of no other.
LEMMA RenewEffects ==
  ASSUME IInv, RestFits, NEW r \in Requests, Renew(r) PROVE RestFits'
<1> USE IdempotencyAssumption
<1>1. PICK n \in TxNow : rec' = [rec EXCEPT !.updated = n]
  BY DEF Renew
<1>2. /\ rec'.owner = r /\ rec.owner = r /\ rec'.resp = rec.resp
      /\ rec'.epoch = rec.epoch /\ rec'.updated = n /\ rec.resp = None
      /\ n \in Nat /\ clock \in Nat /\ clock - n <= MaxStall /\ clock' = clock
  BY <1>1 DEF IInv, TypeOK, Record, Renew, PendingFor, TxNow, Completed
<1> DEFINE q == [req[r] EXCEPT !.beat = clock]
<1>3. /\ q.epoch = req[r].epoch /\ q.phase = req[r].phase /\ q.did = req[r].did
      /\ q.lost = req[r].lost /\ q.code = req[r].code /\ q.beat = clock
  BY <1>2 DEF IInv, TypeOK, Request
<1>4. req' = [req EXCEPT ![r] = q]
  BY DEF Renew
<1> HIDE DEF q
<1>5. req'[r] = q /\ \A s \in Requests : s # r => req'[s] = req[s]
  BY <1>4 DEF IInv, TypeOK
<1>6. HandlerFits'
  BY <1>3, <1>5 DEF RestFits, HandlerFits
<1>7. LiveFits'
  <2> SUFFICES ASSUME NEW s \in Requests, Live(s)'
               PROVE  /\ clock <= req'[s].beat + BeatGap
                      /\ req'[s].epoch = rec.epoch =>
                           r = s /\ req'[s].beat <= n + MaxStall
    BY <1>2 DEF LiveFits, Completed
  <2>1. CASE s = r
    BY <1>2, <1>3, <1>5, <2>1
  <2>2. CASE s # r
    BY <1>2, <1>5, <2>2 DEF RestFits, LiveFits, Live
  <2> QED
    BY <2>1, <2>2
<1>8. OneLiveHandler'
  BY <1>3, <1>5 DEF RestFits, OneLiveHandler, Live
<1>9. StartedFits'
  BY <1>3, <1>5 DEF RestFits, StartedFits, Started, GaveUp
<1> QED
  BY <1>6, <1>7, <1>8, <1>9 DEF RestFits

\* The owner completes the record and is live no more.
LEMMA CompleteEffects ==
  ASSUME IInv, RestFits, NEW r \in Requests, CompleteMutation(r) PROVE RestFits'
<1>1. PICK n \in TxNow : rec' = CompletedBy(r, n)
  BY DEF CompleteMutation
<1>2. /\ rec'.epoch = rec.epoch /\ rec.owner = r /\ clock' = clock
      /\ req[r].phase = "returned" /\ req[r].code # "error"
  BY <1>1 DEF CompletedBy, IInv, TypeOK, Record, CompleteMutation, PendingFor
<1>3. PICK q :
        /\ req' = [req EXCEPT ![r] = q] /\ q.phase \in {"served", "failed"}
        /\ q.epoch = req[r].epoch /\ q.did = req[r].did /\ q.lost = req[r].lost
        /\ q.code = req[r].code
  <2> DEFINE a == [req[r] EXCEPT !.phase = "served", !.got = r]
             b == [req[r] EXCEPT !.phase = "failed"]
  <2>0. req[r] \in Request
    BY DEF IInv, TypeOK
  <2>1. /\ a.phase = "served" /\ a.epoch = req[r].epoch /\ a.did = req[r].did
        /\ a.lost = req[r].lost /\ a.code = req[r].code
    BY <2>0 DEF Request
  <2>2. /\ b.phase = "failed" /\ b.epoch = req[r].epoch /\ b.did = req[r].did
        /\ b.lost = req[r].lost /\ b.code = req[r].code
    BY <2>0 DEF Request
  <2>3. req' = [req EXCEPT ![r] = a] \/ req' = [req EXCEPT ![r] = b]
    BY DEF CompleteMutation
  <2> HIDE DEF a, b
  <2> QED
    BY <2>1, <2>2, <2>3
<1>4. req'[r] = q /\ \A s \in Requests : s # r => req'[s] = req[s]
  BY <1>3 DEF IInv, TypeOK
<1>5. HandlerFits'
  BY <1>3, <1>4 DEF RestFits, HandlerFits
<1>6. LiveFits'
  BY <1>2, <1>3, <1>4 DEF RestFits, LiveFits, Live
<1>7. OneLiveHandler'
  BY <1>3, <1>4 DEF RestFits, OneLiveHandler, Live
<1>8. StartedFits'
  BY <1>2, <1>3, <1>4 DEF RestFits, StartedFits, Started, GaveUp
<1> QED
  BY <1>5, <1>6, <1>7, <1>8 DEF RestFits

\* A request of the middleware, and the clock, keep what it owes.
LEMMA RestStep ==
  ASSUME IInv, RestFits, mode = "rest", [Next]_vars PROVE RestFits'
<1>1. ASSUME NEW r \in Requests, Arrive(r) PROVE RestFits'
  BY <1>1, AcquireEffects, AnswerEffects DEF Arrive
<1>2. ASSUME NEW r \in Requests, Handle(r) PROVE RestFits'
  BY <1>2, HandlerEffects, RenewEffects, CompleteEffects DEF Handle
<1>3. ASSUME NEW r \in Requests, Command(r) PROVE FALSE
  BY <1>3 DEF Command
<1>4. CASE Tick
  <2>1. /\ UNCHANGED <<rec, req>> /\ clock' = clock + 1 /\ clock \in Nat
        /\ \A r \in Requests : req[r].beat \in Nat
        /\ \A r \in Requests : Live(r) => clock + 1 - req[r].beat <= BeatGap
    BY <1>4 DEF Tick, IInv, TypeOK, Request
  <2>2. LiveFits'
    BY <2>1, IdempotencyAssumption DEF RestFits, LiveFits, Live, Completed
  <2> QED
    BY <2>1, <2>2 DEF RestFits, HandlerFits, OneLiveHandler, StartedFits, Live,
                      Started, GaveUp
<1>5. CASE UNCHANGED vars
  BY <1>5 DEF vars, RestFits, HandlerFits, LiveFits, OneLiveHandler, StartedFits,
              Live, Started, GaveUp, Completed
<1> QED
  BY <1>1, <1>2, <1>3, <1>4, <1>5 DEF Next

\* A command acts, and is answered, in one step.
LEMMA CommandStep ==
  ASSUME IInv, CommandFits, mode = "command", [Next]_vars PROVE CommandFits'
<1>1. ASSUME NEW r \in Requests, Arrive(r) \/ Handle(r) PROVE FALSE
  BY <1>1 DEF CommandFits, Arrive, Handle, HandlerActs, HandlerReturns, Renew,
              RenewFails, CompleteMutation, Fail, Crash
<1>2. ASSUME NEW r \in Requests, Command(r) PROVE CommandFits'
  <2>1. PICK n \in TxNow : Execute(r, n) \/ Answer(r, n)
    BY <1>2 DEF Command
  <2>2. ~req[r].did /\ req[r] \in Request
    BY <1>2 DEF Command, CommandFits, IInv, TypeOK
  <2>3. CASE Execute(r, n)
    <3> DEFINE e == Acquired(r, n).epoch
               q == [req[r] EXCEPT !.phase = "served", !.did = TRUE, !.code = "done",
                                   !.got = r, !.epoch = e]
    <3>1. q.phase = "served" /\ q.got = r /\ req' = [req EXCEPT ![r] = q]
      BY <2>2, <2>3 DEF Execute, Request
    <3> HIDE DEF q
    <3>2. req'[r] = q /\ \A s \in Requests : s # r => req'[s] = req[s]
      BY <3>1 DEF IInv, TypeOK
    <3> QED
      BY <3>1, <3>2 DEF CommandFits
  <2>4. CASE Answer(r, n)
    <3>1. PICK q : /\ req' = [req EXCEPT ![r] = q] /\ ~q.did
                   /\ q.phase \in {"mismatch", "served", "refused"}
      <4>1. CASE req' = [req EXCEPT ![r].phase = "mismatch"]
        <5> DEFINE q == [req[r] EXCEPT !.phase = "mismatch"]
        <5>1. ~q.did /\ q.phase = "mismatch"
          BY <2>2 DEF Request
        <5> QED
          BY <4>1, <5>1
      <4>2. CASE req' = [req EXCEPT ![r].phase = "refused"]
        <5> DEFINE q == [req[r] EXCEPT !.phase = "refused"]
        <5>1. ~q.did /\ q.phase = "refused"
          BY <2>2 DEF Request
        <5> QED
          BY <4>2, <5>1
      <4>3. CASE req' = [req EXCEPT ![r] = [@ EXCEPT !.phase = "served",
                                                     !.epoch = rec.epoch,
                                                     !.got = rec.resp]]
        <5> DEFINE q == [req[r] EXCEPT !.phase = "served", !.epoch = rec.epoch,
                                       !.got = rec.resp]
        <5>1. ~q.did /\ q.phase = "served"
          BY <2>2 DEF Request
        <5> QED
          BY <4>3, <5>1
      <4> QED
        BY <2>4, <4>1, <4>2, <4>3 DEF Answer
    <3>2. req'[r] = q /\ \A s \in Requests : s # r => req'[s] = req[s]
      BY <3>1 DEF IInv, TypeOK
    <3> QED
      BY <3>1, <3>2 DEF CommandFits
  <2> QED
    BY <2>1, <2>3, <2>4
<1>3. CASE Tick \/ UNCHANGED vars
  BY <1>3 DEF Tick, vars, CommandFits
<1> QED
  BY <1>1, <1>2, <1>3 DEF Next

\* The second invariant is inductive.
LEMMA NextEffects == EffectsIInv /\ [Next]_vars => EffectsIInv'
<1> SUFFICES ASSUME EffectsIInv, [Next]_vars PROVE EffectsIInv'
  OBVIOUS
<1>1. IInv' /\ mode' = mode
  BY NextIInv DEF EffectsIInv, Next, vars
<1>2. CASE mode = "rest"
  BY <1>1, <1>2, RestStep DEF EffectsIInv, RestFits
<1>3. CASE mode = "command"
  BY <1>1, <1>3, CommandStep DEF EffectsIInv
<1>4. CASE mode = "mcp"
  BY <1>1, <1>4 DEF EffectsIInv
<1> QED
  BY <1>2, <1>3, <1>4 DEF EffectsIInv

\* Initially no handler has started.
LEMMA InitEffects == Init => EffectsIInv
<1> SUFFICES ASSUME Init PROVE EffectsIInv
  OBVIOUS
<1>1. IInv /\ mode \in {"rest", "mcp", "command"}
  BY InitIInv, IdempotencyAssumption DEF Init
<1>2. \A r \in Requests : req[r].phase = "new" /\ ~req[r].did /\ req[r].code = "none"
  BY DEF Init, NewRequest
<1> QED
  BY <1>1, <1>2 DEF EffectsIInv, HandlerFits, LiveFits, OneLiveHandler,
     StartedFits, CommandFits, Live, Started

\* What a request did is done again only if it did not get through, and as a
\* command never: whatever the number of requests, the leases and the clock
\* readings, for the middleware with a heartbeat (transport/rest) and for the
\* commands; transport/mcp, which has no heartbeat, is not covered.
THEOREM EffectsOnce == Spec => [](mode # "mcp" => EffectsDoNotRepeat)
<1>1. EffectsIInv => (mode # "mcp" => EffectsDoNotRepeat)
  <2> SUFFICES ASSUME EffectsIInv, mode # "mcp" PROVE EffectsDoNotRepeat
    OBVIOUS
  <2>1. CASE mode = "rest"
    BY <2>1 DEF EffectsIInv, EffectsDoNotRepeat, RepeatOnlyAfterFailure, CommandOnce,
                StartedFits, Started, GaveUp
  <2>2. CASE mode = "command"
    <3>1. CommandOnce
      BY <2>2 DEF EffectsIInv, CommandFits, CommandOnce, IInv, OneResponse
    <3>2. OneLiveHandler
      BY <2>2 DEF EffectsIInv, CommandFits, OneLiveHandler, Live
    <3>3. RepeatOnlyAfterFailure
      BY <2>2, <3>1 DEF CommandOnce, RepeatOnlyAfterFailure
    <3> QED
      BY <3>1, <3>2, <3>3 DEF EffectsDoNotRepeat
  <2> QED
    BY <2>1, <2>2 DEF EffectsIInv
<1> QED
  BY <1>1, InitEffects, NextEffects, PTL DEF Spec

=============================================================================
