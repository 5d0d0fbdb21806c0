----------------------------- MODULE ScoreCards -----------------------------
(***************************************************************************)
(* The reputation of an agent from outside (reputation, v2): contributions   *)
(* and the provider's events about them (contribution/postgres/repository.go)*)
(* with the criterion ledger and the validation steps are the facts; a       *)
(* worker in every process reads them and replaces all score cards           *)
(* (reputation/worker/rebuild_worker.go, application/rebuilder.go,           *)
(* postgres/fact_source.go, application/facts.go and scorer.go).             *)
(*                                                                          *)
(* A worker rebuilds when the watermark, the sum of the highest ids of three *)
(* tables, has moved since its last rebuild; it reads the watermark first    *)
(* and then the facts, one query after the other, and what it writes may be  *)
(* older than what another process has written.  A fact need not move the    *)
(* watermark: rows that are updated have their ids already, and a row whose  *)
(* id was drawn earlier may commit after a later one.                        *)
(*                                                                          *)
(* All contributions are one agent's, attempts at one task, in the order     *)
(* they were created.  Weights, decay and confidence are left out: a card is *)
(* the observations it counts, how many contributions, and whether it has a  *)
(* score at all.                                                             *)
(***************************************************************************)
EXTENDS CriterionLedger

CONSTANTS
  Contribs,        \* numbered as they are created
  ContribExec, ContribVersion, ContribRepo,
  Deliveries, ObjectVersions,   \* what tells a provider's events apart
  SecurityScan,    \* the step that counts for security
  MinSample,       \* min_sample_for_score
  Processes,
  MaxEvents,       \* bound on the events of all contributions
  MaxFaults,       \* bound on failed rebuilds and restarts
  Settings         \* which workers, reviews, jobs, executions, contributions,
                   \* outcomes and processes do something

Outcomes == {"ci_passed", "ci_failed", "reviewed", "changes_requested", "approved",
             "merged", "closed", "reverted", "issue_reopened"}

ASSUME ScoreAssumption ==
  /\ Contribs \subseteq Nat \ {0} /\ IsFiniteSet(Contribs) /\ ContribExec \in [Contribs -> Execs]
  /\ SecurityScan \in Steps /\ MinSample \in Nat /\ MaxFaults \in Nat
  /\ Settings \subseteq
       [workers : SUBSET Workers, reviews : SUBSET Reviews, jobs : SUBSET Jobs,
        execs : SUBSET Execs, contribs : SUBSET Contribs, outcomes : SUBSET Outcomes,
        processes : SUBSET Processes]

VARIABLES
  contribution,  \* attribution_status by contribution
  event,         \* contribution_events
  exec,          \* how executions ended
  watermark,     \* FactSource.LatestEventID, 0 when there is nothing
  hidden,        \* something has changed since the watermark rose
  rebuild,       \* what each process is at
  cards,         \* agent_reputation_projections
  faults,
  setting

cardVars == <<contribution, event, exec, watermark, hidden, rebuild, cards, faults, setting>>

vars == <<ledgerVars, cardVars>>

-----------------------------------------------------------------------------
(* Facts *)

\* What changes without a new id, or with one that was overtaken, is hidden
\* until the next rise.
Raised == watermark' = watermark + 1 /\ hidden' = FALSE
Overtaken == watermark' = watermark /\ hidden' = TRUE

\* Repository.Insert; the attribution is decided before, pending and rejected
\* ones are alike.
Contribute(c, status) ==
  /\ c \in setting.contribs
  /\ contribution[c] = "none"
  /\ \A d \in setting.contribs : d < c => contribution[d] # "none"
  /\ contribution' = [contribution EXCEPT ![c] = status]
  /\ hidden' = TRUE
  /\ UNCHANGED <<event, exec, watermark>>

\* NewContributionEvent wants a delivery or an object version to tell it by.
NewContributionEvent(o, d, v) ==
  {e \in {[outcome |-> o, delivery |-> d, version |-> v]} :
     e.delivery # None \/ e.version # None}

\* The type an event with outcome o has; only CI speaks with two outcomes.
EventType(o) == IF o \in {"ci_passed", "ci_failed"} THEN "ci" ELSE o

\* The events that stand in the way of (d, v) for outcome o of c: of the same
\* delivery anywhere, or of the same type and object version here.
IdempotentEvents(c, o, d, v) ==
  {e \in UNION {event[x] : x \in Contribs} : d # None /\ e.delivery = d}
  \cup {e \in event[c] : v # None /\ EventType(e.outcome) = EventType(o) /\ e.version = v}

\* AppendEvent.  What has been recorded is answered with the event it is, or
\* refused when it says something else; both change nothing.
AppendEvent(c, o, d, v) ==
  /\ contribution[c] # "none"
  /\ o \in setting.outcomes
  /\ NewContributionEvent(o, d, v) # {}
  /\ IdempotentEvents(c, o, d, v) = {}
  /\ FoldSet(LAMBDA x, n : n + Cardinality(event[x]), 0, Contribs) < MaxEvents
  /\ event' = [event EXCEPT ![c] = @ \cup NewContributionEvent(o, d, v)]
  /\ \/ Raised
     \/ Overtaken /\ \E x \in Contribs : event[x] # {}
  /\ UNCHANGED <<contribution, exec>>

\* An execution ends: accepted and submitted in time, or not.
ExecutionEnds(e, delivered) ==
  /\ e \in setting.execs
  /\ exec[e] = "open"
  /\ exec' = [exec EXCEPT ![e] = delivered]
  /\ hidden' = TRUE
  /\ UNCHANGED <<contribution, event, watermark>>

-----------------------------------------------------------------------------
(* FactSource *)

\* What is read of the contributions that are listed, and how they ended.
Facts(listed, ended) ==
  [contribs |-> listed, exec |-> ended, outcomes |-> <<>>, verdict |-> <<>>, scan |-> <<>>]

NoFacts == Facts({}, <<>>)

\* Fault: whether the attribution is verified is not asked.
Attributed(c) == contribution[c] # "none"

\* WHERE attribution_status = 'verified'
Attributable(c) == contribution[c] = "verified"

ListContributions ==
  LET listed == {c \in Contribs : Attributable(c)} IN
  Facts(listed, [c \in listed |-> exec[ContribExec[c]]])

AttachEvents(f) ==
  [f EXCEPT !.outcomes = [c \in f.contribs |-> {e.outcome : e \in event[c]}]]

\* The latest verdict on the criteria of the task; one without is not there.
AttachCriteria(f) ==
  [f EXCEPT !.verdict = [c \in f.contribs |->
     [k \in {k \in ToSet(CriteriaForExecution) : Status(ContribExec[c], k) # "unverified"} |->
        Status(ContribExec[c], k) = "passed"]]]

AttachValidationSteps(f) ==
  [f EXCEPT !.scan = [c \in f.contribs |->
     {<<j, job[j].results[SecurityScan] = "passed">> :
        j \in {j \in Jobs : /\ SourceExec[j] = ContribExec[c]
                            /\ job[j].results[SecurityScan] # "none"}}]]

-----------------------------------------------------------------------------
(* Observations and cards *)

Observed(dim, passed, evidence) == {[dim |-> dim, passed |-> passed, of |-> evidence]}

\* The verdicts on criteria, and on the steps of the jobs.
ByCriterion(dim, f, c, kind, K) ==
  UNION {Observed(dim, f.verdict[c][k], <<c, kind, k>>) : k \in K}

ByStep(f, c) ==
  UNION {Observed("security", step[2], <<c, "security-step", step[1]>>) : step \in f.scan[c]}

Correctness(f, c) ==
  LET seen == f.outcomes[c] IN
  ByCriterion("correctness", f, c, "criterion", DOMAIN f.verdict[c])
  \cup (IF {"ci_passed", "ci_failed"} \cap seen = {} THEN {}
        ELSE Observed("correctness", "ci_failed" \notin seen, <<c, "ci">>))
  \cup (IF "reverted" \in seen THEN Observed("correctness", FALSE, <<c, "revert">>) ELSE {})

\* An open execution says nothing, a repeated attempt counts against the agent.
Reliability(f, c) ==
  (IF f.exec[c] = "open" THEN {}
   ELSE Observed("reliability", f.exec[c] = "on_time", <<c, "delivery">>))
  \cup (IF \E d \in f.contribs : d < c
        THEN Observed("reliability", FALSE, <<c, "repeat-attempt">>) ELSE {})

Reviewability(f, c) ==
  IF {"reviewed", "changes_requested", "approved"} \cap f.outcomes[c] = {} THEN {}
  ELSE Observed("reviewability", "changes_requested" \notin f.outcomes[c], <<c, "review">>)

AfterMerge(f, c) ==
  LET seen == f.outcomes[c] IN
  IF "merged" \notin seen THEN {}
  ELSE Observed("maintainability", {"reverted", "issue_reopened"} \cap seen = {},
                <<c, "post-merge">>)
       \cup Observed("impact", "reverted" \notin seen, <<c, "impact">>)

\* Steps and criteria bound to the scan; without any there is no observation.
Security(f, c) ==
  ByStep(f, c)
  \cup ByCriterion("security", f, c, "security-criterion",
                   {k \in DOMAIN f.verdict[c] : VerifierRef(k) = SecurityScan})

Collaboration(f, c) ==
  IF "changes_requested" \notin f.outcomes[c] THEN {}
  ELSE Observed("collaboration", "approved" \in f.outcomes[c], <<c, "revision-cycle">>)

Observations(f, c) ==
  Correctness(f, c) \cup Reliability(f, c) \cup Reviewability(f, c)
  \cup AfterMerge(f, c) \cup Security(f, c) \cup Collaboration(f, c)

\* The views a contribution counts for.
KeysOf(c) == {<<"agent_lifetime">>, <<"agent_version", ContribVersion[c]>>,
              <<"capability", ContribRepo[c]>>}

Keys == UNION {KeysOf(c) : c \in Contribs}

\* The dimensions something was observed of; the others are left out of the total.
GroupByDimension(seen) == {o.dim : o \in seen}

\* scoreDimension: how many observations there are and how many of them passed.
ScoreDimension(dim, seen) ==
  LET of == {o \in seen : o.dim = dim}
  IN [sample |-> Cardinality(of), passed |-> Cardinality({o \in of : o.passed})]

\* Scorer.Score and domain.Score: the sample is the contributions, never the
\* observations, and what was not observed does not count.
ScoreCard(f, key) ==
  LET of == {c \in f.contribs : key \in KeysOf(c)}
      seen == UNION {Observations(f, c) : c \in of}
      dims == GroupByDimension(seen)
  IN IF of = {} THEN None
     ELSE [sample |-> Cardinality(of), seen |-> seen,
           dims |-> [dim \in dims |-> ScoreDimension(dim, seen)],
           scored |-> Cardinality(of) >= MinSample /\ dims # {}]

Score(f) == [key \in Keys |-> ScoreCard(f, key)]

NoCards == [key \in Keys |-> None]

-----------------------------------------------------------------------------
(* RebuildWorker.RunOnce *)

Unknown == -1

At(pc, last, mark, facts) == [pc |-> pc, last |-> last, mark |-> mark, facts |-> facts]

Idle(last) == At("idle", last, 0, NoFacts)

\* The watermark has moved.  A cold start finds nothing to do only when there
\* is neither a fact nor a card.
ReadWatermark(p) ==
  /\ rebuild[p].pc = "idle" /\ watermark # rebuild[p].last
  /\ rebuild' = [rebuild EXCEPT ![p] =
       IF @.last = Unknown /\ watermark = 0 /\ cards = NoCards THEN Idle(0)
       ELSE At("contributions", @.last, watermark, NoFacts)]
  /\ UNCHANGED <<cards, faults>>

\* One query after the other; without contributions there is nothing to attach.
Reads(p, from, to, facts) ==
  /\ rebuild[p].pc = from
  /\ rebuild' = [rebuild EXCEPT ![p] = At(to, @.last, @.mark, facts)]
  /\ UNCHANGED <<cards, faults>>

ReadFacts(p) ==
  LET f == rebuild[p].facts
      listed == ListContributions
  IN \/ Reads(p, "contributions", IF listed.contribs = {} THEN "write" ELSE "events", listed)
     \/ Reads(p, "events", "criteria", AttachEvents(f))
     \/ Reads(p, "criteria", "steps", AttachCriteria(f))
     \/ Reads(p, "steps", "write", AttachValidationSteps(f))

\* Fault: what counts as seen is what there is when the cards are written.
MarkNow(p) == watermark

\* lastWatermark is what was read before the facts.
MarkOf(p) == rebuild[p].mark

\* ReplaceAlgorithm
Replace(p) ==
  /\ rebuild[p].pc = "write"
  /\ cards' = Score(rebuild[p].facts)
  /\ rebuild' = [rebuild EXCEPT ![p] = Idle(MarkOf(p))]
  /\ UNCHANGED faults

\* A query or the serializable transaction fails: the next tick tries again.
RebuildFails(p) ==
  /\ rebuild[p].pc # "idle" /\ faults < MaxFaults
  /\ faults' = faults + 1
  /\ rebuild' = [rebuild EXCEPT ![p] = Idle(@.last)]
  /\ UNCHANGED cards

\* The process stops and is started again.
Restart(p) ==
  /\ faults < MaxFaults
  /\ faults' = faults + 1
  /\ rebuild' = [rebuild EXCEPT ![p] = Idle(Unknown)]
  /\ UNCHANGED cards

-----------------------------------------------------------------------------
Init ==
  /\ setting \in Settings
  /\ LedgerInit
  /\ contribution = [c \in Contribs |-> "none"]
  /\ event = [c \in Contribs |-> {}]
  /\ exec = [e \in Execs |-> "open"]
  /\ watermark = 0 /\ hidden = FALSE
  /\ rebuild = [p \in Processes |-> Idle(Unknown)]
  /\ cards = NoCards
  /\ faults = 0

\* Rows of the ledger are facts; a step that ends updates its row.
LedgerStep ==
  /\ \/ RecordsFact /\ (Raised \/ (Overtaken /\ ledger # <<>>))
     \/ JobEndsSomehow /\ hidden' = TRUE /\ UNCHANGED watermark
     \/ Observes /\ UNCHANGED <<watermark, hidden>>
  /\ {j \in Jobs : job'[j].status = "terminal"} \subseteq setting.jobs
  /\ {r \in Reviews : verdicts'[r] # None} \subseteq setting.reviews
  /\ {b.by : b \in batch'} \subseteq setting.workers \cup {Service}
  /\ UNCHANGED <<contribution, event, exec, rebuild, cards, faults>>

FactStep ==
  /\ \/ \E c \in Contribs :
          \/ \E status \in {"unverified", "verified"} : Contribute(c, status)
          \/ \E o \in Outcomes, d \in Deliveries \cup {None}, v \in ObjectVersions \cup {None} :
               AppendEvent(c, o, d, v)
     \/ \E e \in Execs, delivered \in {"on_time", "failed"} : ExecutionEnds(e, delivered)
  /\ UNCHANGED <<ledgerVars, rebuild, cards, faults>>

Rebuild(p) == ReadWatermark(p) \/ ReadFacts(p) \/ Replace(p)

RebuildStep ==
  /\ \E p \in setting.processes : Rebuild(p) \/ RebuildFails(p) \/ Restart(p)
  /\ UNCHANGED <<ledgerVars, contribution, event, exec, watermark, hidden>>

Next ==
  /\ LedgerStep \/ FactStep \/ RebuildStep
  /\ UNCHANGED setting

\* The ticker of every process goes on.
TickOf(p) ==
  /\ Rebuild(p)
  /\ p \in setting.processes
  /\ UNCHANGED <<ledgerVars, contribution, event, exec, watermark, hidden, setting>>

Fairness == \A p \in Processes : WF_vars(TickOf(p))

Spec == Init /\ [][Next]_vars /\ Fairness

-----------------------------------------------------------------------------
(* What it promises *)

\* Whatever a rebuild has read in the middle of changes, a card counts only
\* contributions that are attributed, has a score only with enough of them, and
\* every verdict it credits was given: by a row of the ledger or by a step of a
\* job (ListContributionFacts, Observations).
NoUnearnedCredit ==
  \A key \in Keys : cards[key] # None =>
    LET card == cards[key]
        verified == {c \in Contribs : contribution[c] = "verified" /\ key \in KeysOf(c)}
    IN /\ card.sample <= Cardinality(verified)
       /\ card.scored => Cardinality(verified) >= MinSample
       /\ \A o \in card.seen :
            LET c == o.of[1] IN
            /\ c \in verified
            /\ o.passed /\ o.of[2] \in {"criterion", "security-criterion"} =>
                 \E i \in DOMAIN ledger :
                   /\ SourceExec[ledger[i].source] = ContribExec[c]
                   /\ ledger[i].crit = o.of[3] /\ ledger[i].passed
            /\ o.passed /\ o.of[2] = "security-step" =>
                 job[o.of[3]].results[SecurityScan] = "passed"

FactsNow ==
  AttachValidationSteps(AttachCriteria(AttachEvents(ListContributions)))

\* When everything that has happened has also moved the watermark, the cards
\* come to show it, however the rebuilds of several processes overlap, fail or
\* start over: whoever wrote an older state knows an older watermark and writes
\* again (RunOnce reads the watermark before the facts).
CardsCatchUp == []<>(hidden \/ cards = Score(FactsNow))

=============================================================================
