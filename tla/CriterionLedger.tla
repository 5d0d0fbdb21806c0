--------------------------- MODULE CriterionLedger ---------------------------
(***************************************************************************)
(* What is known about the acceptance criteria of a task: the append-only    *)
(* table execution_criterion_results, which the validation worker and the    *)
(* review service write through one recorder (contribution/application,      *)
(* contribution/postgres/criterion_repository.go, criteria/), and the        *)
(* coverage that is read from it (contribution/domain/criterion.go).         *)
(*                                                                          *)
(* The facts are recorded after the transaction they belong to: a worker     *)
(* that has marked its job as synchronised, or a request that has stored its *)
(* decision, may die before, or between, its rows, and nobody comes back.    *)
(* Two workers may hold one job when a lease has run out.                    *)
(*                                                                          *)
(* There is one public task; its executions are the attempts at it.  A job   *)
(* is its steps with what became of them, a review its verdicts; how they    *)
(* get there is the subject of ValidationPipeline and Review.  Time is the   *)
(* order of the observations.                                                *)
(***************************************************************************)
EXTENDS Integers, Sequences, FiniteSets, SequencesExt

CONSTANTS
  Execs,
  Jobs, Reviews,    \* what facts come from
  SourceExec,       \* the execution of each job and review
  Steps,            \* gitdomain.DefaultValidationSteps
  Specified,        \* acceptance_criteria of the task, in order
  Binding,          \* the step each of them is bound to, as the analysis wrote
  Critical,         \* the critical ones
  Stray,            \* a criterion the task does not have
  Workers, Service, \* validation workers, and the review service
  Said,             \* what reviewers may say: sequences of verdicts
  MaxClaims,        \* bound on the claims of jobs that have ended
  None

Criteria == ToSet(Specified)
Sources == Jobs \cup Reviews

ASSUME LedgerAssumption ==
  /\ SourceExec \in [Sources -> Execs]
  /\ Jobs \cap Reviews = {} /\ Stray \notin Criteria /\ Service \notin Workers
  /\ DOMAIN Binding = Criteria /\ None \notin Steps
  /\ Critical \subseteq Criteria
  /\ Specified \in Seq(STRING)
  /\ Said \subseteq Seq([crit : Criteria \cup {Stray}, passed : BOOLEAN]) /\ None \notin Said
  /\ MaxClaims \in Nat

VARIABLES
  published,  \* the task has a projection
  job,        \* validation_jobs with their steps
  verdicts,   \* what a decided review says
  ledger,     \* execution_criterion_results, by id
  batch,      \* outcomes that are being recorded
  clock       \* how many outcomes have been observed

ledgerVars == <<published, job, verdicts, ledger, batch, clock>>

Job == [status : {"open", "terminal"}, synced : BOOLEAN,
        results : [Steps -> {"none", "passed", "failed"}]]

\* An outcome has been observed; what it has to say is known after its
\* transaction: positions among the criteria, or among the reviewer's verdicts.
Recorder == Workers \cup {Service}
IsBatch(b) ==
  /\ b.by \in Recorder /\ b.source \in Sources /\ b.at \in Nat
  /\ b.synced \in BOOLEAN
  /\ b.todo \subseteq Nat

LedgerTypeOK ==
  /\ published \in BOOLEAN
  /\ job \in [Jobs -> Job]
  /\ verdicts \in [Reviews -> Said \cup {None}]
  /\ ledger \in Seq([source : Sources, crit : Criteria, passed : BOOLEAN, at : Nat])
  /\ \A b \in batch : IsBatch(b)
  /\ clock \in Nat

-----------------------------------------------------------------------------
(* The task's criteria *)

\* MapCriteria: a binding to a step that does not exist binds nothing.
VerifierRef(c) == IF Binding[c] \in Steps THEN Binding[c] ELSE None

\* ProjectionCriteriaSource: a task without a projection has no criteria.
CriteriaForExecution == IF published THEN Specified ELSE <<>>

Publish ==
  /\ ~ published
  /\ published' = TRUE
  /\ UNCHANGED <<job, verdicts, ledger, batch, clock>>

-----------------------------------------------------------------------------
(* Outcomes *)

\* The last step of a job is over; those that were skipped or never reached
\* have no result.
JobEnds(j, results) ==
  /\ job[j].status = "open"
  /\ job' = [job EXCEPT ![j].status = "terminal", ![j].results = results]
  /\ UNCHANGED <<published, verdicts, ledger, batch, clock>>

\* ClaimNextPending of a job that has ended: updated_at is the time its
\* outcome will count as observed.  A worker whose lease has run out meanwhile
\* goes on.
ClaimTerminal(w, j) ==
  /\ job[j].status = "terminal" /\ ~ job[j].synced
  /\ \A b \in batch : b.by # w
  /\ clock < MaxClaims + Cardinality(Reviews)
  /\ clock' = clock + 1
  /\ batch' = batch \cup {[by |-> w, source |-> j, at |-> clock', synced |-> FALSE,
                           todo |-> {}]}
  /\ UNCHANGED <<published, job, verdicts, ledger>>

\* Fault: a step that did not run counts as failed.
BoundSteps(j, c) == VerifierRef(c) # None

\* The criteria a job has something to say about.
Ran(j, c) == VerifierRef(c) # None /\ job[j].results[VerifierRef(c)] # "none"

ValidationRows(j) ==
  {i \in DOMAIN CriteriaForExecution : Ran(j, CriteriaForExecution[i])}

\* syncTerminalState: the job is marked, then its facts are worked out.
SyncTerminalState(b) ==
  /\ b.source \in Jobs /\ ~ b.synced
  /\ job' = [job EXCEPT ![b.source].synced = TRUE]
  /\ batch' = (batch \ {b}) \cup
                {[b EXCEPT !.synced = TRUE, !.todo = ValidationRows(b.source)]}
  /\ UNCHANGED <<published, verdicts, ledger, clock>>

\* Verdicts on criteria the task does not have are dropped.
ReviewRows(said) ==
  {i \in DOMAIN said : said[i].crit \in ToSet(CriteriaForExecution)}

\* SubmitDecision.  A repeated request is answered from its record and records
\* nothing.
Decide(r, said) ==
  /\ verdicts[r] = None
  /\ verdicts' = [verdicts EXCEPT ![r] = said]
  /\ clock' = clock + 1
  /\ batch' = batch \cup {[by |-> Service, source |-> r, at |-> clock', synced |-> TRUE,
                           todo |-> ReviewRows(said)]}
  /\ UNCHANGED <<published, job, ledger>>

-----------------------------------------------------------------------------
(* The recorder *)

RowsOf(source, c) == {i \in DOMAIN ledger : ledger[i].source = source /\ ledger[i].crit = c}

\* What a source says about a criterion: what a step came to and what a reviewer
\* decided is not written again.
Verdict(source, i) ==
  IF source \in Reviews THEN verdicts[source][i]
  ELSE [crit   |-> Specified[i],
        passed |-> job[source].results[VerifierRef(Specified[i])] = "passed"]

First(todo) == CHOOSE i \in todo : \A k \in todo : i <= k

\* The row of b that comes next, and b without it.
NextRow(b) ==
  LET said == Verdict(b.source, First(b.todo)) IN
  [source |-> b.source, crit |-> said.crit, passed |-> said.passed, at |-> b.at]
Rest(b) == [b EXCEPT !.todo = @ \ {First(@)}]

\* Record: a first row of its source and criterion is inserted.
RecordRow(b) ==
  /\ b.synced /\ b.todo # {}
  /\ RowsOf(b.source, NextRow(b).crit) = {}
  /\ ledger' = Append(ledger, NextRow(b))
  /\ batch' = (batch \ {b}) \cup {Rest(b)}
  /\ UNCHANGED <<published, job, verdicts, clock>>

\* The same fact again changes nothing.
Replay(b) ==
  /\ b.synced /\ b.todo # {}
  /\ \E i \in DOMAIN ledger : ledger[i] = NextRow(b)
  /\ batch' = (batch \ {b}) \cup {Rest(b)}
  /\ UNCHANGED <<published, job, verdicts, ledger, clock>>

\* Everything is recorded; another verdict or time of the same source is a
\* conflict, which ends the batch and leaves what it recorded; or the process
\* dies.
BatchEnds(b) ==
  /\ batch' = batch \ {b}
  /\ UNCHANGED <<published, job, verdicts, ledger, clock>>

-----------------------------------------------------------------------------
(* The coverage *)

\* Fault: the row recorded last.
LastRow(rows) == CHOOSE i \in rows : \A k \in rows : k <= i

\* execution_criterion_latest: ORDER BY observed_at DESC, id DESC
LatestRow(rows) ==
  CHOOSE i \in rows : \A k \in rows :
    ledger[k].at < ledger[i].at \/ (ledger[k].at = ledger[i].at /\ k <= i)

Recorded(e, c) ==
  {i \in DOMAIN ledger : SourceExec[ledger[i].source] = e /\ ledger[i].crit = c}

\* SummarizeCriteria
Status(e, c) ==
  IF Recorded(e, c) = {} THEN "unverified"
  ELSE IF ledger[LatestRow(Recorded(e, c))].passed THEN "passed" ELSE "failed"

\* A task without critical criteria passes nothing.
AllRequiredPassed(e) ==
  LET required == Critical \cap ToSet(CriteriaForExecution) IN
  required # {} /\ \A c \in required : Status(e, c) = "passed"

-----------------------------------------------------------------------------
LedgerInit ==
  /\ published \in BOOLEAN
  /\ job = [j \in Jobs |-> [status |-> "open", synced |-> FALSE,
                            results |-> [s \in Steps |-> "none"]]]
  /\ verdicts = [r \in Reviews |-> None]
  /\ ledger = <<>>
  /\ batch = {}
  /\ clock = 0

JobEndsSomehow == \E j \in Jobs, results \in [Steps -> {"none", "passed", "failed"}] :
                    JobEnds(j, results)

RecordsFact == \E b \in batch : RecordRow(b)

Observes ==
  \/ Publish
  \/ \E w \in Workers, j \in Jobs : ClaimTerminal(w, j)
  \/ \E r \in Reviews, said \in Said : Decide(r, said)
  \/ \E b \in batch : SyncTerminalState(b) \/ Replay(b) \/ BatchEnds(b)

-----------------------------------------------------------------------------
(* What it promises *)

\* However often a job is synchronised and in whatever order the rows arrive,
\* a source has one verdict on a criterion, the one it came to: a step that was
\* skipped or never reached, or a binding to no step, says nothing
\* (RecordValidationOutcome, RecordReviewOutcome).  And the gate of the reward
\* opens only when every critical criterion has passed somewhere.
VerdictsHaveEvidence ==
  /\ \A i \in DOMAIN ledger :
       LET row == ledger[i] IN
       /\ RowsOf(row.source, row.crit) = {i}
       /\ row.source \in Jobs =>
            /\ Binding[row.crit] \in Steps
            /\ job[row.source].results[Binding[row.crit]] =
                 IF row.passed THEN "passed" ELSE "failed"
       /\ row.source \in Reviews =>
            [crit |-> row.crit, passed |-> row.passed] \in ToSet(verdicts[row.source])
  /\ \A e \in Execs : AllRequiredPassed(e) =>
       \A c \in Critical : \E i \in DOMAIN ledger :
         SourceExec[ledger[i].source] = e /\ ledger[i].crit = c /\ ledger[i].passed

\* A reviewer who decided after the validation was observed has the last word,
\* even when the rows of the validation arrive after his (the view
\* execution_criterion_latest).
ManualConclusionStands ==
  \A i \in DOMAIN ledger :
    LET row == ledger[i]
        e == SourceExec[row.source]
    IN /\ row.source \in Reviews
       /\ \A k \in Recorded(e, row.crit) : k # i => ledger[k].at < row.at
       => Status(e, row.crit) = IF row.passed THEN "passed" ELSE "failed"

=============================================================================
