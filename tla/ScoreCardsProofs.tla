--------------------------- MODULE ScoreCardsProofs ---------------------------
(* Proofs about CriterionLedger and ScoreCards: every verdict on record has   *)
(* its evidence, a reviewer has the last word, and no card credits what       *)
(* nobody found, for any number of jobs, reviews, workers, contributions and  *)
(* rebuilding processes.                                                      *)
EXTENDS ScoreCards, WellFoundedInduction, FiniteSetTheorems, TLAPS

Row == [source : Sources, crit : Criteria, passed : BOOLEAN, at : Nat]

BatchRow == [by : Recorder, source : Sources, at : Nat, synced : BOOLEAN, todo : SUBSET Nat]

-----------------------------------------------------------------------------
(* The ledger.                                                               *)

\* Whether a source came to a verdict, for good: its job is over, its review
\* decided.
SaidSo(source, crit, passed) ==
  /\ source \in Jobs =>
       /\ job[source].status = "terminal"
       /\ Binding[crit] \in Steps
       /\ job[source].results[Binding[crit]] = IF passed THEN "passed" ELSE "failed"
  /\ source \in Reviews =>
       /\ verdicts[source] # None
       /\ \E n \in DOMAIN verdicts[source] :
            verdicts[source][n].crit = crit /\ verdicts[source][n].passed = passed

LedgerTypes ==
  /\ job \in [Jobs -> Job]
  /\ verdicts \in [Reviews -> Said \cup {None}]
  /\ ledger \in Seq(Row)
  /\ batch \subseteq BatchRow
  /\ clock \in Nat

\* A step has a result once its job is over.
JobsOpen == \A j \in Jobs : job[j].status = "open" =>
              \A s \in Steps : job[j].results[s] = "none"

\* What is being recorded are the verdicts of its source.
BatchFits(b) ==
  /\ b.at <= clock
  /\ b.source \in Jobs => job[b.source].status = "terminal"
  /\ \A i \in b.todo :
       /\ b.source \in Jobs => i \in DOMAIN Specified /\ Ran(b.source, Specified[i])
       /\ b.source \in Reviews =>
            /\ verdicts[b.source] # None /\ i \in DOMAIN verdicts[b.source]
            /\ verdicts[b.source][i].crit \in Criteria

RowFits(i) ==
  /\ RowsOf(ledger[i].source, ledger[i].crit) = {i}
  /\ SaidSo(ledger[i].source, ledger[i].crit, ledger[i].passed)
  /\ ledger[i].at <= clock

LedgerInv ==
  /\ LedgerTypes /\ JobsOpen
  /\ \A b \in batch : BatchFits(b)
  /\ \A i \in DOMAIN ledger : RowFits(i)

-----------------------------------------------------------------------------
(* The cards.                                                                *)

Verified == {c \in Contribs : contribution[c] = "verified"}

\* Evidence, as long as it is there.
PassedRow(e, k) ==
  \E i \in DOMAIN ledger :
    SourceExec[ledger[i].source] = e /\ ledger[i].crit = k /\ ledger[i].passed

PassedScan(j) == j \in Jobs /\ job[j].results[SecurityScan] = "passed"

\* What a process is at, and what it has read so far.
IsRebuild(r) ==
  /\ r.facts \in [contribs : {r.facts.contribs}, exec : {r.facts.exec},
                  outcomes : {r.facts.outcomes}, verdict : {r.facts.verdict},
                  scan : {r.facts.scan}]
  /\ r.pc = "idle" => r.facts = NoFacts

FactsFit(pc, f) ==
  /\ f.contribs \subseteq Verified
  /\ pc \in {"steps", "write"} =>
       \A c \in f.contribs : \A k \in DOMAIN f.verdict[c] :
         f.verdict[c][k] => PassedRow(ContribExec[c], k)
  /\ pc = "write" =>
       \A c \in f.contribs : \A x \in f.scan[c] : x[2] => PassedScan(x[1])

\* What a card credits.
CardFits(key, card) ==
  LET verified == {c \in Verified : key \in KeysOf(c)} IN
  /\ card.sample <= Cardinality(verified)
  /\ card.scored => Cardinality(verified) >= MinSample
  /\ card.sample \in Nat
  /\ \A o \in card.seen :
       LET c == o.of[1] IN
       /\ c \in verified
       /\ o.passed /\ o.of[2] \in {"criterion", "security-criterion"} =>
            PassedRow(ContribExec[c], o.of[3])
       /\ o.passed /\ o.of[2] = "security-step" => PassedScan(o.of[3])

CardsInv ==
  /\ LedgerInv
  /\ setting \in Settings
  /\ contribution \in [Contribs -> {"none", "unverified", "verified"}]
  /\ rebuild = [p \in Processes |-> rebuild[p]]
  /\ \A p \in Processes :
       IsRebuild(rebuild[p]) /\ FactsFit(rebuild[p].pc, rebuild[p].facts)
  /\ \A key \in Keys : cards[key] # None => CardFits(key, cards[key])

-----------------------------------------------------------------------------
(* Numbers.                                                                  *)

\* The order of the natural numbers, as the library's theorem wants it.
LEMMA LessThan == \E R : IsWellFoundedOn(R, Nat) /\ \A x, y \in Nat : <<y, x>> \in R <=> y < x
<1>1. PICK R : R = OpToRel(<, Nat)
  OBVIOUS
<1>2. IsWellFoundedOn(R, Nat)
  BY <1>1, NatLessThanWellFounded
<1>3. \A x, y \in Nat : <<y, x>> \in R <=> y < x
  BY <1>1 DEF OpToRel
<1> QED
  BY <1>2, <1>3

\* The smallest and the largest of some numbers.
LEMMA Smallest == ASSUME NEW T \in SUBSET Nat, T # {} PROVE \E x \in T : \A y \in T : x <= y
<1>1. PICK R : IsWellFoundedOn(R, Nat) /\ \A x, y \in Nat : <<y, x>> \in R <=> y < x
  BY LessThan
<1>2. \E x \in T : \A y \in T : ~ (<<y, x>> \in R)
  BY <1>1, WFMin
<1>3. \A x, y \in Nat : ~ (y < x) => x <= y
  OBVIOUS
<1> QED
  BY <1>1, <1>2, <1>3

\* A bounded set of numbers has a greatest one.
LEMMA Largest ==
  ASSUME NEW T \in SUBSET Nat, T # {}, NEW n \in Nat, \A x \in T : x <= n
  PROVE  \E x \in T : \A y \in T : y <= x
<1> DEFINE S == {n - x : x \in T}
<1>1. S \in SUBSET Nat /\ S # {}
  <2>1. \A x \in T : n - x \in Nat
    OBVIOUS
  <2> QED
    BY <2>1
<1>2. PICK s \in S : \A r \in S : s <= r
  BY <1>1, Smallest
<1>3. PICK x \in T : s = n - x
  OBVIOUS
<1>4. ASSUME NEW y \in T PROVE y <= x
  <2>1. n - y \in S
    OBVIOUS
  <2>2. n - x <= n - y
    BY <1>2, <1>3, <2>1
  <2> QED
    BY <2>2
<1> QED
  BY <1>4

\* The first position of those that are left.
LEMMA FirstIsIn == ASSUME NEW T \in SUBSET Nat, T # {} PROVE First(T) \in T
<1>1. \E x \in T : \A y \in T : x <= y
  BY Smallest
<1> QED
  BY <1>1 DEF First

-----------------------------------------------------------------------------
(* The latest row.                                                           *)

\* Of some rows one is the latest.
LEMMA LatestExists ==
  ASSUME LedgerInv, NEW rows \in SUBSET DOMAIN ledger, rows # {}
  PROVE  /\ LatestRow(rows) \in rows
         /\ \A k \in rows : \/ ledger[k].at < ledger[LatestRow(rows)].at
                            \/ /\ ledger[k].at = ledger[LatestRow(rows)].at
                               /\ k <= LatestRow(rows)
<1> DEFINE T == {ledger[i].at : i \in rows}
<1>1. /\ DOMAIN ledger = 1 .. Len(ledger) /\ Len(ledger) \in Nat /\ clock \in Nat
      /\ \A i \in DOMAIN ledger : ledger[i] \in Row /\ ledger[i].at <= clock
  BY DEF LedgerInv, LedgerTypes, RowFits
<1>2. \A i \in rows : i \in Nat /\ i <= Len(ledger) /\ ledger[i].at \in Nat /\ ledger[i].at <= clock
  BY <1>1 DEF Row
<1>3. T \in SUBSET Nat /\ T # {} /\ \A x \in T : x <= clock
  BY <1>2
<1>4. PICK t \in T : \A y \in T : y <= t
  BY <1>1, <1>3, Largest
<1>5. \A i \in rows : ledger[i].at <= t
  BY <1>4
<1> DEFINE U == {i \in rows : ledger[i].at = t}
<1>6. U \in SUBSET Nat /\ U # {} /\ \A x \in U : x <= Len(ledger)
  BY <1>2
<1>7. PICK i \in U : \A k \in U : k <= i
  BY <1>1, <1>6, Largest
<1>8. i \in rows /\ ledger[i].at = t
  OBVIOUS
<1>9. ASSUME NEW k \in rows
      PROVE  ledger[k].at < ledger[i].at \/ (ledger[k].at = ledger[i].at /\ k <= i)
  <2>1. CASE ledger[k].at = t
    <3>1. k \in U
      BY <2>1
    <3> QED
      BY <1>7, <1>8, <2>1, <3>1
  <2>2. CASE ledger[k].at # t
    <3>1. ledger[k].at <= t /\ ledger[k].at \in Nat /\ t \in Nat
      BY <1>2, <1>3, <1>5
    <3> QED
      BY <1>8, <2>2, <3>1
  <2> QED
    BY <2>1, <2>2
<1>10. \E x \in rows : \A k \in rows :
         ledger[k].at < ledger[x].at \/ (ledger[k].at = ledger[x].at /\ k <= x)
  BY <1>8, <1>9
<1> QED
  BY <1>10 DEF LatestRow

\* A criterion that counts as passed was passed by somebody.
LEMMA PassedHasRow ==
  ASSUME LedgerInv, NEW e, NEW c, Status(e, c) = "passed"
  PROVE  PassedRow(e, c)
<1> DEFINE R == Recorded(e, c)
<1>1. R \in SUBSET DOMAIN ledger
  BY DEF Recorded
<1>2. R # {} /\ ledger[LatestRow(R)].passed
  BY DEF Status
<1>3. LatestRow(R) \in R
  BY <1>1, <1>2, LatestExists
<1> QED
  BY <1>2, <1>3 DEF Recorded, PassedRow

-----------------------------------------------------------------------------
(* What the ledger promises.                                                 *)

\* Rows that fit are evidence.
LEMMA InvGivesEvidence == LedgerInv => VerdictsHaveEvidence
<1> SUFFICES ASSUME LedgerInv PROVE VerdictsHaveEvidence
  OBVIOUS
<1>1. ASSUME NEW i \in DOMAIN ledger
      PROVE  /\ RowsOf(ledger[i].source, ledger[i].crit) = {i}
             /\ ledger[i].source \in Jobs =>
                  /\ Binding[ledger[i].crit] \in Steps
                  /\ job[ledger[i].source].results[Binding[ledger[i].crit]] =
                       IF ledger[i].passed THEN "passed" ELSE "failed"
             /\ ledger[i].source \in Reviews =>
                  [crit |-> ledger[i].crit, passed |-> ledger[i].passed]
                    \in ToSet(verdicts[ledger[i].source])
  <2>1. RowFits(i)
    BY DEF LedgerInv
  <2>2. PICK s, c, p : s = ledger[i].source /\ c = ledger[i].crit /\ p = ledger[i].passed
    OBVIOUS
  <2>3. ASSUME s \in Reviews PROVE [crit |-> c, passed |-> p] \in ToSet(verdicts[s])
    <3>1. PICK n \in DOMAIN verdicts[s] : verdicts[s][n].crit = c /\ verdicts[s][n].passed = p
      BY <2>1, <2>2, <2>3 DEF RowFits, SaidSo
    <3>2. verdicts[s] \in Seq([crit : Criteria \cup {Stray}, passed : BOOLEAN])
      BY <2>1, <2>2, <2>3, LedgerAssumption DEF RowFits, SaidSo, LedgerInv, LedgerTypes
    <3>3. verdicts[s][n] \in [crit : Criteria \cup {Stray}, passed : BOOLEAN]
      <4> DEFINE X == [crit : Criteria \cup {Stray}, passed : BOOLEAN]
      <4>1. PICK q : q = verdicts[s]
        OBVIOUS
      <4>2. q \in Seq(X) /\ n \in DOMAIN q
        BY <3>1, <3>2, <4>1
      <4>3. q[n] \in X
        <5> HIDE DEF X
        <5> QED
          BY <4>2
      <4> QED
        BY <4>1, <4>3
    <3>4. verdicts[s][n] = [crit |-> c, passed |-> p]
      BY <3>1, <3>3
    <3> QED
      BY <3>1, <3>4 DEF ToSet
  <2> QED
    BY <2>1, <2>2, <2>3 DEF RowFits, SaidSo
<1>2. ASSUME NEW e \in Execs, AllRequiredPassed(e), NEW c \in Critical
      PROVE  PassedRow(e, c)
  <2>1. CriteriaForExecution = Specified
    BY <1>2 DEF AllRequiredPassed, CriteriaForExecution, ToSet
  <2>2. c \in ToSet(Specified)
    BY LedgerAssumption DEF Criteria
  <2>3. Status(e, c) = "passed"
    BY <1>2, <2>1, <2>2 DEF AllRequiredPassed
  <2> QED
    BY <2>3, PassedHasRow
<1> QED
  BY <1>1, <1>2 DEF VerdictsHaveEvidence, PassedRow

\* The row of the reviewer who decided last is the latest.
LEMMA LastWord == LedgerInv => ManualConclusionStands
<1> SUFFICES ASSUME LedgerInv, NEW i \in DOMAIN ledger, NEW e, NEW c,
                    e = SourceExec[ledger[i].source], c = ledger[i].crit,
                    \A k \in Recorded(e, c) : k # i => ledger[k].at < ledger[i].at
             PROVE  Status(e, c) = IF ledger[i].passed THEN "passed" ELSE "failed"
  BY DEF ManualConclusionStands
<1> DEFINE R == Recorded(e, c)
<1>1. i \in R /\ R \in SUBSET DOMAIN ledger
  BY DEF Recorded
<1>2. /\ LatestRow(R) \in R
      /\ \A k \in R : \/ ledger[k].at < ledger[LatestRow(R)].at
                      \/ ledger[k].at = ledger[LatestRow(R)].at /\ k <= LatestRow(R)
  BY <1>1, LatestExists
<1>3. \A k \in R : ledger[k].at \in Nat
  <2>1. \A k \in DOMAIN ledger : ledger[k] \in Row
    BY DEF LedgerInv, LedgerTypes
  <2> QED
    BY <1>1, <2>1 DEF Row
<1>4. LatestRow(R) = i
  BY <1>1, <1>2, <1>3
<1> QED
  BY <1>1, <1>4 DEF Status

-----------------------------------------------------------------------------
(* The steps of the ledger.                                                  *)

\* What is over stays as it is.
Stays ==
  /\ \A j \in Jobs : job[j].status = "terminal" =>
       job'[j].status = "terminal" /\ job'[j].results = job[j].results
  /\ \A r \in Reviews : verdicts[r] # None => verdicts'[r] = verdicts[r]
  /\ clock <= clock'

\* What is being recorded still fits.
LEMMA BatchStays == ASSUME LedgerInv, Stays, LedgerTypes', NEW b \in batch PROVE BatchFits(b)'
<1>1. PICK q : q = b
  OBVIOUS
<1>2. BatchFits(q) /\ q \in BatchRow
  BY <1>1 DEF LedgerInv, LedgerTypes
<1>3. q.at <= clock'
  BY <1>2 DEF BatchFits, BatchRow, Stays, LedgerInv, LedgerTypes
<1>4. BatchFits(q)'
  BY <1>2, <1>3 DEF BatchFits, Stays, Ran
<1> QED
  BY <1>1, <1>4

\* A verdict that a source came to is its verdict for good.
LEMMA SaidSoStays ==
  ASSUME Stays, NEW s, NEW c, NEW p, SaidSo(s, c, p) PROVE SaidSo(s, c, p)'
  BY DEF SaidSo, Stays

\* A step that records nothing.
LEMMA NoRowYet ==
  ASSUME LedgerInv, LedgerTypes', JobsOpen', Stays, UNCHANGED ledger,
         \A b \in batch' : b \in batch \/ BatchFits(b)'
  PROVE  LedgerInv'
<1>1. ASSUME NEW b \in batch' PROVE BatchFits(b)'
  BY <1>1, BatchStays
<1>2. ASSUME NEW i \in DOMAIN ledger PROVE RowFits(i)'
  <2>1. PICK s, c, p, n : s = ledger[i].source /\ c = ledger[i].crit
                          /\ p = ledger[i].passed /\ n = ledger[i].at
    OBVIOUS
  <2>2. SaidSo(s, c, p) /\ n <= clock /\ RowsOf(s, c) = {i}
    BY <2>1 DEF LedgerInv, RowFits
  <2>3. SaidSo(s, c, p)' /\ RowsOf(s, c)' = {i}
    BY <2>2, SaidSoStays DEF RowsOf
  <2>4. n <= clock'
    <3>1. ledger[i] \in Row /\ clock \in Nat /\ clock' \in Nat /\ clock <= clock'
      BY DEF LedgerInv, LedgerTypes, Stays
    <3> QED
      BY <2>1, <2>2, <3>1 DEF Row
  <2> QED
    BY <2>1, <2>3, <2>4 DEF RowFits
<1> QED
  BY <1>1, <1>2 DEF LedgerInv

\* A step that leaves jobs and verdicts alone.
LEMMA Nothing ==
  ASSUME LedgerInv, UNCHANGED <<job, verdicts, clock>>
  PROVE  Stays /\ JobsOpen'
  BY DEF Stays, LedgerInv, LedgerTypes, JobsOpen

\* The task gets a projection.
LEMMA PublishStep == ASSUME LedgerInv, Publish PROVE LedgerInv' /\ Stays
<1>1. UNCHANGED <<job, verdicts, ledger, batch, clock>>
  BY DEF Publish
<1> QED
  BY <1>1, Nothing, NoRowYet DEF LedgerInv, LedgerTypes

\* A batch ends, or its process dies.
LEMMA BatchEndsStep ==
  ASSUME LedgerInv, NEW b \in batch, BatchEnds(b) PROVE LedgerInv' /\ Stays
<1>1. UNCHANGED <<job, verdicts, ledger, clock>> /\ batch' \subseteq batch
  BY DEF BatchEnds
<1>2. LedgerTypes'
  BY <1>1 DEF LedgerInv, LedgerTypes
<1> QED
  BY <1>1, <1>2, Nothing, NoRowYet

\* A job ends.
LEMMA JobEndsStep ==
  ASSUME LedgerInv, NEW j \in Jobs, NEW results \in [Steps -> {"none", "passed", "failed"}],
         JobEnds(j, results)
  PROVE  LedgerInv' /\ Stays
<1>1. /\ job[j].status = "open"
      /\ job' = [job EXCEPT ![j].status = "terminal", ![j].results = results]
      /\ UNCHANGED <<verdicts, ledger, batch, clock>>
  BY DEF JobEnds
<1>2. job \in [Jobs -> Job] /\ job[j] \in Job
  BY DEF LedgerInv, LedgerTypes
<1>3. PICK r : r = [job[j] EXCEPT !.status = "terminal", !.results = results]
  OBVIOUS
<1>4. r \in Job /\ r.status = "terminal"
  BY <1>2, <1>3 DEF Job
<1>5. job' = [job EXCEPT ![j] = r]
  BY <1>1, <1>2, <1>3
<1>6. job' \in [Jobs -> Job] /\ job'[j] = r /\ \A k \in Jobs \ {j} : job'[k] = job[k]
  BY <1>2, <1>4, <1>5
<1>7. Stays /\ JobsOpen' /\ LedgerTypes'
  BY <1>1, <1>4, <1>6 DEF Stays, LedgerInv, LedgerTypes, JobsOpen
<1> QED
  BY <1>1, <1>7, NoRowYet

\* A job that has ended is claimed.
LEMMA ClaimTerminalStep ==
  ASSUME LedgerInv, NEW w \in Workers, NEW j \in Jobs, ClaimTerminal(w, j)
  PROVE  LedgerInv' /\ Stays
<1>1. PICK b : b = [by |-> w, source |-> j, at |-> clock', synced |-> FALSE, todo |-> {}]
  OBVIOUS
<1>2. /\ job[j].status = "terminal" /\ clock' = clock + 1 /\ batch' = batch \cup {b}
      /\ UNCHANGED <<job, verdicts, ledger>>
  BY <1>1 DEF ClaimTerminal
<1>3. clock \in Nat /\ clock' \in Nat
  BY <1>2 DEF LedgerInv, LedgerTypes
<1>4. b \in BatchRow
  BY <1>1, <1>3 DEF BatchRow, Recorder, Sources
<1>5. Stays /\ JobsOpen' /\ LedgerTypes'
  BY <1>2, <1>3, <1>4 DEF Stays, LedgerInv, LedgerTypes, JobsOpen
<1>6. BatchFits(b)'
  BY <1>1, <1>2, <1>3, LedgerAssumption DEF BatchFits
<1> QED
  BY <1>2, <1>5, <1>6, NoRowYet

\* A reviewer decides.
LEMMA DecideStep ==
  ASSUME LedgerInv, NEW r \in Reviews, NEW said \in Said, Decide(r, said)
  PROVE  LedgerInv' /\ Stays
<1>1. PICK b : b = [by |-> Service, source |-> r, at |-> clock', synced |-> TRUE,
                    todo |-> ReviewRows(said)]
  OBVIOUS
<1>2. /\ verdicts[r] = None /\ verdicts' = [verdicts EXCEPT ![r] = said]
      /\ clock' = clock + 1 /\ batch' = batch \cup {b} /\ UNCHANGED <<job, ledger>>
  BY <1>1 DEF Decide
<1>3. clock \in Nat /\ clock' \in Nat /\ verdicts \in [Reviews -> Said \cup {None}]
  BY <1>2 DEF LedgerInv, LedgerTypes
<1>4. said # None /\ said \in Seq([crit : Criteria \cup {Stray}, passed : BOOLEAN])
  BY LedgerAssumption
<1>5. DOMAIN said \subseteq Nat
  BY <1>4
<1>6. /\ ReviewRows(said) \subseteq DOMAIN said
      /\ \A i \in ReviewRows(said) : said[i].crit \in Criteria
  BY DEF ReviewRows, CriteriaForExecution, Criteria, ToSet
<1>7. b \in BatchRow
  BY <1>1, <1>3, <1>5, <1>6 DEF BatchRow, Recorder, Sources
<1>8. verdicts' \in [Reviews -> Said \cup {None}] /\ verdicts'[r] = said
  BY <1>2, <1>3
<1>9. Stays /\ JobsOpen' /\ LedgerTypes'
  BY <1>2, <1>3, <1>7, <1>8 DEF Stays, LedgerInv, LedgerTypes, JobsOpen
<1>10. BatchFits(b)'
  BY <1>1, <1>3, <1>4, <1>6, <1>8, LedgerAssumption DEF BatchFits
<1> QED
  BY <1>2, <1>9, <1>10, NoRowYet

\* The facts of a job are worked out.
LEMMA SyncStep ==
  ASSUME LedgerInv, NEW b \in batch, SyncTerminalState(b) PROVE LedgerInv' /\ Stays
<1>1. PICK j, q : j = b.source /\ q = [b EXCEPT !.synced = TRUE, !.todo = ValidationRows(j)]
  OBVIOUS
<1>2. /\ j \in Jobs /\ job' = [job EXCEPT ![j].synced = TRUE]
      /\ batch' = (batch \ {b}) \cup {q} /\ UNCHANGED <<verdicts, ledger, clock>>
  BY <1>1 DEF SyncTerminalState
<1>3. job \in [Jobs -> Job] /\ job[j] \in Job /\ b \in BatchRow /\ BatchFits(b)
  BY <1>2 DEF LedgerInv, LedgerTypes
<1>4. PICK r : r = [job[j] EXCEPT !.synced = TRUE]
  OBVIOUS
<1>5. r \in Job /\ r.status = job[j].status /\ r.results = job[j].results
  BY <1>3, <1>4 DEF Job
<1>6. job' = [job EXCEPT ![j] = r]
  BY <1>2, <1>4
<1>7. job' \in [Jobs -> Job] /\ job'[j] = r /\ \A k \in Jobs \ {j} : job'[k] = job[k]
  BY <1>2, <1>3, <1>5, <1>6
<1>8. /\ ValidationRows(j) \subseteq DOMAIN Specified /\ DOMAIN Specified \subseteq Nat
      /\ \A i \in ValidationRows(j) : Ran(j, Specified[i])
  BY LedgerAssumption DEF ValidationRows, CriteriaForExecution
<1>9. q \in BatchRow /\ q.source = j /\ q.todo = ValidationRows(j) /\ q.at = b.at
  BY <1>1, <1>3, <1>8 DEF BatchRow
<1>10. Stays /\ JobsOpen' /\ LedgerTypes'
  <2>1. Stays /\ JobsOpen'
    BY <1>2, <1>5, <1>7 DEF Stays, LedgerInv, LedgerTypes, JobsOpen
  <2> QED
    BY <1>2, <1>7, <1>9, <2>1 DEF LedgerInv, LedgerTypes
<1>11. BatchFits(q)'
  BY <1>1, <1>2, <1>3, <1>5, <1>7, <1>8, <1>9, LedgerAssumption DEF BatchFits, Ran
<1> QED
  BY <1>2, <1>10, <1>11, NoRowYet

\* What is recorded next is what its source said.
LEMMA NextFits ==
  ASSUME LedgerInv, NEW b \in batch, b.todo # {}
  PROVE  /\ NextRow(b) \in Row /\ NextRow(b).source = b.source /\ NextRow(b).at = b.at
         /\ SaidSo(b.source, NextRow(b).crit, NextRow(b).passed)
<1>1. b \in BatchRow /\ BatchFits(b)
  BY DEF LedgerInv, LedgerTypes
<1>2. PICK i, s : i = First(b.todo) /\ s = b.source
  OBVIOUS
<1>3. i \in b.todo
  BY <1>1, <1>2, FirstIsIn DEF BatchRow
<1>4. PICK v : v = Verdict(s, i)
  OBVIOUS
<1>5. NextRow(b) = [source |-> s, crit |-> v.crit, passed |-> v.passed, at |-> b.at]
  BY <1>2, <1>4 DEF NextRow
<1>6. s \in Sources /\ b.at \in Nat
  BY <1>1, <1>2 DEF BatchRow
<1>7. v.crit \in Criteria /\ v.passed \in BOOLEAN /\ SaidSo(s, v.crit, v.passed)
  <2>1. CASE s \in Reviews
    <3>1. /\ v = verdicts[s][i] /\ verdicts[s] # None /\ i \in DOMAIN verdicts[s]
          /\ v.crit \in Criteria
      BY <1>1, <1>2, <1>3, <1>4, <2>1 DEF Verdict, BatchFits
    <3>2. v.passed \in BOOLEAN
      <4> DEFINE X == [crit : Criteria \cup {Stray}, passed : BOOLEAN]
      <4>1. PICK q : q = verdicts[s]
        OBVIOUS
      <4>2. q \in Seq(X) /\ i \in DOMAIN q /\ v = q[i]
        BY <2>1, <3>1, <4>1, LedgerAssumption DEF LedgerInv, LedgerTypes
      <4>3. v \in X
        <5> HIDE DEF X
        <5> QED
          BY <4>2
      <4> QED
        BY <4>3
    <3>3. s \notin Jobs
      BY <2>1, LedgerAssumption
    <3> QED
      BY <2>1, <3>1, <3>2, <3>3 DEF SaidSo
  <2>2. CASE s \in Jobs
    <3>1. s \notin Reviews
      BY <2>2, LedgerAssumption
    <3>2. i \in DOMAIN Specified /\ Ran(s, Specified[i]) /\ job[s].status = "terminal"
      BY <1>1, <1>2, <1>3, <2>2 DEF BatchFits
    <3>3. /\ v.crit = Specified[i]
          /\ v.passed = (job[s].results[VerifierRef(Specified[i])] = "passed")
      BY <1>4, <3>1 DEF Verdict
    <3>4. v.crit \in Criteria
      BY <3>2, <3>3 DEF Criteria, ToSet
    <3>5. Binding[v.crit] \in Steps /\ VerifierRef(v.crit) = Binding[v.crit]
      BY <3>2, <3>3 DEF Ran, VerifierRef
    <3>6. job[s].results[Binding[v.crit]] \in {"passed", "failed"}
      <4>1. job[s].results \in [Steps -> {"none", "passed", "failed"}]
        BY <2>2 DEF LedgerInv, LedgerTypes, Job
      <4>2. job[s].results[Binding[v.crit]] # "none"
        BY <3>2, <3>3, <3>5 DEF Ran
      <4> QED
        BY <3>5, <4>1, <4>2
    <3>7. v.passed \in BOOLEAN /\ job[s].results[Binding[v.crit]] = IF v.passed THEN "passed" ELSE "failed"
      BY <3>3, <3>5, <3>6
    <3> QED
      BY <2>2, <3>1, <3>2, <3>4, <3>5, <3>7 DEF SaidSo
  <2> QED
    BY <1>6, <2>1, <2>2 DEF Sources
<1> QED
  BY <1>2, <1>5, <1>6, <1>7 DEF Row

\* The rest of a batch.
LEMMA RestFits ==
  ASSUME LedgerInv, NEW b \in batch
  PROVE  Rest(b) \in BatchRow /\ BatchFits(Rest(b))
<1>1. b \in BatchRow /\ BatchFits(b)
  BY DEF LedgerInv, LedgerTypes
<1>2. PICK T : T = b.todo \ {First(b.todo)}
  OBVIOUS
<1>3. T \in SUBSET Nat /\ T \subseteq b.todo
  BY <1>1, <1>2 DEF BatchRow
<1>4. Rest(b) = [b EXCEPT !.todo = T]
  BY <1>2 DEF Rest
<1>5. /\ Rest(b) \in BatchRow /\ Rest(b).source = b.source /\ Rest(b).at = b.at
      /\ Rest(b).todo = T
  BY <1>1, <1>3, <1>4 DEF BatchRow
<1> QED
  BY <1>1, <1>3, <1>5 DEF BatchFits

\* A fact that is there is met again.
LEMMA ReplayStep == ASSUME LedgerInv, NEW b \in batch, Replay(b) PROVE LedgerInv' /\ Stays
<1>1. PICK q : q = Rest(b)
  OBVIOUS
<1>2. UNCHANGED <<job, verdicts, ledger, clock>> /\ batch' = (batch \ {b}) \cup {q}
  BY <1>1 DEF Replay
<1>3. q \in BatchRow /\ BatchFits(q)
  BY <1>1, RestFits
<1>4. LedgerTypes' /\ BatchFits(q)'
  BY <1>2, <1>3 DEF LedgerInv, LedgerTypes, BatchFits, Ran
<1> QED
  BY <1>2, <1>4, Nothing, NoRowYet

\* A row is recorded.
LEMMA RecordRowStep ==
  ASSUME LedgerInv, NEW b \in batch, RecordRow(b)
  PROVE  /\ LedgerInv' /\ Stays
         /\ \A i \in DOMAIN ledger : i \in DOMAIN ledger' /\ ledger'[i] = ledger[i]
<1>1. PICK q, row : q = Rest(b) /\ row = NextRow(b)
  OBVIOUS
<1>2. /\ b.todo # {} /\ RowsOf(b.source, row.crit) = {} /\ ledger' = Append(ledger, row)
      /\ batch' = (batch \ {b}) \cup {q} /\ UNCHANGED <<job, verdicts, clock>>
  BY <1>1 DEF RecordRow
<1>3. q \in BatchRow /\ BatchFits(q)
  BY <1>1, RestFits
<1>4. /\ row \in Row /\ row.source = b.source /\ row.at = b.at
      /\ SaidSo(row.source, row.crit, row.passed)
  BY <1>1, <1>2, NextFits
<1>5. row.at <= clock
  BY <1>4 DEF LedgerInv, BatchFits
<1>6. PICK n : n = Len(ledger)
  OBVIOUS
<1>7. /\ ledger \in Seq(Row) /\ n \in Nat /\ DOMAIN ledger = 1 .. n
      /\ ledger' \in Seq(Row) /\ DOMAIN ledger' = 1 .. n + 1 /\ ledger'[n + 1] = row
      /\ \A i \in 1 .. n : ledger'[i] = ledger[i]
  BY <1>2, <1>4, <1>6 DEF LedgerInv, LedgerTypes
<1>8. LedgerTypes'
  BY <1>2, <1>3, <1>7 DEF LedgerInv, LedgerTypes
<1>9. Stays /\ JobsOpen'
  BY <1>2, Nothing
<1>10. BatchFits(q)'
  BY <1>2, <1>3 DEF BatchFits, Ran
<1>11. ASSUME NEW x \in batch' PROVE BatchFits(x)'
  BY <1>2, <1>8, <1>9, <1>10, BatchStays
<1>12. ASSUME NEW i \in DOMAIN ledger' PROVE RowFits(i)'
  <2>1. CASE i = n + 1
    <3>1. RowsOf(row.source, row.crit)' = {n + 1}
      BY <1>2, <1>4, <1>7 DEF RowsOf
    <3>2. SaidSo(row.source, row.crit, row.passed)'
      BY <1>4, <1>9, SaidSoStays
    <3> QED
      BY <1>2, <1>5, <1>7, <2>1, <3>1, <3>2 DEF RowFits
  <2>2. CASE i \in 1 .. n
    <3>1. PICK s, c, p, a : s = ledger[i].source /\ c = ledger[i].crit
                            /\ p = ledger[i].passed /\ a = ledger[i].at
      OBVIOUS
    <3>2. SaidSo(s, c, p) /\ a <= clock /\ RowsOf(s, c) = {i}
      BY <1>7, <2>2, <3>1 DEF LedgerInv, RowFits
    <3>3. SaidSo(s, c, p)'
      BY <1>9, <3>2, SaidSoStays
    <3>4. ~ (row.source = s /\ row.crit = c)
      BY <1>2, <1>4, <3>2
    <3>5. RowsOf(s, c)' = {i}
      BY <1>7, <3>2, <3>4 DEF RowsOf
    <3> QED
      BY <1>2, <1>7, <2>2, <3>1, <3>2, <3>3, <3>5 DEF RowFits
  <2> QED
    BY <1>7, <2>1, <2>2
<1> QED
  BY <1>7, <1>8, <1>9, <1>11, <1>12 DEF LedgerInv

-----------------------------------------------------------------------------
(* What the cards are made of.                                               *)

\* The evidence there is stays.
EvidenceStays ==
  /\ \A i \in DOMAIN ledger : i \in DOMAIN ledger' /\ ledger'[i] = ledger[i]
  /\ \A j : PassedScan(j) => PassedScan(j)'
  /\ Verified \subseteq Verified'

\* A row that passed is still there,
LEMMA PassedRowStays ==
  ASSUME EvidenceStays, NEW e, NEW k, PassedRow(e, k) PROVE PassedRow(e, k)'
<1>1. PICK i \in DOMAIN ledger :
        SourceExec[ledger[i].source] = e /\ ledger[i].crit = k /\ ledger[i].passed
  BY DEF PassedRow
<1>2. i \in DOMAIN ledger' /\ ledger'[i] = ledger[i]
  BY DEF EvidenceStays
<1> QED
  BY <1>1, <1>2 DEF PassedRow

\* what was read of it fits,
LEMMA FactsStay ==
  ASSUME EvidenceStays, NEW pc, NEW f, FactsFit(pc, f) PROVE FactsFit(pc, f)'
<1>1. f.contribs \subseteq Verified'
  BY DEF FactsFit, EvidenceStays
<1>2. pc \in {"steps", "write"} =>
        \A c \in f.contribs : \A k \in DOMAIN f.verdict[c] :
          f.verdict[c][k] => PassedRow(ContribExec[c], k)'
  BY PassedRowStays DEF FactsFit
<1>3. pc = "write" => \A c \in f.contribs : \A x \in f.scan[c] : x[2] => PassedScan(x[1])'
  BY DEF FactsFit, EvidenceStays
<1> QED
  BY <1>1, <1>2, <1>3 DEF FactsFit

\* The contributions a view counts are finitely many.
LEMMA Finite ==
  ASSUME NEW S \in SUBSET Contribs, NEW T \in SUBSET S
  PROVE  /\ IsFiniteSet(S) /\ Cardinality(S) \in Nat
         /\ Cardinality(T) \in Nat /\ Cardinality(T) <= Cardinality(S)
<1>1. IsFiniteSet(S)
  BY ScoreAssumption, FS_Subset
<1>2. IsFiniteSet(T) /\ Cardinality(T) <= Cardinality(S)
  BY <1>1, FS_Subset
<1> QED
  BY <1>1, <1>2, FS_CardinalityType

\* and so does what a card says.
LEMMA CardStays ==
  ASSUME EvidenceStays, NEW key, NEW card, CardFits(key, card) PROVE CardFits(key, card)'
<1>1. PICK T, S : T = {c \in Verified : key \in KeysOf(c)} /\ S = {c \in Verified' : key \in KeysOf(c)}
  OBVIOUS
<1>2. T \in SUBSET S /\ S \in SUBSET Contribs
  BY <1>1 DEF EvidenceStays, Verified
<1>3. Cardinality(T) \in Nat /\ Cardinality(S) \in Nat /\ Cardinality(T) <= Cardinality(S)
  BY <1>2, Finite
<1>4. MinSample \in Nat
  BY ScoreAssumption
<1>5. /\ card.sample <= Cardinality(T) /\ card.sample \in Nat
      /\ card.scored => Cardinality(T) >= MinSample
  BY <1>1 DEF CardFits
<1>6. card.sample <= Cardinality(S) /\ (card.scored => Cardinality(S) >= MinSample)
  BY <1>3, <1>4, <1>5
<1>7. ASSUME NEW o \in card.seen
      PROVE  /\ o.of[1] \in S
             /\ o.passed /\ o.of[2] \in {"criterion", "security-criterion"} =>
                  PassedRow(ContribExec[o.of[1]], o.of[3])'
             /\ o.passed /\ o.of[2] = "security-step" => PassedScan(o.of[3])'
  <2>1. /\ o.of[1] \in T
        /\ o.passed /\ o.of[2] \in {"criterion", "security-criterion"} =>
             PassedRow(ContribExec[o.of[1]], o.of[3])
        /\ o.passed /\ o.of[2] = "security-step" => PassedScan(o.of[3])
    BY <1>1 DEF CardFits
  <2> QED
    BY <1>2, <2>1, PassedRowStays DEF EvidenceStays
<1> QED
  BY <1>1, <1>5, <1>6, <1>7 DEF CardFits

\* What one contribution is observed to be, with the evidence for it.
Backed(c, o) ==
  /\ o.of[1] = c
  /\ o.passed /\ o.of[2] \in {"criterion", "security-criterion"} =>
       PassedRow(ContribExec[c], o.of[3])
  /\ o.passed /\ o.of[2] = "security-step" => PassedScan(o.of[3])

\* An observation that names no criterion and no step needs no evidence;
LEMMA PlainIsBacked ==
  ASSUME NEW c, NEW dim, NEW passed,
         NEW kind \in {"ci", "revert", "delivery", "repeat-attempt", "review", "post-merge",
                       "impact", "revision-cycle"},
         NEW o \in Observed(dim, passed, <<c, kind>>)
  PROVE  Backed(c, o)
<1>1. o.of = <<c, kind>>
  BY DEF Observed
<1>2. o.of[1] = c /\ o.of[2] = kind
  BY <1>1
<1> QED
  BY <1>2 DEF Backed

\* one that names a criterion has its row,
LEMMA CriterionIsBacked ==
  ASSUME NEW f, FactsFit("write", f), NEW c \in f.contribs, NEW dim,
         NEW kind \in {"criterion", "security-criterion"}, NEW K \in SUBSET DOMAIN f.verdict[c],
         NEW o \in ByCriterion(dim, f, c, kind, K)
  PROVE  Backed(c, o)
<1>1. PICK k \in K : o \in Observed(dim, f.verdict[c][k], <<c, kind, k>>)
  BY DEF ByCriterion
<1>2. o.of = <<c, kind, k>> /\ o.passed = f.verdict[c][k]
  BY <1>1 DEF Observed
<1>3. f.verdict[c][k] => PassedRow(ContribExec[c], k)
  BY DEF FactsFit
<1>4. o.of[1] = c /\ o.of[2] = kind /\ o.of[3] = k
  BY <1>2
<1> QED
  BY <1>2, <1>3, <1>4 DEF Backed

\* and so every observation has its evidence.
LEMMA ObservationIsBacked ==
  ASSUME NEW f, FactsFit("write", f), NEW c \in f.contribs, NEW o \in Observations(f, c)
  PROVE  Backed(c, o)
<1>1. CASE o \in Correctness(f, c)
  <2>1. \/ o \in ByCriterion("correctness", f, c, "criterion", DOMAIN f.verdict[c])
        \/ o \in Observed("correctness", "ci_failed" \notin f.outcomes[c], <<c, "ci">>)
        \/ o \in Observed("correctness", FALSE, <<c, "revert">>)
    BY <1>1 DEF Correctness
  <2> QED
    BY <2>1, CriterionIsBacked, PlainIsBacked
<1>2. CASE o \in Reliability(f, c)
  <2>1. \/ o \in Observed("reliability", f.exec[c] = "on_time", <<c, "delivery">>)
        \/ o \in Observed("reliability", FALSE, <<c, "repeat-attempt">>)
    BY <1>2 DEF Reliability
  <2> QED
    BY <2>1, PlainIsBacked
<1>3. CASE o \in Reviewability(f, c)
  <2>1. o \in Observed("reviewability", "changes_requested" \notin f.outcomes[c], <<c, "review">>)
    BY <1>3 DEF Reviewability
  <2> QED
    BY <2>1, PlainIsBacked
<1>4. CASE o \in AfterMerge(f, c)
  <2>1. \/ o \in Observed("maintainability", {"reverted", "issue_reopened"} \cap f.outcomes[c] = {},
                          <<c, "post-merge">>)
        \/ o \in Observed("impact", "reverted" \notin f.outcomes[c], <<c, "impact">>)
    BY <1>4 DEF AfterMerge
  <2> QED
    BY <2>1, PlainIsBacked
<1>5. CASE o \in Security(f, c)
  <2>1. PICK K : K = {k \in DOMAIN f.verdict[c] : VerifierRef(k) = SecurityScan}
    OBVIOUS
  <2>2. K \in SUBSET DOMAIN f.verdict[c]
    BY <2>1
  <2>3. o \in ByStep(f, c) \/ o \in ByCriterion("security", f, c, "security-criterion", K)
    BY <1>5, <2>1 DEF Security
  <2>4. CASE o \in ByStep(f, c)
    <3>1. PICK x \in f.scan[c] : o \in Observed("security", x[2], <<c, "security-step", x[1]>>)
      BY <2>4 DEF ByStep
    <3>2. o.of = <<c, "security-step", x[1]>> /\ o.passed = x[2]
      BY <3>1 DEF Observed
    <3>3. x[2] => PassedScan(x[1])
      BY DEF FactsFit
    <3>4. o.of[1] = c /\ o.of[2] = "security-step" /\ o.of[3] = x[1]
      BY <3>2
    <3> QED
      BY <3>2, <3>3, <3>4 DEF Backed
  <2> QED
    BY <2>2, <2>3, <2>4, CriterionIsBacked
<1>6. CASE o \in Collaboration(f, c)
  <2>1. o \in Observed("collaboration", "approved" \in f.outcomes[c], <<c, "revision-cycle">>)
    BY <1>6 DEF Collaboration
  <2> QED
    BY <2>1, PlainIsBacked
<1> QED
  BY <1>1, <1>2, <1>3, <1>4, <1>5, <1>6 DEF Observations

\* A card that is made of facts that fit, fits.
LEMMA ScoreFits ==
  ASSUME NEW f, FactsFit("write", f), NEW key \in Keys, ScoreCard(f, key) # None
  PROVE  CardFits(key, ScoreCard(f, key))
<1>1. PICK of, T : /\ of = {c \in f.contribs : key \in KeysOf(c)}
                   /\ T = {c \in Verified : key \in KeysOf(c)}
  OBVIOUS
<1>2. of \in SUBSET T /\ T \in SUBSET Contribs
  BY <1>1 DEF FactsFit, Verified
<1>3. Cardinality(of) \in Nat /\ Cardinality(T) \in Nat /\ Cardinality(of) <= Cardinality(T)
  BY <1>2, Finite
<1>4. PICK seen : seen = UNION {Observations(f, c) : c \in of}
  OBVIOUS
<1>5. PICK scored, dims :
        /\ scored = (Cardinality(of) >= MinSample /\ GroupByDimension(seen) # {})
        /\ dims = [dim \in GroupByDimension(seen) |-> ScoreDimension(dim, seen)]
  OBVIOUS
<1>6. ScoreCard(f, key) = [sample |-> Cardinality(of), seen |-> seen, dims |-> dims, scored |-> scored]
  BY <1>1, <1>4, <1>5 DEF ScoreCard
<1>7. PICK card : card = ScoreCard(f, key)
  OBVIOUS
<1>8. card.sample = Cardinality(of) /\ card.seen = seen /\ card.scored = scored
  BY <1>6, <1>7
<1>9. card.scored => Cardinality(T) >= MinSample
  <2>1. MinSample \in Nat
    BY ScoreAssumption
  <2>2. card.scored => Cardinality(of) >= MinSample
    BY <1>5, <1>8
  <2> QED
    BY <1>3, <2>1, <2>2
<1>10. ASSUME NEW o \in seen
       PROVE  \E c \in T : Backed(c, o)
  <2>1. PICK c \in of : o \in Observations(f, c)
    BY <1>4
  <2> QED
    BY <1>1, <1>2, <2>1, ObservationIsBacked
<1>11. ASSUME NEW o \in card.seen
       PROVE  /\ o.of[1] \in T
              /\ o.passed /\ o.of[2] \in {"criterion", "security-criterion"} =>
                   PassedRow(ContribExec[o.of[1]], o.of[3])
              /\ o.passed /\ o.of[2] = "security-step" => PassedScan(o.of[3])
  BY <1>8, <1>10 DEF Backed
<1> QED
  BY <1>1, <1>3, <1>7, <1>8, <1>9, <1>11 DEF CardFits

-----------------------------------------------------------------------------
(* Every step.                                                               *)

\* A process whose facts fit what it is at.
ProcessFits(p) == IsRebuild(rebuild[p]) /\ FactsFit(rebuild[p].pc, rebuild[p].facts)

\* Evidence may come meanwhile.
LEMMA OthersGoOn ==
  ASSUME CardsInv, EvidenceStays, LedgerInv', UNCHANGED <<rebuild, cards, setting>>,
         contribution' \in [Contribs -> {"none", "unverified", "verified"}]
  PROVE  CardsInv'
<1>1. ASSUME NEW p \in Processes
      PROVE  (IsRebuild(rebuild[p]) /\ FactsFit(rebuild[p].pc, rebuild[p].facts))'
  <2>1. PICK r : r = rebuild[p]
    OBVIOUS
  <2>2. IsRebuild(r) /\ FactsFit(r.pc, r.facts)
    BY <2>1 DEF CardsInv
  <2>3. PICK pc, f : pc = r.pc /\ f = r.facts
    OBVIOUS
  <2>4. FactsFit(pc, f)'
    BY <2>2, <2>3, FactsStay
  <2>5. IsRebuild(r)'
    BY <2>2 DEF IsRebuild, NoFacts
  <2> QED
    BY <2>1, <2>3, <2>4, <2>5
<1>2. ASSUME NEW key \in Keys, cards[key] # None PROVE CardFits(key, cards[key])'
  <2>1. PICK card : card = cards[key]
    OBVIOUS
  <2>2. CardFits(key, card)
    BY <1>2, <2>1 DEF CardsInv
  <2>3. CardFits(key, card)'
    BY <2>2, CardStays
  <2> QED
    BY <2>1, <2>3
<1>3. rebuild' = [p \in Processes |-> rebuild'[p]]
  BY DEF CardsInv
<1>4. setting' \in Settings
  BY DEF CardsInv
<1> QED
  BY <1>1, <1>2, <1>3, <1>4 DEF CardsInv

\* What is over stays, and so does the evidence in it.
LEMMA StaysGivesEvidence ==
  ASSUME LedgerInv, Stays, Verified \subseteq Verified',
         \A i \in DOMAIN ledger : i \in DOMAIN ledger' /\ ledger'[i] = ledger[i]
  PROVE  EvidenceStays
<1>1. ASSUME NEW j, PassedScan(j) PROVE PassedScan(j)'
  <2>1. j \in Jobs /\ job[j].results[SecurityScan] = "passed" /\ SecurityScan \in Steps
    BY <1>1, ScoreAssumption DEF PassedScan
  <2>2. job[j].status = "terminal"
    BY <2>1 DEF LedgerInv, LedgerTypes, JobsOpen, Job
  <2>3. job'[j].results = job[j].results
    BY <2>1, <2>2 DEF Stays
  <2> QED
    BY <2>1, <2>3 DEF PassedScan
<1> QED
  BY <1>1 DEF EvidenceStays

\* A step of the ledger.
LEMMA LedgerStepKeeps ==
  ASSUME CardsInv, LedgerStep, UNCHANGED setting PROVE CardsInv'
<1>1. /\ RecordsFact \/ JobEndsSomehow \/ Observes
      /\ UNCHANGED <<contribution, rebuild, cards>>
  BY DEF LedgerStep
<1>2. LedgerInv
  BY DEF CardsInv
<1>3. Verified' = Verified
  BY <1>1 DEF Verified
<1>4. /\ LedgerInv' /\ Stays
      /\ \A i \in DOMAIN ledger : i \in DOMAIN ledger' /\ ledger'[i] = ledger[i]
  <2>1. CASE RecordsFact
    BY <1>2, <2>1, RecordRowStep DEF RecordsFact
  <2>2. CASE JobEndsSomehow
    <3>1. PICK j \in Jobs, results \in [Steps -> {"none", "passed", "failed"}] :
            JobEnds(j, results)
      BY <2>2 DEF JobEndsSomehow
    <3>2. UNCHANGED ledger
      BY <3>1 DEF JobEnds
    <3> QED
      BY <1>2, <3>1, <3>2, JobEndsStep
  <2>3. CASE Publish
    BY <1>2, <2>3, PublishStep DEF Publish
  <2>4. CASE \E w \in Workers, j \in Jobs : ClaimTerminal(w, j)
    <3>1. PICK w \in Workers, j \in Jobs : ClaimTerminal(w, j)
      BY <2>4
    <3>2. UNCHANGED ledger
      BY <3>1 DEF ClaimTerminal
    <3> QED
      BY <1>2, <3>1, <3>2, ClaimTerminalStep
  <2>5. CASE \E r \in Reviews, said \in Said : Decide(r, said)
    <3>1. PICK r \in Reviews, said \in Said : Decide(r, said)
      BY <2>5
    <3>2. UNCHANGED ledger
      BY <3>1 DEF Decide
    <3> QED
      BY <1>2, <3>1, <3>2, DecideStep
  <2>6. ASSUME NEW b \in batch, SyncTerminalState(b) PROVE <1>4!1 /\ UNCHANGED ledger
    BY <1>2, <2>6, SyncStep DEF SyncTerminalState
  <2>7. ASSUME NEW b \in batch, Replay(b) PROVE <1>4!1 /\ UNCHANGED ledger
    BY <1>2, <2>7, ReplayStep DEF Replay
  <2>8. ASSUME NEW b \in batch, BatchEnds(b) PROVE <1>4!1 /\ UNCHANGED ledger
    BY <1>2, <2>8, BatchEndsStep DEF BatchEnds
  <2> QED
    BY <1>1, <2>1, <2>2, <2>3, <2>4, <2>5, <2>6, <2>7, <2>8 DEF Observes
<1>5. EvidenceStays
  BY <1>2, <1>3, <1>4, StaysGivesEvidence
<1> QED
  BY <1>1, <1>4, <1>5, OthersGoOn DEF CardsInv

\* A fact from outside.
LEMMA FactStepKeeps ==
  ASSUME CardsInv, FactStep, UNCHANGED setting PROVE CardsInv'
<1>1. UNCHANGED <<published, job, verdicts, ledger, batch, clock, rebuild, cards>>
  BY DEF FactStep, ledgerVars
<1>2. /\ contribution' \in [Contribs -> {"none", "unverified", "verified"}]
      /\ Verified \subseteq Verified'
  <2>1. CASE UNCHANGED contribution
    BY <2>1 DEF CardsInv, Verified
  <2>2. CASE \E c \in Contribs, status \in {"unverified", "verified"} : Contribute(c, status)
    <3>1. PICK c \in Contribs, status \in {"unverified", "verified"} : Contribute(c, status)
      BY <2>2
    <3>2. contribution[c] = "none" /\ contribution' = [contribution EXCEPT ![c] = status]
      BY <3>1 DEF Contribute
    <3> QED
      BY <3>2 DEF CardsInv, Verified
  <2>3. ASSUME NEW c \in Contribs, NEW o, NEW d, NEW v, AppendEvent(c, o, d, v)
        PROVE  UNCHANGED contribution
    BY <2>3 DEF AppendEvent
  <2>4. ASSUME NEW e, NEW delivered, ExecutionEnds(e, delivered) PROVE UNCHANGED contribution
    BY <2>4 DEF ExecutionEnds
  <2> QED
    BY <2>1, <2>2, <2>3, <2>4 DEF FactStep
<1>3. LedgerInv' /\ Stays
  <2>1. LedgerInv
    BY DEF CardsInv
  <2>2. Stays /\ JobsOpen'
    BY <1>1, <2>1, Nothing
  <2>3. LedgerTypes'
    BY <1>1, <2>1 DEF LedgerInv, LedgerTypes
  <2> QED
    BY <1>1, <2>1, <2>2, <2>3, NoRowYet
<1>4. EvidenceStays
  BY <1>1, <1>2, <1>3, StaysGivesEvidence DEF CardsInv
<1> QED
  BY <1>1, <1>2, <1>3, <1>4, OthersGoOn

-----------------------------------------------------------------------------
(* The rebuild.                                                              *)

\* The ledger's invariant is about the ledger's tables.
LEMMA LedgerStands ==
  ASSUME LedgerInv, UNCHANGED <<job, verdicts, ledger, batch, clock>> PROVE LedgerInv'
<1>1. LedgerTypes' /\ JobsOpen'
  BY DEF LedgerInv, LedgerTypes, JobsOpen
<1>2. ASSUME NEW b \in batch' PROVE BatchFits(b)'
  BY DEF LedgerInv, BatchFits, Ran
<1>3. ASSUME NEW i \in DOMAIN ledger' PROVE RowFits(i)'
  BY DEF LedgerInv, RowFits, RowsOf, SaidSo
<1> QED
  BY <1>1, <1>2, <1>3 DEF LedgerInv

\* One process goes on, with facts that fit; the ledger stands still.
LEMMA OneProcess ==
  ASSUME CardsInv, UNCHANGED <<ledgerVars, contribution, setting>>,
         NEW p \in Processes, NEW r, IsRebuild(r), FactsFit(r.pc, r.facts),
         rebuild' = [rebuild EXCEPT ![p] = r],
         \A key \in Keys : cards'[key] = cards[key] \/ cards'[key] = None
                           \/ CardFits(key, cards'[key])
  PROVE  CardsInv'
<1>1. UNCHANGED <<published, job, verdicts, ledger, batch, clock, contribution, setting>>
  BY DEF ledgerVars
<1>2. LedgerInv'
  BY <1>1, LedgerStands DEF CardsInv
<1>3. EvidenceStays
  BY <1>1 DEF EvidenceStays, PassedScan, Verified
<1>4. ASSUME NEW q \in Processes
      PROVE  (IsRebuild(rebuild[q]) /\ FactsFit(rebuild[q].pc, rebuild[q].facts))'
  <2>1. PICK s : s = rebuild'[q]
    OBVIOUS
  <2>2. s = r \/ s = rebuild[q]
    BY <2>1 DEF CardsInv
  <2>3. IsRebuild(s) /\ FactsFit(s.pc, s.facts)
    BY <2>2 DEF CardsInv
  <2>4. PICK pc, f : pc = s.pc /\ f = s.facts
    OBVIOUS
  <2>5. FactsFit(pc, f)'
    BY <1>3, <2>3, <2>4, FactsStay
  <2>6. IsRebuild(s)'
    BY <2>3 DEF IsRebuild, NoFacts
  <2> QED
    BY <2>1, <2>4, <2>5, <2>6
<1>5. ASSUME NEW key \in Keys, cards'[key] # None PROVE CardFits(key, cards[key])'
  <2>1. PICK card : card = cards'[key]
    OBVIOUS
  <2>2. CardFits(key, card)
    BY <1>5, <2>1 DEF CardsInv
  <2>3. CardFits(key, card)'
    BY <1>3, <2>2, CardStays
  <2> QED
    BY <2>1, <2>3
<1>6. rebuild' = [q \in Processes |-> rebuild'[q]]
  BY DEF CardsInv
<1> QED
  BY <1>1, <1>2, <1>4, <1>5, <1>6 DEF CardsInv

\* What facts are after a query.
LEMMA FactsUpdated ==
  ASSUME NEW f, NEW x,
         f \in [contribs : {f.contribs}, exec : {f.exec}, outcomes : {f.outcomes},
                verdict : {f.verdict}, scan : {f.scan}]
  PROVE  /\ [f EXCEPT !.outcomes = x] =
              [contribs |-> f.contribs, exec |-> f.exec, outcomes |-> x,
               verdict |-> f.verdict, scan |-> f.scan]
         /\ [f EXCEPT !.verdict = x] =
              [contribs |-> f.contribs, exec |-> f.exec, outcomes |-> f.outcomes,
               verdict |-> x, scan |-> f.scan]
         /\ [f EXCEPT !.scan = x] =
              [contribs |-> f.contribs, exec |-> f.exec, outcomes |-> f.outcomes,
               verdict |-> f.verdict, scan |-> x]
  OBVIOUS

\* A process that has read nothing fits.
LEMMA IdleFits ==
  ASSUME NEW last PROVE IsRebuild(Idle(last)) /\ FactsFit(Idle(last).pc, Idle(last).facts)
  BY DEF IsRebuild, FactsFit, Idle, At, NoFacts, Facts

\* What a query adds to facts that fit, fits.
LEMMA ReadsFit ==
  ASSUME CardsInv, NEW p \in Processes, ReadFacts(p)
  PROVE  \E r : /\ rebuild' = [rebuild EXCEPT ![p] = r]
                /\ IsRebuild(r) /\ FactsFit(r.pc, r.facts)
<1>1. PICK r, f : r = rebuild[p] /\ f = r.facts
  OBVIOUS
<1>2. /\ f \in [contribs : {f.contribs}, exec : {f.exec}, outcomes : {f.outcomes},
                verdict : {f.verdict}, scan : {f.scan}]
      /\ FactsFit(r.pc, f)
  BY <1>1 DEF CardsInv, IsRebuild
<1>3. ASSUME NEW from, NEW to, NEW facts, Reads(p, from, to, facts)
      PROVE  r.pc = from /\ rebuild' = [rebuild EXCEPT ![p] = At(to, r.last, r.mark, facts)]
  BY <1>1, <1>3 DEF Reads
<1>4. ASSUME NEW to, NEW facts, to # "idle", FactsFit(to, facts),
             rebuild' = [rebuild EXCEPT ![p] = At(to, r.last, r.mark, facts)],
             facts = [contribs |-> facts.contribs, exec |-> facts.exec,
                      outcomes |-> facts.outcomes, verdict |-> facts.verdict,
                      scan |-> facts.scan]
      PROVE  \E x : /\ rebuild' = [rebuild EXCEPT ![p] = x]
                    /\ IsRebuild(x) /\ FactsFit(x.pc, x.facts)
  <2>1. PICK x : x = At(to, r.last, r.mark, facts)
    OBVIOUS
  <2>2. x.pc = to /\ x.facts = facts
    BY <2>1 DEF At
  <2>3. IsRebuild(x) /\ FactsFit(x.pc, x.facts)
    BY <1>4, <2>2 DEF IsRebuild
  <2> QED
    BY <1>4, <2>1, <2>3
<1>5. CASE \E to \in {"write", "events"} :
             /\ Reads(p, "contributions", to, ListContributions)
             /\ to = IF ListContributions.contribs = {} THEN "write" ELSE "events"
  <2>1. PICK to \in {"write", "events"} :
          /\ Reads(p, "contributions", to, ListContributions)
          /\ to = IF ListContributions.contribs = {} THEN "write" ELSE "events"
    BY <1>5
  <2>2. PICK listed, of : /\ listed = {c \in Contribs : Attributable(c)}
                          /\ of = [c \in listed |-> exec[ContribExec[c]]]
    OBVIOUS
  <2>3. ListContributions = [contribs |-> listed, exec |-> of, outcomes |-> <<>>,
                             verdict |-> <<>>, scan |-> <<>>]
    BY <2>2 DEF ListContributions, Facts
  <2>4. listed = Verified
    BY <2>2 DEF Attributable, Verified
  <2>5. PICK g : g = ListContributions
    OBVIOUS
  <2>6. FactsFit(to, g)
    BY <2>1, <2>3, <2>4, <2>5 DEF FactsFit
  <2> QED
    BY <1>3, <1>4, <2>1, <2>3, <2>5, <2>6
<1>6. CASE Reads(p, "events", "criteria", AttachEvents(f))
  <2>1. PICK of : of = [c \in f.contribs |-> {e.outcome : e \in event[c]}]
    OBVIOUS
  <2>2. AttachEvents(f) = [contribs |-> f.contribs, exec |-> f.exec, outcomes |-> of,
                           verdict |-> f.verdict, scan |-> f.scan]
    <3>1. AttachEvents(f) = [f EXCEPT !.outcomes = of]
      BY <2>1, Zenon DEF AttachEvents
    <3> QED
      BY <1>2, <3>1, FactsUpdated
  <2>3. PICK g : g = AttachEvents(f)
    OBVIOUS
  <2>4. FactsFit("criteria", g)
    BY <1>2, <2>2, <2>3 DEF FactsFit
  <2> QED
    BY <1>3, <1>4, <1>6, <2>2, <2>3, <2>4
<1>7. CASE Reads(p, "criteria", "steps", AttachCriteria(f))
  <2> DEFINE seen(c) == {k \in ToSet(CriteriaForExecution) : Status(ContribExec[c], k) # "unverified"}
             said(c) == [k \in seen(c) |-> Status(ContribExec[c], k) = "passed"]
  <2>1. PICK of : of = [c \in f.contribs |-> said(c)]
    OBVIOUS
  <2>2. AttachCriteria(f) = [contribs |-> f.contribs, exec |-> f.exec, outcomes |-> f.outcomes,
                             verdict |-> of, scan |-> f.scan]
    <3>1. AttachCriteria(f) = [f EXCEPT !.verdict = of]
      BY <2>1, Zenon DEF AttachCriteria
    <3> QED
      BY <1>2, <3>1, FactsUpdated
  <2>3. ASSUME NEW c \in f.contribs, NEW k \in DOMAIN of[c], of[c][k]
        PROVE  PassedRow(ContribExec[c], k)
    <3>1. Status(ContribExec[c], k) = "passed"
      BY <2>1, <2>3
    <3> QED
      BY <3>1, PassedHasRow DEF CardsInv
  <2>4. PICK g : g = AttachCriteria(f)
    OBVIOUS
  <2>5. g.contribs = f.contribs /\ g.verdict = of
    BY <2>2, <2>4
  <2>6. FactsFit("steps", g)
    BY <1>2, <2>3, <2>5 DEF FactsFit
  <2> QED
    BY <1>3, <1>4, <1>7, <2>2, <2>4, <2>6
<1>8. CASE Reads(p, "steps", "write", AttachValidationSteps(f))
  <2> DEFINE ran(c) == {j \in Jobs : /\ SourceExec[j] = ContribExec[c]
                                     /\ job[j].results[SecurityScan] # "none"}
             found(c) == {<<j, job[j].results[SecurityScan] = "passed">> : j \in ran(c)}
  <2>1. PICK of : of = [c \in f.contribs |-> found(c)]
    OBVIOUS
  <2>2. AttachValidationSteps(f) = [contribs |-> f.contribs, exec |-> f.exec,
                                    outcomes |-> f.outcomes, verdict |-> f.verdict, scan |-> of]
    <3>1. AttachValidationSteps(f) = [f EXCEPT !.scan = of]
      BY <2>1, Zenon DEF AttachValidationSteps
    <3> QED
      BY <1>2, <3>1, FactsUpdated
  <2>3. ASSUME NEW c \in f.contribs, NEW x \in of[c], x[2] PROVE PassedScan(x[1])
    <3>1. PICK j \in ran(c) : x = <<j, job[j].results[SecurityScan] = "passed">>
      BY <2>1, <2>3
    <3>2. x[1] = j /\ x[2] = (job[j].results[SecurityScan] = "passed")
      BY <3>1
    <3> QED
      BY <2>3, <3>1, <3>2 DEF PassedScan
  <2>4. PICK g : g = AttachValidationSteps(f)
    OBVIOUS
  <2>5. g.contribs = f.contribs /\ g.verdict = f.verdict /\ g.scan = of
    BY <2>2, <2>4
  <2>6. r.pc = "steps"
    BY <1>3, <1>8
  <2>7. FactsFit("write", g)
    BY <1>2, <2>3, <2>5, <2>6 DEF FactsFit
  <2> QED
    BY <1>3, <1>4, <1>8, <2>2, <2>4, <2>7
<1> QED
  BY <1>1, <1>5, <1>6, <1>7, <1>8 DEF ReadFacts

\* A step of a worker, or of what it runs on.
LEMMA RebuildStepKeeps ==
  ASSUME CardsInv, RebuildStep, UNCHANGED setting PROVE CardsInv'
<1>1. PICK p \in setting.processes : Rebuild(p) \/ RebuildFails(p) \/ Restart(p)
  BY DEF RebuildStep
<1>2. p \in Processes /\ UNCHANGED <<ledgerVars, contribution, setting>>
  <2>1. setting \in Settings
    BY DEF CardsInv
  <2>2. setting.processes \in SUBSET Processes
    BY <2>1, ScoreAssumption
  <2> QED
    BY <1>1, <2>2 DEF RebuildStep
<1>3. ASSUME NEW last, rebuild' = [rebuild EXCEPT ![p] = Idle(last)],
             \A key \in Keys : cards'[key] = cards[key] \/ cards'[key] = None
                               \/ CardFits(key, cards'[key])
      PROVE  CardsInv'
  <2>1. PICK r : r = Idle(last)
    OBVIOUS
  <2>2. IsRebuild(r) /\ FactsFit(r.pc, r.facts)
    BY <2>1, IdleFits
  <2> QED
    BY <1>2, <1>3, <2>1, <2>2, OneProcess
<1>4. CASE ReadWatermark(p)
  <2>1. PICK r : r = IF rebuild[p].last = Unknown /\ watermark = 0 /\ cards = NoCards THEN Idle(0)
                     ELSE At("contributions", rebuild[p].last, watermark, NoFacts)
    OBVIOUS
  <2>2. rebuild' = [rebuild EXCEPT ![p] = r] /\ UNCHANGED cards
    BY <1>4, <2>1 DEF ReadWatermark
  <2>3. CASE r = Idle(0)
    BY <1>3, <2>2, <2>3
  <2>4. CASE r = At("contributions", rebuild[p].last, watermark, NoFacts)
    <3>1. r.pc = "contributions" /\ r.facts = NoFacts
      BY <2>4 DEF At
    <3>2. IsRebuild(r) /\ FactsFit(r.pc, r.facts)
      BY <3>1 DEF IsRebuild, FactsFit, NoFacts, Facts
    <3> QED
      BY <1>2, <2>2, <3>2, OneProcess
  <2> QED
    BY <2>1, <2>3, <2>4
<1>5. CASE ReadFacts(p)
  <2>1. PICK r : /\ rebuild' = [rebuild EXCEPT ![p] = r]
                 /\ IsRebuild(r) /\ FactsFit(r.pc, r.facts)
    BY <1>2, <1>5, ReadsFit
  <2>2. UNCHANGED cards
    BY <1>5 DEF ReadFacts, Reads
  <2> QED
    BY <1>2, <2>1, <2>2, OneProcess
<1>6. CASE Replace(p)
  <2>1. PICK f : f = rebuild[p].facts
    OBVIOUS
  <2>2. FactsFit("write", f)
    BY <1>2, <1>6, <2>1 DEF CardsInv, Replace
  <2>3. rebuild' = [rebuild EXCEPT ![p] = Idle(MarkOf(p))] /\ cards' = Score(f)
    BY <1>6, <2>1 DEF Replace
  <2>4. ASSUME NEW key \in Keys, cards'[key] # None PROVE CardFits(key, cards'[key])
    <3>1. cards'[key] = ScoreCard(f, key)
      BY <2>3 DEF Score
    <3> QED
      BY <2>2, <2>4, <3>1, ScoreFits
  <2>5. \A key \in Keys : cards'[key] = cards[key] \/ cards'[key] = None
                          \/ CardFits(key, cards'[key])
    BY <2>4
  <2> QED
    BY <1>3, <2>3, <2>5
<1>7. CASE RebuildFails(p)
  BY <1>3, <1>7 DEF RebuildFails
<1>8. CASE Restart(p)
  BY <1>3, <1>8 DEF Restart
<1> QED
  BY <1>1, <1>4, <1>5, <1>6, <1>7, <1>8 DEF Rebuild

-----------------------------------------------------------------------------
(* The invariant of the specification.                                       *)

\* Nothing is on record at the start.
LEMMA CardsStart == Init => CardsInv
<1> SUFFICES ASSUME Init PROVE CardsInv
  OBVIOUS
<1>1. /\ job = [j \in Jobs |-> [status |-> "open", synced |-> FALSE,
                                results |-> [s \in Steps |-> "none"]]]
      /\ verdicts = [r \in Reviews |-> None] /\ ledger = <<>> /\ batch = {} /\ clock = 0
  BY DEF Init, LedgerInit
<1>2. LedgerInv
  <2>1. job \in [Jobs -> Job] /\ JobsOpen
    BY <1>1 DEF Job, JobsOpen
  <2>2. ledger \in Seq(Row) /\ DOMAIN ledger = {}
    BY <1>1
  <2>3. /\ verdicts \in [Reviews -> Said \cup {None}]
        /\ batch \subseteq BatchRow /\ clock \in Nat /\ \A b \in batch : BatchFits(b)
    BY <1>1
  <2> QED
    BY <2>1, <2>2, <2>3 DEF LedgerInv, LedgerTypes
<1>3. setting \in Settings /\ contribution \in [Contribs -> {"none", "unverified", "verified"}]
  BY DEF Init
<1>4. rebuild = [p \in Processes |-> Idle(Unknown)]
  BY DEF Init
<1>5. ASSUME NEW p \in Processes
      PROVE  IsRebuild(rebuild[p]) /\ FactsFit(rebuild[p].pc, rebuild[p].facts)
  BY <1>4, IdleFits
<1>6. rebuild = [p \in Processes |-> rebuild[p]]
  BY <1>4
<1>7. \A key \in Keys : cards[key] = None
  BY DEF Init, NoCards
<1> QED
  BY <1>2, <1>3, <1>5, <1>6, <1>7 DEF CardsInv

\* Every step keeps it.
LEMMA CardsNext == CardsInv /\ [Next]_vars => CardsInv'
<1> SUFFICES ASSUME CardsInv, [Next]_vars PROVE CardsInv'
  OBVIOUS
<1>1. CASE Next
  <2>1. UNCHANGED setting /\ (LedgerStep \/ FactStep \/ RebuildStep)
    BY <1>1 DEF Next
  <2> QED
    BY <2>1, LedgerStepKeeps, FactStepKeeps, RebuildStepKeeps
<1>2. CASE UNCHANGED vars
  <2>1. UNCHANGED <<ledgerVars, published, job, verdicts, ledger, batch, clock,
                    contribution, rebuild, cards, setting>>
    BY <1>2 DEF vars, ledgerVars, cardVars
  <2>2. EvidenceStays
    BY <2>1 DEF EvidenceStays, PassedScan, Verified
  <2>3. LedgerInv'
    BY <2>1, LedgerStands DEF CardsInv
  <2> QED
    BY <2>1, <2>2, <2>3, OthersGoOn DEF CardsInv
<1> QED
  BY <1>1, <1>2

\* The ledger and the cards keep their invariant.
THEOREM CardsHold == Spec => []CardsInv
<1>1. Init => CardsInv
  BY CardsStart
<1>2. CardsInv /\ [Next]_vars => CardsInv'
  BY CardsNext
<1> QED
  BY <1>1, <1>2, PTL DEF Spec

\* A source has one verdict on a criterion, the one it came to, and the gate
\* of the reward opens on verdicts only: for any number of jobs, reviews and
\* workers, however their rows arrive.
THEOREM EvidenceForVerdicts == Spec => []VerdictsHaveEvidence
<1>1. CardsInv => VerdictsHaveEvidence
  BY InvGivesEvidence DEF CardsInv
<1> QED
  BY <1>1, CardsHold, PTL

\* The reviewer who decided last has the last word.
THEOREM LastWordStands == Spec => []ManualConclusionStands
<1>1. CardsInv => ManualConclusionStands
  BY LastWord DEF CardsInv
<1> QED
  BY <1>1, CardsHold, PTL

\* What the cards credit was earned, whatever a rebuild read in the middle of
\* changes.
THEOREM CreditIsEarned == Spec => []NoUnearnedCredit
<1>1. ASSUME CardsInv PROVE NoUnearnedCredit
  <2>1. ASSUME NEW key \in Keys, cards[key] # None
        PROVE  LET card == cards[key]
                   verified == {c \in Contribs : contribution[c] = "verified" /\ key \in KeysOf(c)}
               IN /\ card.sample <= Cardinality(verified)
                  /\ card.scored => Cardinality(verified) >= MinSample
                  /\ \A o \in card.seen :
                       LET c == o.of[1] IN
                       /\ c \in verified
                       /\ o.passed /\ o.of[2] \in {"criterion", "security-criterion"} =>
                            \E i \in DOMAIN ledger :
                              /\ SourceExec[ledger[i].source] = ContribExec[c]
                              /\ ledger[i].crit = o.of[3] /\ ledger[i].passed
                       /\ o.passed /\ o.of[2] = "security-step" =>
                            job[o.of[3]].results[SecurityScan] = "passed"
    <3>1. PICK T : T = {c \in Contribs : contribution[c] = "verified" /\ key \in KeysOf(c)}
      OBVIOUS
    <3>2. {c \in Verified : key \in KeysOf(c)} = T
      BY <3>1 DEF Verified
    <3>3. PICK card : card = cards[key]
      OBVIOUS
    <3>4. CardFits(key, card)
      BY <1>1, <2>1, <3>3 DEF CardsInv
    <3>5. /\ card.sample <= Cardinality(T) /\ (card.scored => Cardinality(T) >= MinSample)
          /\ \A o \in card.seen :
               /\ o.of[1] \in T
               /\ o.passed /\ o.of[2] \in {"criterion", "security-criterion"} =>
                    PassedRow(ContribExec[o.of[1]], o.of[3])
               /\ o.passed /\ o.of[2] = "security-step" => PassedScan(o.of[3])
      BY <3>2, <3>4 DEF CardFits
    <3> QED
      BY <3>1, <3>3, <3>5 DEF PassedRow, PassedScan
  <2> QED
    BY <2>1 DEF NoUnearnedCredit
<1>2. CardsInv => NoUnearnedCredit
  BY <1>1
<1> QED
  BY <1>2, CardsHold, PTL

=============================================================================
