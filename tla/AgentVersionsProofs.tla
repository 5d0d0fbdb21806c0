------------------------- MODULE AgentVersionsProofs -------------------------
(* Proofs about AgentVersions: the run table and the version table tell one *)
(* story, only proven versions are current and work, forbidden evidence     *)
(* stays out and one benchmark set is active, for any number of requests in *)
(* flight, workers, versions, runs, sets, candidates and configurations.    *)
EXTENDS AgentVersions, FiniteSetTheorems, TLAPS

(* The rows.                                                                *)

AgentRow == [status : {"none", "pending_activation", "active", "suspended", "revoked"},
             current : 0..MaxVersion]

VersionRow == [status : {"draft", "evaluating", "eligible", "active", "retired", "rejected"},
               config : Configs \cup {None}, memory : SUBSET Candidates]

SetRow == [status : {"created"}, refs : Contents, active : BOOLEAN]

RunRow == [status : {"running", "passed", "failed"}, version : Versions,
           set : Numbers, started : Nat]

TaskRow == [state : {"absent", "open"} \cup {move[1] : move \in Moves}
                      \cup {move[2] : move \in Moves},
            by : 0..MaxVersion, slow : BOOLEAN]

CandidateRow == [status : {"pending_review"} \cup Verdicts, class : Classes]

Request ==
  {Idle}
  \cup [op : {"activate"} \cup Managed, seen : AgentRow]
  \cup [op : {"judge"}, candidate : Candidates, verdict : Verdicts]
  \cup [op : {"draft"}, number : Versions, config : Configs, memory : SUBSET Candidates]
  \cup [op : {"hook"}, v : Versions]
  \cup [op : {"start"}, v : Versions, set : Numbers]
  \cup [op : {"promote"}, v : Versions, expected : 0..MaxVersion]
  \cup [op : {"benchmark", "cleared"}, number : Numbers, refs : Contents,
        active : BOOLEAN, clears : SUBSET Numbers]

Types ==
  /\ setting \in Settings /\ now \in Nat
  /\ agent \in AgentRow
  /\ credential \in {NoRow} \cup [status : {"pending", "consumed"}, expires : Nat]
  /\ version \in [Versions -> {NoRow} \cup VersionRow]
  /\ sets \in [Numbers -> {NoRow} \cup SetRow]
  /\ run \in [Runs -> {NoRow} \cup RunRow]
  /\ board \in [Runs -> [Refs -> TaskRow]]
  /\ candidate \in [Candidates -> {NoRow} \cup CandidateRow]
  /\ request \in [Slots -> Request]

-----------------------------------------------------------------------------
(* What the tables agree on.                                                *)

\* Versions and sets are numbered without a gap.
Counted ==
  /\ \E k \in 0..MaxVersion : Existing = 1..k
  /\ \E k \in 0..MaxSet : Created = 1..k

\* A row of the agent that may be written: an agent that works has a current
\* version, and that one is proven.
RowFits(row) ==
  /\ row.status \in {"active", "suspended"} => row.current # 0
  /\ row.current # 0 => Proven(row.current)

AgentFits ==
  /\ RowFits(agent)
  /\ credential.status = "consumed" => agent.status # "none"

\* A version has one run at most, and the status that goes with its run's.
RunsFit ==
  /\ \A q, r \in Runs :
       /\ run[q].status # "none" /\ run[r].status # "none"
       /\ run[q].version = run[r].version
       => q = r
  /\ \A r \in Runs :
       /\ run[r].status = "running" => version[run[r].version].status = "evaluating"
       /\ run[r].status = "failed" => version[run[r].version].status = "rejected"
       /\ run[r].status = "passed" => version[run[r].version].status \in Serviceable
  /\ \A v \in Versions :
       /\ version[v].status = "evaluating" =>
            \E r \in Runs : run[r].status = "running" /\ run[r].version = v
       /\ version[v].status = "rejected" =>
            \E r \in Runs : run[r].status = "failed" /\ run[r].version = v
       /\ version[v].status \in Serviceable => Proven(v)

OneActive ==
  \A v, w \in Versions : version[v].status = "active" /\ version[w].status = "active" => v = w

\* Only proven versions work.
WorkFits == \A r \in Runs, ref \in Refs : board[r][ref].by # 0 => Proven(board[r][ref].by)

\* Evidence that is there, and not forbidden: its class is final.
Harmless(c) == candidate[c].status # "none" /\ candidate[c].class # "forbidden"

EvidenceFits ==
  /\ \A c \in Candidates :
       candidate[c].status \in {"pending_review", "approved"} => Harmless(c)
  /\ \A v \in Versions : version[v].status # "none" =>
       \A c \in version[v].memory : Harmless(c)

\* Two sets are not both active.
SetsFit ==
  \A m, n \in Numbers :
    sets[m] # NoRow /\ sets[n] # NoRow /\ sets[m].active /\ sets[n].active => m = n

-----------------------------------------------------------------------------
(* What a request in flight has read, and what still holds of it.           *)

\* The row it will write back.
SeenFits(s) ==
  request[s].op \in Managed =>
    RowFits(request[s].seen) /\ request[s].seen.status \in Accepts(request[s].op)

\* The evidence it judges or cites, and the number it read.
CitesFit(s) ==
  /\ request[s].op = "judge" => Harmless(request[s].candidate)
  /\ request[s].op = "draft" =>
       /\ \A c \in request[s].memory : Harmless(c)
       /\ 1..request[s].number - 1 \subseteq Existing

\* The number a set is to get; as long as it is free, the flags that are cleared
\* with it are all there are.
NumberFits(s) ==
  /\ request[s].op \in {"benchmark", "cleared"} => 1..request[s].number - 1 \subseteq Created
  /\ request[s].op = "cleared" => request[s].clears \subseteq Created
  /\ request[s].op = "cleared" /\ request[s].active /\ sets[request[s].number] = NoRow =>
       ActiveSets \subseteq request[s].clears

FitsAt(s) == SeenFits(s) /\ CitesFit(s) /\ NumberFits(s)

RequestsFit == \A s \in Slots : FitsAt(s)

VersionsInv ==
  /\ Types /\ Counted /\ AgentFits /\ RunsFit /\ OneActive /\ WorkFits
  /\ EvidenceFits /\ SetsFit /\ RequestsFit

-----------------------------------------------------------------------------
(* Lemmas.                                                                  *)

tables == <<agent, credential, version, sets, run, board, candidate>>

\* What a step may do to what a request has read.
Grows ==
  /\ Existing \subseteq Existing' /\ UNCHANGED sets
  /\ \A v \in Versions : Proven(v) => Proven(v)'
  /\ \A c \in Candidates : Harmless(c) => Harmless(c)'

\* A row is either there or has no status.
LEMMA RowIsThere ==
  ASSUME NEW x \in {NoRow} \cup VersionRow \cup SetRow \cup RunRow \cup CandidateRow
  PROVE  x = NoRow <=> x.status = "none"
  BY DEF NoRow, VersionRow, SetRow, RunRow, CandidateRow, Verdicts

\* What kind of request is in a slot.
LEMMA RequestKind ==
  ASSUME NEW r \in Request
  PROVE  /\ r.op \in {"activate"} \cup Managed => r \in [op : {"activate"} \cup Managed, seen : AgentRow]
         /\ r.op = "judge" => r \in [op : {"judge"}, candidate : Candidates, verdict : Verdicts]
         /\ r.op = "draft" => r \in [op : {"draft"}, number : Versions, config : Configs,
                                     memory : SUBSET Candidates]
         /\ r.op = "hook" => r \in [op : {"hook"}, v : Versions]
         /\ r.op = "start" => r \in [op : {"start"}, v : Versions, set : Numbers]
         /\ r.op = "promote" => r \in [op : {"promote"}, v : Versions, expected : 0..MaxVersion]
         /\ r.op \in {"benchmark", "cleared"} =>
              r \in [op : {"benchmark", "cleared"}, number : Numbers, refs : Contents,
                     active : BOOLEAN, clears : SUBSET Numbers]
<1> DEFINE A == [op : {"activate"} \cup Managed, seen : AgentRow]
           B == [op : {"judge"}, candidate : Candidates, verdict : Verdicts]
           C == [op : {"draft"}, number : Versions, config : Configs, memory : SUBSET Candidates]
           D == [op : {"hook"}, v : Versions]
           E == [op : {"start"}, v : Versions, set : Numbers]
           F == [op : {"promote"}, v : Versions, expected : 0..MaxVersion]
           G == [op : {"benchmark", "cleared"}, number : Numbers, refs : Contents,
                 active : BOOLEAN, clears : SUBSET Numbers]
<1>1. r \in {Idle} \cup A \cup B \cup C \cup D \cup E \cup F \cup G
  BY DEF Request
<1>2. Idle.op = "idle" /\ (r \in A => r.op \in {"activate"} \cup Managed)
      /\ (r \in B => r.op = "judge") /\ (r \in C => r.op = "draft")
  BY DEF Idle
<1>3. /\ (r \in D => r.op = "hook") /\ (r \in E => r.op = "start")
      /\ (r \in F => r.op = "promote") /\ (r \in G => r.op \in {"benchmark", "cleared"})
  OBVIOUS
<1> HIDE DEF A, B, C, D, E, F, G
<1>4. /\ r.op \in {"activate"} \cup Managed => r \in A
      /\ r.op = "judge" => r \in B
      /\ r.op = "draft" => r \in C
      /\ r.op = "hook" => r \in D
      /\ r.op = "start" => r \in E
      /\ r.op = "promote" => r \in F
      /\ r.op \in {"benchmark", "cleared"} => r \in G
  BY <1>1, <1>2, <1>3 DEF Managed
<1> QED
  BY <1>4 DEF A, B, C, D, E, F, G

\* A free slot.
LEMMA IdleFits ==
  ASSUME NEW s \in Slots, request'[s] = Idle PROVE FitsAt(s)'
  BY DEF FitsAt, SeenFits, CitesFit, NumberFits, Idle, Managed

\* What a request has read still holds.
LEMMA FitStays ==
  ASSUME Types, NEW s \in Slots, FitsAt(s), request'[s] = request[s], Grows
  PROVE  FitsAt(s)'
<1>0. PICK r : r = request[s]
  OBVIOUS
<1>1. r \in Request
  BY <1>0 DEF Types
<1>2. request[s] = r /\ request'[s] = r /\ UNCHANGED sets
  BY <1>0 DEF Grows
<1>3. SeenFits(s)'
  <2> SUFFICES ASSUME r.op \in Managed
               PROVE  RowFits(r.seen)' /\ r.seen.status \in Accepts(r.op)
    BY <1>2 DEF SeenFits, RowFits
  <2>1. r.seen \in AgentRow
    BY <1>1, RequestKind
  <2>2. RowFits(r.seen) /\ r.seen.status \in Accepts(r.op)
    BY <1>2 DEF FitsAt, SeenFits
  <2>3. r.seen.current # 0 => r.seen.current \in Versions
    BY <2>1 DEF AgentRow, Versions
  <2> QED
    BY <2>2, <2>3 DEF RowFits, Grows
<1>4. CitesFit(s)'
  <2>1. r.op = "judge" => r.candidate \in Candidates
    BY <1>1, RequestKind
  <2>2. r.op = "draft" => r.memory \subseteq Candidates
    BY <1>1, RequestKind
  <2>3. /\ r.op = "judge" => Harmless(r.candidate)
        /\ r.op = "draft" => /\ \A c \in r.memory : Harmless(c)
                             /\ 1..r.number - 1 \subseteq Existing
    BY <1>2 DEF FitsAt, CitesFit
  <2>4. r.op = "judge" => Harmless(request[s].candidate)'
    BY <1>2, <2>1, <2>3 DEF Grows, Harmless
  <2>5. r.op = "draft" => \A c \in r.memory : Harmless(c)'
    BY <2>2, <2>3 DEF Grows
  <2> QED
    BY <1>2, <2>3, <2>4, <2>5 DEF CitesFit, Grows
<1>5. NumberFits(s)'
  BY <1>2 DEF FitsAt, NumberFits, Created, ActiveSets
<1> QED
  BY <1>3, <1>4, <1>5 DEF FitsAt

\* The requests that do not move, and those that have read the truth.
LEMMA RequestsFollow ==
  ASSUME Types, RequestsFit, Grows,
         \A s \in Slots : request'[s] = request[s] \/ FitsAt(s)'
  PROVE  RequestsFit'
  BY FitStays DEF RequestsFit

\* A step that writes no table.
LEMMA TablesStand ==
  ASSUME VersionsInv, UNCHANGED <<setting, tables>>, now' \in Nat,
         request' \in [Slots -> Request],
         \A s \in Slots : request'[s] = request[s] \/ FitsAt(s)'
  PROVE  VersionsInv'
<1>1. UNCHANGED <<setting, agent, credential, version, sets, run, board, candidate>>
  BY DEF tables
<1>2. Types'
  BY <1>1 DEF VersionsInv, Types
<1>3. Counted' /\ AgentFits' /\ RunsFit'
  BY <1>1 DEF VersionsInv, Counted, Existing, Created, AgentFits, RowFits, Proven,
              FromActivation, HasPassed, RunsFit
<1>4. OneActive' /\ WorkFits' /\ EvidenceFits' /\ SetsFit'
  BY <1>1 DEF VersionsInv, OneActive, WorkFits, Proven, FromActivation, HasPassed,
              EvidenceFits, Harmless, SetsFit
<1>5. Grows
  BY <1>1 DEF Grows, Existing, Proven, FromActivation, HasPassed, Harmless
<1>6. RequestsFit'
  BY <1>5, RequestsFollow DEF VersionsInv
<1> QED
  BY <1>2, <1>3, <1>4, <1>6 DEF VersionsInv

\* A request goes on with what it has read.
LEMMA HoldStep ==
  ASSUME VersionsInv, UNCHANGED <<setting, now, tables>>, NEW s \in Slots,
         NEW r \in Request, Hold(s, r), FitsAt(s)'
  PROVE  VersionsInv'
<1>1. /\ request' \in [Slots -> Request] /\ now' \in Nat
      /\ \A d \in Slots \ {s} : request'[d] = request[d]
  BY DEF VersionsInv, Types, Hold
<1> QED
  BY <1>1, TablesStand

\* A slot and what is put into it.
LEMMA Held ==
  ASSUME VersionsInv, NEW s \in Slots, NEW r, Hold(s, r)
  PROVE  request'[s] = r /\ \A d \in Slots \ {s} : request'[d] = request[d]
  BY DEF VersionsInv, Types, Hold

\* A request ends, with nothing written.
LEMMA AbandonStep ==
  ASSUME VersionsInv, NEW s \in Slots, Abandon(s) PROVE VersionsInv'
<1>1. Idle \in Request /\ Hold(s, Idle)
  BY DEF Request, Abandon, Done
<1>2. FitsAt(s)'
  BY <1>1, Held, IdleFits
<1> QED
  BY <1>1, <1>2, HoldStep DEF Abandon, tables, identityVars, runVars

\* Reading the row of the agent.
LEMMA SeenStep ==
  ASSUME VersionsInv, NEW s \in Slots, ReadActivation(s) \/ ReadHeartbeat(s)
           \/ (\E op \in Managed : ReadAgent(s, op))
  PROVE  VersionsInv'
<1>1. PICK op \in {"activate"} \cup Managed : /\ Hold(s, [op |-> op, seen |-> agent])
                                              /\ op \in Managed => agent.status \in Accepts(op)
  <2>1. "activate" \notin Managed /\ "heartbeat" \in Managed
    BY DEF Managed
  <2> QED
    BY <2>1 DEF ReadActivation, ReadHeartbeat, ReadAgent
<1>2. UNCHANGED <<setting, now, tables>>
  BY DEF ReadActivation, ReadHeartbeat, ReadAgent, tables, identityVars, runVars
<1>3. PICK r : r = [op |-> op, seen |-> agent]
  OBVIOUS
<1>4. agent \in AgentRow /\ RowFits(agent)
  BY DEF VersionsInv, Types, AgentFits
<1>5. r \in Request /\ r.op = op /\ r.seen = agent
  BY <1>3, <1>4 DEF Request
<1>6. request'[s] = r
  BY <1>1, <1>3, Held
<1>7. FitsAt(s)'
  <2>1. SeenFits(s)'
    BY <1>1, <1>2, <1>4, <1>5, <1>6
    DEF SeenFits, RowFits, Proven, FromActivation, HasPassed, tables
  <2>2. CitesFit(s)' /\ NumberFits(s)'
    BY <1>5, <1>6 DEF CitesFit, NumberFits, Managed
  <2> QED
    BY <2>1, <2>2 DEF FitsAt
<1> QED
  BY <1>1, <1>2, <1>3, <1>5, <1>7, HoldStep

\* Reading a candidate that waits for its review.
LEMMA ReadCandidateStep ==
  ASSUME VersionsInv, NEW s \in Slots, NEW c \in Candidates, NEW verdict \in Verdicts,
         ReadCandidate(s, c, verdict)
  PROVE  VersionsInv'
<1>1. PICK r : r = [op |-> "judge", candidate |-> c, verdict |-> verdict]
  OBVIOUS
<1>2. r \in Request /\ r.op = "judge" /\ r.candidate = c
  BY <1>1 DEF Request
<1>3. Hold(s, r) /\ UNCHANGED <<setting, now, tables>>
  BY <1>1 DEF ReadCandidate, tables, identityVars, runVars
<1>4. request'[s] = r
  BY <1>3, Held
<1>5. Harmless(c)
  <2>1. candidate[c].status = "pending_review"
    BY DEF ReadCandidate
  <2> QED
    BY <2>1 DEF VersionsInv, EvidenceFits, Harmless
<1>6. FitsAt(s)'
  <2>1. CitesFit(s)'
    BY <1>2, <1>3, <1>4, <1>5 DEF CitesFit, Harmless, tables
  <2>2. SeenFits(s)' /\ NumberFits(s)'
    BY <1>2, <1>4 DEF SeenFits, NumberFits, Managed
  <2> QED
    BY <2>1, <2>2 DEF FitsAt
<1> QED
  BY <1>2, <1>3, <1>6, HoldStep

\* The highest number there is.
LEMMA LatestIs ==
  ASSUME Types, Counted
  PROVE  Latest \in 0..MaxVersion /\ Existing = 1..Latest
<1>1. PICK k \in 0..MaxVersion : Existing = 1..k
  BY DEF Counted
<1>2. k \in Nat
  BY <1>1, AgentVersionsAssumption
<1>3. CASE k = 0
  BY <1>1, <1>2, <1>3 DEF Latest
<1>4. CASE k # 0
  <2>1. k \in Existing /\ \A w \in Existing : w <= k
    BY <1>1, <1>2, <1>4
  <2>2. \A v \in Existing : (\A w \in Existing : w <= v) => v = k
    BY <1>1, <1>2, <2>1
  <2>3. Latest = k
    BY <1>2, <2>1, <2>2 DEF Latest
  <2> QED
    BY <1>1, <2>3
<1> QED
  BY <1>3, <1>4

\* The number that comes after the sets there are.
LEMMA NextNumberIs ==
  ASSUME Types, Counted
  PROVE  NextNumber \in 1..MaxSet + 1 /\ Created = 1..NextNumber - 1
<1>1. PICK k \in 0..MaxSet : Created = 1..k
  BY DEF Counted
<1>2. k \in Nat /\ MaxSet \in Nat
  BY <1>1, AgentVersionsAssumption
<1>3. CASE k = 0
  BY <1>1, <1>2, <1>3 DEF NextNumber
<1>4. CASE k # 0
  <2>1. k \in Created /\ \A w \in Created : w <= k
    BY <1>1, <1>2, <1>4
  <2>2. \A v \in Created : (\A w \in Created : w <= v) => v = k
    BY <1>1, <1>2, <2>1
  <2>3. NextNumber = 1 + k
    BY <1>2, <2>1, <2>2 DEF NextNumber
  <2> QED
    BY <1>1, <1>2, <2>3
<1> QED
  BY <1>3, <1>4

\* A draft is asked for.
LEMMA ReadDraftStep ==
  ASSUME VersionsInv, NEW s \in Slots, NEW config \in Configs, NEW cites \in SUBSET Candidates,
         ReadDraft(s, config, cites)
  PROVE  VersionsInv'
<1>1. PICK r : r = [op |-> "draft", number |-> Latest + 1, config |-> config, memory |-> cites]
  OBVIOUS
<1>2. Latest \in 0..MaxVersion /\ Existing = 1..Latest
  BY LatestIs DEF VersionsInv
<1>3. setting.versions \in 0..MaxVersion /\ MaxVersion \in Nat
  BY AgentVersionsAssumption DEF VersionsInv, Types
<1>4. Latest + 1 \in Versions /\ Latest \in Nat
  BY <1>2, <1>3 DEF ReadDraft, Versions
<1>5. /\ r \in Request /\ r.op = "draft" /\ r.memory = cites /\ r.number - 1 = Latest
  BY <1>1, <1>4 DEF Request
<1>6. Hold(s, r) /\ UNCHANGED <<setting, now, tables>> /\ cites \subseteq Approved
  BY <1>1 DEF ReadDraft, Citable, tables, identityVars, runVars
<1>7. request'[s] = r
  BY <1>6, Held
<1>8. \A c \in cites : Harmless(c)
  BY <1>6 DEF VersionsInv, EvidenceFits, Approved
<1>9. FitsAt(s)'
  <2>1. UNCHANGED <<candidate, version>>
    BY <1>6 DEF tables
  <2>2. CitesFit(s)'
    BY <1>2, <1>5, <1>7, <1>8, <2>1 DEF CitesFit, Harmless, Existing
  <2>3. SeenFits(s)' /\ NumberFits(s)'
    BY <1>5, <1>7 DEF SeenFits, NumberFits, Managed
  <2> QED
    BY <2>2, <2>3 DEF FitsAt
<1> QED
  BY <1>5, <1>6, <1>9, HoldStep

\* A promotion remembers the current version.
LEMMA ReadPromotionStep ==
  ASSUME VersionsInv, NEW s \in Slots, NEW v \in Versions, ReadPromotion(s, v)
  PROVE  VersionsInv'
<1>1. PICK r : r = [op |-> "promote", v |-> v, expected |-> agent.current]
  OBVIOUS
<1>2. agent.current \in 0..MaxVersion
  BY DEF VersionsInv, Types, AgentRow
<1>3. r \in Request /\ r.op = "promote"
  BY <1>1, <1>2 DEF Request
<1>4. Hold(s, r) /\ UNCHANGED <<setting, now, tables>>
  BY <1>1 DEF ReadPromotion, tables, identityVars, runVars
<1>5. request'[s] = r
  BY <1>4, Held
<1>6. FitsAt(s)'
  BY <1>3, <1>5 DEF FitsAt, SeenFits, CitesFit, NumberFits, Managed
<1> QED
  BY <1>3, <1>4, <1>6, HoldStep

\* The creator of a set reads the next number.
LEMMA ReadNumberStep ==
  ASSUME VersionsInv, NEW s \in Slots, NEW refs \in Contents, NEW active \in BOOLEAN,
         ReadNumber(s, refs, active)
  PROVE  VersionsInv'
<1>1. PICK r : r = [op |-> "benchmark", number |-> NextNumber, refs |-> refs,
                    active |-> active, clears |-> {}]
  OBVIOUS
<1>2. NextNumber \in Numbers /\ Created = 1..NextNumber - 1
  BY NextNumberIs, AgentVersionsAssumption DEF VersionsInv, ReadNumber, Numbers
<1>3. r \in Request /\ r.op = "benchmark" /\ r.number = NextNumber
  BY <1>1, <1>2 DEF Request
<1>4. Hold(s, r) /\ UNCHANGED <<setting, now, tables>>
  BY <1>1 DEF ReadNumber, tables, identityVars, runVars
<1>5. request'[s] = r /\ UNCHANGED sets
  BY <1>4, Held DEF tables
<1>6. FitsAt(s)'
  BY <1>2, <1>3, <1>5 DEF FitsAt, SeenFits, CitesFit, NumberFits, Managed, Created
<1> QED
  BY <1>3, <1>4, <1>6, HoldStep

\* It clears the flags it sees.
LEMMA ClearFlagsStep ==
  ASSUME VersionsInv, NEW s \in Slots, ClearFlags(s) PROVE VersionsInv'
<1>1. PICK q : q = request[s]
  OBVIOUS
<1>2. q \in [op : {"benchmark", "cleared"}, number : Numbers, refs : Contents,
             active : BOOLEAN, clears : SUBSET Numbers]
  <2>1. q \in Request /\ q.op = "benchmark"
    BY <1>1 DEF ClearFlags, VersionsInv, Types
  <2> QED
    BY <2>1, RequestKind
<1>3. PICK clears : clears = IF q.active THEN ActiveSets ELSE {}
  OBVIOUS
<1>4. clears \subseteq Numbers
  BY <1>3 DEF ActiveSets, Created
<1>5. PICK r : r = [q EXCEPT !.op = "cleared", !.clears = clears]
  OBVIOUS
<1>6. /\ r \in [op : {"benchmark", "cleared"}, number : Numbers, refs : Contents,
                active : BOOLEAN, clears : SUBSET Numbers]
      /\ r.op = "cleared" /\ r.number = q.number /\ r.active = q.active /\ r.clears = clears
  BY <1>2, <1>4, <1>5
<1>7. r \in Request
  BY <1>6 DEF Request
<1>8. Hold(s, r) /\ UNCHANGED <<setting, now, tables>>
  BY <1>1, <1>3, <1>5 DEF ClearFlags, tables, identityVars, runVars
<1>9. request'[s] = r /\ UNCHANGED sets
  BY <1>8, Held DEF tables
<1>10. 1..q.number - 1 \subseteq Created
  BY <1>1 DEF ClearFlags, VersionsInv, RequestsFit, FitsAt, NumberFits
<1>11. NumberFits(s)'
  BY <1>3, <1>6, <1>9, <1>10 DEF NumberFits, Created, ActiveSets
<1>12. FitsAt(s)'
  BY <1>6, <1>9, <1>11 DEF FitsAt, SeenFits, CitesFit, Managed
<1> QED
  BY <1>7, <1>8, <1>12, HoldStep

\* The highest of the active sets is a set.
LEMMA FoundSet ==
  ASSUME VersionsInv, ActiveSets # {}
  PROVE  (CHOOSE n \in ActiveSets : \A m \in ActiveSets : m <= n) \in Numbers
<1>1. PICK n : n \in ActiveSets
  OBVIOUS
<1>2. n \in Numbers /\ n \in Int
  BY <1>1 DEF ActiveSets, Created, Numbers
<1>3. \A m \in ActiveSets : m = n
  BY <1>1 DEF VersionsInv, SetsFit, ActiveSets, Created
<1>4. \E k \in ActiveSets : \A m \in ActiveSets : m <= k
  BY <1>1, <1>2, <1>3
<1>5. (CHOOSE k \in ActiveSets : \A m \in ActiveSets : m <= k) \in ActiveSets
  BY <1>4
<1> QED
  BY <1>2, <1>3, <1>5

\* The hook finds the active set.
LEMMA FindSetStep ==
  ASSUME VersionsInv, NEW s \in Slots, FindSet(s) PROVE VersionsInv'
<1>1. PICK n : n = CHOOSE k \in ActiveSets : \A m \in ActiveSets : m <= k
  OBVIOUS
<1>2. n \in Numbers
  BY <1>1, FoundSet DEF FindSet
<1>3. PICK v : v = request[s].v
  OBVIOUS
<1>4. v \in Versions
  <2>1. request[s] \in Request /\ request[s].op = "hook"
    BY DEF FindSet, VersionsInv, Types
  <2> QED
    BY <1>3, <2>1, RequestKind
<1>5. PICK r : r = [op |-> "start", v |-> v, set |-> n]
  OBVIOUS
<1>6. r \in Request /\ r.op = "start"
  BY <1>2, <1>4, <1>5 DEF Request
<1>7. Hold(s, r) /\ UNCHANGED <<setting, now, tables>>
  BY <1>1, <1>3, <1>5 DEF FindSet, tables, identityVars, runVars
<1>8. request'[s] = r
  BY <1>7, Held
<1>9. FitsAt(s)'
  BY <1>6, <1>8 DEF FitsAt, SeenFits, CitesFit, NumberFits, Managed
<1> QED
  BY <1>6, <1>7, <1>9, HoldStep

\* What concerns neither a table nor a request.
LEMMA ElseStep ==
  ASSUME VersionsInv, UNCHANGED <<setting, tables, request>>, now' \in {now, now + 1}
  PROVE  VersionsInv'
<1>1. now' \in Nat /\ request' \in [Slots -> Request]
  BY DEF VersionsInv, Types
<1> QED
  BY <1>1, TablesStand

\* A request that is done.
LEMMA DoneFits ==
  ASSUME VersionsInv, NEW s \in Slots, Done(s)
  PROVE  /\ request' \in [Slots -> Request]
         /\ \A d \in Slots : request'[d] = request[d] \/ FitsAt(d)'
<1>1. Idle \in Request /\ Hold(s, Idle)
  BY DEF Request, Done
<1>2. request' \in [Slots -> Request]
  BY <1>1 DEF VersionsInv, Types, Hold
<1>3. FitsAt(s)'
  BY <1>1, Held, IdleFits
<1> QED
  BY <1>1, <1>2, <1>3, Held

\* What is proven stays proven.
LEMMA ProvenStays ==
  ASSUME credential.status = "consumed" => credential'.status = "consumed",
         \A r \in Runs : run[r].status = "passed" =>
           run'[r].status = "passed" /\ run'[r].version = run[r].version,
         NEW v, Proven(v)
  PROVE  FromActivation(v)' \/ HasPassed(v)'
  BY DEF Proven, FromActivation, HasPassed

\* What an operation on the agent accepts and leaves.
LEMMA TransitionFits ==
  ASSUME NEW op \in Managed, NEW row \in AgentRow, row.status \in Accepts(op)
  PROVE  /\ row.status # "none"
         /\ After(op, row.status) \in {"active", "suspended", "revoked", "pending_activation"}
         /\ After(op, row.status) \in {"active", "suspended"} =>
              row.status \in {"active", "suspended"}
<1>1. CASE op = "suspend"
  BY <1>1 DEF Accepts, After
<1>2. CASE op = "resume"
  BY <1>2 DEF Accepts, After
<1>3. CASE op = "revoke"
  BY <1>3 DEF Accepts, After
<1>4. CASE op = "heartbeat"
  BY <1>4 DEF Accepts, After
<1> QED
  BY <1>1, <1>2, <1>3, <1>4 DEF Managed

\* A step that writes the row of the agent and its credential only.
LEMMA AgentWrites ==
  ASSUME VersionsInv, UNCHANGED <<setting, now, version, sets, run, board, candidate>>,
         agent' \in AgentRow,
         credential' \in {NoRow} \cup [status : {"pending", "consumed"}, expires : Nat],
         credential.status = "consumed" => credential'.status = "consumed",
         AgentFits', request' \in [Slots -> Request],
         \A s \in Slots : request'[s] = request[s] \/ FitsAt(s)'
  PROVE  VersionsInv'
<1>1. Types'
  BY DEF VersionsInv, Types
<1>2. \A v : Proven(v) => Proven(v)'
  BY ProvenStays DEF Proven
<1>3. Counted' /\ OneActive' /\ SetsFit' /\ EvidenceFits'
  BY DEF VersionsInv, Counted, Existing, Created, OneActive, SetsFit, EvidenceFits, Harmless
<1>4. RunsFit'
  BY <1>2 DEF VersionsInv, RunsFit
<1>5. WorkFits'
  BY <1>2 DEF VersionsInv, WorkFits
<1>6. Grows
  BY <1>2 DEF Grows, Existing, Harmless
<1>7. RequestsFit'
  BY <1>6, RequestsFollow DEF VersionsInv
<1> QED
  BY <1>1, <1>3, <1>4, <1>5, <1>7 DEF VersionsInv

\* RegisterAgent.
LEMMA RegisterStep ==
  ASSUME VersionsInv, Register PROVE VersionsInv'
<1>1. agent' \in AgentRow /\ agent'.status = "pending_activation" /\ agent'.current = 0
  BY AgentVersionsAssumption DEF Register, NewAgent, AgentRow
<1>2. now + CredentialTTL \in Nat
  BY AgentVersionsAssumption DEF VersionsInv, Types
<1>3. credential' \in [status : {"pending", "consumed"}, expires : Nat]
  BY <1>2 DEF Register, NewCredential
<1>4. credential.status # "consumed"
  BY DEF Register, NoAgent, VersionsInv, AgentFits
<1>5. AgentFits'
  BY <1>1 DEF AgentFits, RowFits
<1>6. request' \in [Slots -> Request] /\ \A s \in Slots : request'[s] = request[s]
  BY DEF Register, VersionsInv, Types
<1>7. UNCHANGED <<setting, now, version, sets, run, board, candidate>>
  BY DEF Register, runVars
<1> QED
  BY <1>1, <1>3, <1>4, <1>5, <1>6, <1>7, AgentWrites

\* The row that was read goes back.
LEMMA WriteAgentStep ==
  ASSUME VersionsInv, NEW s \in Slots, WriteAgent(s) PROVE VersionsInv'
<1>1. PICK op, row : op = request[s].op /\ row = request[s].seen
  OBVIOUS
<1>2. op \in Managed /\ row \in AgentRow
  <2>1. request[s] \in Request /\ request[s].op \in Managed
    BY DEF WriteAgent, VersionsInv, Types
  <2> QED
    BY <1>1, <2>1, RequestKind
<1>3. RowFits(row) /\ row.status \in Accepts(op)
  BY <1>1, <1>2 DEF VersionsInv, RequestsFit, FitsAt, SeenFits
<1>4. PICK status : status = After(op, row.status)
  OBVIOUS
<1>5. /\ status \in {"active", "suspended", "revoked", "pending_activation"}
      /\ status \in {"active", "suspended"} => row.status \in {"active", "suspended"}
  BY <1>2, <1>3, <1>4, TransitionFits
<1>6. /\ agent' = [status |-> status, current |-> row.current] /\ Done(s)
      /\ UNCHANGED <<setting, now, version, sets, run, board, candidate, credential>>
  BY <1>1, <1>4 DEF WriteAgent, runVars
<1>7. agent' \in AgentRow /\ agent'.status = status /\ agent'.current = row.current
  BY <1>2, <1>5, <1>6 DEF AgentRow
<1>8. RowFits(agent)'
  BY <1>3, <1>5, <1>6, <1>7 DEF RowFits, Proven, FromActivation, HasPassed
<1>9. AgentFits'
  BY <1>5, <1>7, <1>8 DEF AgentFits
<1>10. credential' \in {NoRow} \cup [status : {"pending", "consumed"}, expires : Nat]
  BY <1>6 DEF VersionsInv, Types
<1> QED
  BY <1>6, <1>7, <1>9, <1>10, DoneFits, AgentWrites

\* Only the current version moves.
LEMMA RollbackStep ==
  ASSUME VersionsInv, NEW v \in Versions, Rollback(v) PROVE VersionsInv'
<1>1. agent \in AgentRow /\ v \in 1..MaxVersion
  BY DEF VersionsInv, Types, Versions
<1>2. agent' = [agent EXCEPT !.current = v]
  BY DEF Rollback, PointedAt
<1>3. agent' \in AgentRow /\ agent'.status = agent.status /\ agent'.current = v
  BY <1>1, <1>2, AgentVersionsAssumption DEF AgentRow
<1>4. Proven(v)
  BY DEF Rollback, CanRollBackTo, Serviceable, VersionsInv, RunsFit
<1>5. UNCHANGED <<setting, now, version, sets, run, board, candidate, credential, request>>
  BY DEF Rollback, runVars
<1>6. v # 0
  BY <1>1, AgentVersionsAssumption
<1>7. AgentFits'
  BY <1>3, <1>4, <1>5, <1>6
  DEF AgentFits, RowFits, Proven, FromActivation, HasPassed, VersionsInv
<1>8. /\ credential' \in {NoRow} \cup [status : {"pending", "consumed"}, expires : Nat]
      /\ request' \in [Slots -> Request]
  BY <1>5 DEF VersionsInv, Types
<1> QED
  BY <1>3, <1>5, <1>7, <1>8, AgentWrites

\* A version that is there, and one that is not.
LEMMA VersionIsThere ==
  ASSUME VersionsInv, NEW v \in Versions
  PROVE  v \in Existing <=> version[v].status # "none"
<1>1. version[v] \in {NoRow} \cup VersionRow
  BY DEF VersionsInv, Types
<1> QED
  BY <1>1, RowIsThere DEF Existing

\* A step that puts a first row where a version is not there yet.
LEMMA NewVersion ==
  ASSUME VersionsInv, UNCHANGED <<setting, now, sets, run, board, candidate>>,
         NEW n \in Versions, FreeVersion(n), 1..n - 1 \subseteq Existing,
         NEW q \in VersionRow, version' = [version EXCEPT ![n] = q],
         q.status \in {"draft", "active"}, \A c \in q.memory : Harmless(c),
         q.status = "active" => n = 1 /\ Proven(n)',
         agent' \in AgentRow,
         credential' \in {NoRow} \cup [status : {"pending", "consumed"}, expires : Nat],
         credential.status = "consumed" => credential'.status = "consumed",
         AgentFits', request' \in [Slots -> Request],
         \A s \in Slots : request'[s] = request[s] \/ FitsAt(s)'
  PROVE  VersionsInv'
<1>1. /\ version' \in [Versions -> {NoRow} \cup VersionRow] /\ version'[n] = q
      /\ \A v \in Versions \ {n} : version'[v] = version[v]
  BY DEF VersionsInv, Types
<1>2. Types'
  BY <1>1 DEF VersionsInv, Types
<1>3. version[n] = NoRow /\ version[n].status = "none" /\ q # NoRow
  BY RowIsThere DEF FreeVersion, NoRow
<1>4. Existing' = Existing \cup {n} /\ n \notin Existing
  BY <1>1, <1>3 DEF Existing
<1>5. Counted'
  <2>1. PICK k \in 0..MaxVersion : Existing = 1..k
    BY DEF VersionsInv, Counted
  <2>2. k \in Nat /\ n \in Nat /\ MaxVersion \in Nat /\ n >= 1 /\ n <= MaxVersion
    BY <2>1, AgentVersionsAssumption DEF Versions
  <2>3. n = k + 1
    <3>1. ~ (n <= k)
      BY <1>4, <2>1, <2>2
    <3>2. CASE n = 1
      BY <2>2, <3>1, <3>2
    <3>3. CASE n # 1
      <4>1. n - 1 \in 1..n - 1
        BY <2>2, <3>3
      <4>2. n - 1 \in 1..k
        BY <2>1, <4>1
      <4> QED
        BY <2>2, <3>1, <4>2
    <3> QED
      BY <3>2, <3>3
  <2>4. Existing' = 1..k + 1 /\ k + 1 \in 0..MaxVersion
    BY <1>4, <2>1, <2>2, <2>3
  <2> QED
    BY <2>4 DEF VersionsInv, Counted, Created
<1>6. \A v : Proven(v) => Proven(v)'
  BY ProvenStays DEF Proven
<1>7. \A r \in Runs : run[r].status # "none" => run[r].version # n /\ run[r].version \in Versions
  <2> SUFFICES ASSUME NEW r \in Runs, run[r].status # "none"
               PROVE  run[r].version # n /\ run[r].version \in Versions
    OBVIOUS
  <2>1. run[r] \in RunRow
    BY DEF VersionsInv, Types, NoRow
  <2>2. run[r].status \in {"running", "failed", "passed"} /\ run[r].version \in Versions
    BY <2>1 DEF RunRow
  <2>3. version[run[r].version].status \in {"evaluating", "rejected"} \cup Serviceable
    BY <2>2 DEF VersionsInv, RunsFit
  <2> QED
    BY <1>3, <2>2, <2>3 DEF Serviceable
<1>8. RunsFit'
  <2>1. \A v \in Versions : version'[v].status \in {"evaluating", "rejected"} =>
          v # n /\ version'[v] = version[v]
    BY <1>1
  <2>2. \A v \in Versions : version'[v].status \in Serviceable => Proven(v)'
    BY <1>1, <1>6 DEF VersionsInv, RunsFit, Serviceable
  <2> QED
    BY <1>1, <1>7, <2>1, <2>2 DEF VersionsInv, RunsFit
<1>9. OneActive'
  <2>1. CASE q.status = "draft"
    BY <1>1, <2>1 DEF VersionsInv, OneActive
  <2>2. CASE q.status = "active"
    <3>1. Existing = {}
      <4>1. PICK k \in 0..MaxVersion : Existing = 1..k
        BY DEF VersionsInv, Counted
      <4>2. 1 \notin 1..k /\ k \in Nat
        BY <1>4, <2>2, <4>1, AgentVersionsAssumption
      <4> QED
        BY <4>1, <4>2
    <3>2. \A v \in Versions : version[v].status # "active"
      BY <3>1, VersionIsThere
    <3> QED
      BY <1>1, <3>2 DEF OneActive
  <2> QED
    BY <2>1, <2>2
<1>10. WorkFits'
  BY <1>6 DEF VersionsInv, WorkFits
<1>11. EvidenceFits'
  BY <1>1 DEF VersionsInv, EvidenceFits, Harmless
<1>12. SetsFit'
  BY DEF VersionsInv, SetsFit
<1>13. Grows
  BY <1>4, <1>6 DEF Grows, Harmless
<1>14. RequestsFit'
  BY <1>13, RequestsFollow DEF VersionsInv
<1> QED
  BY <1>2, <1>5, <1>8, <1>9, <1>10, <1>11, <1>12, <1>14 DEF VersionsInv

\* ActivateAgent.
LEMMA ActivateStep ==
  ASSUME VersionsInv, NEW s \in Slots, Activate(s) PROVE VersionsInv'
<1> USE AgentVersionsAssumption
<1>1. /\ agent' = Activated /\ credential' = Consumed /\ FreeVersion(1) /\ Done(s)
      /\ version' = [version EXCEPT ![1] = FirstVersion]
      /\ UNCHANGED <<setting, now, sets, run, board, candidate>>
  BY DEF Activate, runVars
<1>2. credential \in [status : {"pending", "consumed"}, expires : Nat]
  BY DEF Activate, Usable, VersionsInv, Types, NoRow
<1>3. credential' \in [status : {"pending", "consumed"}, expires : Nat]
        /\ credential'.status = "consumed"
  BY <1>1, <1>2 DEF Consumed
<1>4. /\ agent' \in AgentRow /\ agent'.status = "active" /\ agent'.current = 1
  BY <1>1 DEF Activated, AgentRow
<1>5. Proven(1)'
  BY <1>3 DEF Proven, FromActivation
<1>6. AgentFits'
  BY <1>3, <1>4, <1>5 DEF AgentFits, RowFits, Proven, FromActivation, HasPassed
<1>7. /\ FirstVersion \in VersionRow /\ FirstVersion.status = "active"
      /\ FirstVersion.memory = {}
  BY DEF FirstVersion, VersionRow
<1>8. 1 \in Versions /\ 1..1 - 1 \subseteq Existing
  BY DEF Versions
<1> QED
  BY <1>1, <1>3, <1>4, <1>5, <1>6, <1>7, <1>8, DoneFits, NewVersion

\* The draft is inserted, and its hook may follow.
LEMMA InsertDraftStep ==
  ASSUME VersionsInv, NEW s \in Slots, InsertDraft(s) PROVE VersionsInv'
<1>1. PICK r : r = request[s]
  OBVIOUS
<1>2. r \in Request /\ r.op = "draft"
  BY <1>1 DEF InsertDraft, VersionsInv, Types
<1>3. r \in [op : {"draft"}, number : Versions, config : Configs, memory : SUBSET Candidates]
  BY <1>2, RequestKind
<1>4. PICK n : n = r.number
  OBVIOUS
<1>5. PICK h : h = IF setting.auto THEN [op |-> "hook", v |-> n] ELSE Idle
  OBVIOUS
<1>6. n \in Versions /\ h \in Request
  BY <1>3, <1>4, <1>5 DEF Request
<1>7. /\ FreeVersion(n) /\ version' = [version EXCEPT ![n] = NewDraft(r)]
      /\ Hold(s, h)
      /\ UNCHANGED <<setting, now, agent, credential, sets, run, board, candidate>>
  BY <1>1, <1>4, <1>5 DEF InsertDraft, identityVars, runVars
<1>8. PICK q : q = NewDraft(r)
  OBVIOUS
<1>9. q \in VersionRow /\ q.status = "draft" /\ q.memory = r.memory
  BY <1>3, <1>8 DEF NewDraft, VersionRow
<1>10. (\A c \in q.memory : Harmless(c)) /\ 1..n - 1 \subseteq Existing
  BY <1>1, <1>2, <1>4, <1>9 DEF VersionsInv, RequestsFit, FitsAt, CitesFit
<1>11. request' \in [Slots -> Request] /\ request'[s] = h
  BY <1>6, <1>7 DEF VersionsInv, Types, Hold
<1>12. h.op \in {"hook", "idle"}
  BY <1>5 DEF Idle
<1>13. FitsAt(s)'
  BY <1>11, <1>12 DEF FitsAt, SeenFits, CitesFit, NumberFits, Managed
<1>14. /\ agent' \in AgentRow /\ AgentFits'
       /\ credential' \in {NoRow} \cup [status : {"pending", "consumed"}, expires : Nat]
  BY <1>7 DEF VersionsInv, Types, AgentFits, RowFits, Proven, FromActivation, HasPassed
<1>15. \A d \in Slots : request'[d] = request[d] \/ FitsAt(d)'
  BY <1>7, <1>13, Held
<1> QED
  BY <1>6, <1>7, <1>8, <1>9, <1>10, <1>11, <1>14, <1>15, NewVersion

\* Promotion, under the lock of the agent row.
LEMMA PromoteStep ==
  ASSUME VersionsInv, NEW s \in Slots, Promote(s) PROVE VersionsInv'
<1>1. PICK v : v = request[s].v
  OBVIOUS
<1>2. v \in Versions
  <2>1. request[s] \in Request /\ request[s].op = "promote"
    BY DEF Promote, VersionsInv, Types
  <2> QED
    BY <1>1, <2>1, RequestKind
<1>3. /\ version[v].status = "eligible" /\ HasPassed(v)
      /\ version' = Promoted(v) /\ agent' = PointedAt(v) /\ Done(s)
      /\ UNCHANGED <<setting, now, credential, sets, run, board, candidate>>
  BY <1>1 DEF Promote, runVars
<1>4. \A w \in Versions : version[w] \in {NoRow} \cup VersionRow
  BY DEF VersionsInv, Types
<1>5. \A w \in Retiring : w \in Versions /\ version[w].status = "active"
  BY DEF Retiring, ActiveVersions, Existing
<1>6. \A w \in Versions : version[w].status = "active" => w \in Retiring
  <2> SUFFICES ASSUME NEW w \in Versions, version[w].status = "active" PROVE w \in Retiring
    OBVIOUS
  <2>1. w \in ActiveVersions
    BY VersionIsThere DEF ActiveVersions
  <2>2. \A u \in ActiveVersions : u = w
    BY DEF ActiveVersions, Existing, VersionsInv, OneActive
  <2>3. w \in Int
    BY DEF Versions
  <2> QED
    BY <2>1, <2>2, <2>3 DEF Retiring
<1>7. ASSUME NEW q \in VersionRow, NEW t \in {"active", "retired"}
      PROVE  LET p == [q EXCEPT !.status = t] IN
             p \in VersionRow /\ p.status = t /\ p.memory = q.memory
  BY DEF VersionRow
<1>8. ASSUME NEW w \in Versions
      PROVE  /\ version'[w] \in {NoRow} \cup VersionRow
             /\ version'[w].status # "none" <=> version[w].status # "none"
             /\ version[w].status # "none" => version'[w].memory = version[w].memory
             /\ \/ w = v /\ version'[w].status = "active"
                \/ /\ w # v /\ version[w].status = "active"
                   /\ version'[w].status = "retired"
                \/ /\ w # v /\ version[w].status # "active"
                   /\ version'[w] = version[w]
  <2>1. version'[w] = IF w = v THEN [version[w] EXCEPT !.status = "active"]
                      ELSE IF w \in Retiring THEN [version[w] EXCEPT !.status = "retired"]
                      ELSE version[w]
    BY <1>3 DEF Promoted
  <2>2. CASE w = v
    <3>1. version[w] \in VersionRow
      BY <1>3, <1>4, <2>2 DEF NoRow
    <3> QED
      BY <1>3, <1>7, <2>1, <2>2, <3>1
  <2>3. CASE w # v /\ w \in Retiring
    <3>1. version[w] \in VersionRow /\ version[w].status = "active"
      BY <1>4, <1>5, <2>3 DEF NoRow
    <3> QED
      BY <1>7, <2>1, <2>3, <3>1
  <2>4. CASE w # v /\ w \notin Retiring
    BY <1>4, <1>6, <2>1, <2>4
  <2> QED
    BY <2>2, <2>3, <2>4
<1>9. version' \in [Versions -> {NoRow} \cup VersionRow]
  <2>1. version' = [w \in Versions |-> version'[w]]
    BY <1>3 DEF Promoted
  <2> QED
    BY <1>8, <2>1
<1>10. /\ agent' \in AgentRow /\ agent'.current = v /\ agent'.status = agent.status
  <2>1. agent \in AgentRow /\ v \in 0..MaxVersion
    BY <1>2, AgentVersionsAssumption DEF VersionsInv, Types, Versions
  <2> QED
    BY <1>3, <2>1 DEF PointedAt, AgentRow
<1>11. request' \in [Slots -> Request] /\ \A d \in Slots : request'[d] = request[d] \/ FitsAt(d)'
  BY <1>3, DoneFits
<1>12. Types'
  BY <1>3, <1>9, <1>10, <1>11 DEF VersionsInv, Types
<1>13. \A w : Proven(w) => Proven(w)'
  BY <1>3, ProvenStays DEF Proven
<1>14. Existing' = Existing
  <2>1. \A w \in Versions : version'[w] = NoRow <=> version[w] = NoRow
    BY <1>4, <1>8, RowIsThere
  <2> QED
    BY <2>1 DEF Existing
<1>15. Counted'
  BY <1>3, <1>14 DEF VersionsInv, Counted, Created
<1>16. AgentFits'
  <2>1. v # 0 /\ Proven(v)
    BY <1>2, <1>3 DEF Proven, Versions
  <2> QED
    BY <1>3, <1>10, <1>13, <2>1 DEF VersionsInv, AgentFits, RowFits
<1>17. RunsFit'
  <2>1. \A r \in Runs : run[r].status # "none" => run[r].version \in Versions
    BY DEF VersionsInv, Types, RunRow, NoRow
  <2>2. ASSUME NEW r \in Runs
        PROVE  /\ run[r].status = "running" => version'[run[r].version].status = "evaluating"
               /\ run[r].status = "failed" => version'[run[r].version].status = "rejected"
               /\ run[r].status = "passed" => version'[run[r].version].status \in Serviceable
    <3>1. CASE run[r].status = "running"
      BY <1>3, <1>8, <2>1, <3>1 DEF VersionsInv, RunsFit
    <3>2. CASE run[r].status = "failed"
      BY <1>3, <1>8, <2>1, <3>2 DEF VersionsInv, RunsFit
    <3>3. CASE run[r].status = "passed"
      BY <1>8, <2>1, <3>3 DEF VersionsInv, RunsFit, Serviceable
    <3> QED
      BY <3>1, <3>2, <3>3
  <2>3. ASSUME NEW w \in Versions
        PROVE  /\ version'[w].status \in {"evaluating", "rejected"} => version'[w] = version[w]
               /\ version'[w].status \in Serviceable => version[w].status \in Serviceable
    BY <1>3, <1>8 DEF Serviceable
  <2> QED
    BY <1>3, <1>13, <2>2, <2>3 DEF VersionsInv, RunsFit
<1>18. OneActive'
  BY <1>8 DEF OneActive
<1>19. WorkFits'
  BY <1>3, <1>13 DEF VersionsInv, WorkFits
<1>20. EvidenceFits'
  BY <1>3, <1>8 DEF VersionsInv, EvidenceFits, Harmless
<1>21. SetsFit'
  BY <1>3 DEF VersionsInv, SetsFit
<1>22. Grows
  BY <1>3, <1>13, <1>14 DEF Grows, Harmless
<1>23. RequestsFit'
  BY <1>11, <1>22, RequestsFollow DEF VersionsInv
<1> QED
  BY <1>12, <1>15, <1>16, <1>17, <1>18, <1>19, <1>20, <1>21, <1>23 DEF VersionsInv

\* A step that writes one candidate only.
LEMMA CandidateWrites ==
  ASSUME VersionsInv, UNCHANGED <<setting, now, agent, credential, version, sets, run, board>>,
         NEW c \in Candidates, NEW q \in CandidateRow, candidate' = [candidate EXCEPT ![c] = q],
         q.status \in {"pending_review", "approved"} => q.class # "forbidden",
         Harmless(c) => q.class # "forbidden",
         request' \in [Slots -> Request],
         \A s \in Slots : request'[s] = request[s] \/ FitsAt(s)'
  PROVE  VersionsInv'
<1>1. /\ candidate' \in [Candidates -> {NoRow} \cup CandidateRow] /\ candidate'[c] = q
      /\ \A d \in Candidates \ {c} : candidate'[d] = candidate[d]
  BY DEF VersionsInv, Types
<1>2. q.status # "none"
  BY DEF CandidateRow, Verdicts
<1>3. \A d \in Candidates : Harmless(d) => Harmless(d)'
  BY <1>1, <1>2 DEF Harmless
<1>4. Types'
  BY <1>1 DEF VersionsInv, Types
<1>5. Counted' /\ AgentFits' /\ RunsFit'
  BY DEF VersionsInv, Counted, Existing, Created, AgentFits, RowFits, Proven,
         FromActivation, HasPassed, RunsFit
<1>6. OneActive' /\ WorkFits' /\ SetsFit'
  BY DEF VersionsInv, OneActive, WorkFits, Proven, FromActivation, HasPassed, SetsFit
<1>7. EvidenceFits'
  <2>1. \A d \in Candidates :
          candidate'[d].status \in {"pending_review", "approved"} => Harmless(d)'
    BY <1>1, <1>2 DEF VersionsInv, EvidenceFits, Harmless
  <2>2. \A v \in Versions : version[v].status # "none" => version[v].memory \subseteq Candidates
    BY DEF VersionsInv, Types, VersionRow, NoRow
  <2> QED
    BY <1>3, <2>1, <2>2 DEF VersionsInv, EvidenceFits
<1>8. Grows
  BY <1>3 DEF Grows, Existing, Proven, FromActivation, HasPassed
<1>9. RequestsFit'
  BY <1>8, RequestsFollow DEF VersionsInv
<1> QED
  BY <1>4, <1>5, <1>6, <1>7, <1>9 DEF VersionsInv

\* The classifier rejects forbidden evidence on the spot.
LEMMA ExtractStep ==
  ASSUME VersionsInv, NEW c \in Candidates, NEW class \in Classes, Extract(c, class)
  PROVE  VersionsInv'
<1>1. PICK q : q = Classified(class)
  OBVIOUS
<1>2. /\ q \in CandidateRow /\ q.class = class
      /\ class = "forbidden" => q.status = "rejected"
  BY <1>1 DEF Classified, NewExperienceCandidate, CandidateRow, Verdicts
<1>3. ~ Harmless(c)
  BY DEF Extract, Harmless, NoRow
<1>4. /\ candidate' = [candidate EXCEPT ![c] = q]
      /\ UNCHANGED <<setting, now, agent, credential, version, sets, run, board, request>>
  BY <1>1 DEF Extract, identityVars, runVars
<1>5. request' \in [Slots -> Request]
  BY <1>4 DEF VersionsInv, Types
<1> QED
  BY <1>2, <1>3, <1>4, <1>5, CandidateWrites

\* The verdict goes over whatever status the candidate has.
LEMMA JudgeStep ==
  ASSUME VersionsInv, NEW s \in Slots, Judge(s) PROVE VersionsInv'
<1>1. PICK c, verdict : c = request[s].candidate /\ verdict = request[s].verdict
  OBVIOUS
<1>2. request[s] \in Request /\ request[s].op = "judge"
  BY DEF Judge, VersionsInv, Types
<1>3. c \in Candidates /\ verdict \in Verdicts
  BY <1>1, <1>2, RequestKind
<1>4. Harmless(c)
  BY <1>1, <1>2 DEF VersionsInv, RequestsFit, FitsAt, CitesFit
<1>5. candidate[c] \in CandidateRow
  BY <1>3, <1>4 DEF VersionsInv, Types, Harmless, NoRow
<1>6. PICK q : q = [candidate[c] EXCEPT !.status = verdict]
  OBVIOUS
<1>7. q \in CandidateRow /\ q.class = candidate[c].class
  BY <1>3, <1>5, <1>6 DEF CandidateRow
<1>8. /\ candidate' = [candidate EXCEPT ![c] = q] /\ Done(s)
      /\ UNCHANGED <<setting, now, agent, credential, version, sets, run, board>>
  BY <1>1, <1>6 DEF Judge, identityVars, runVars
<1> QED
  BY <1>3, <1>4, <1>7, <1>8, DoneFits, CandidateWrites DEF Harmless

\* The set is inserted, and the flags are cleared with it.
LEMMA CreateSetStep ==
  ASSUME VersionsInv, NEW s \in Slots, CreateSet(s) PROVE VersionsInv'
<1>1. PICK r : r = request[s]
  OBVIOUS
<1>2. r \in Request /\ r.op = "cleared"
  BY <1>1 DEF CreateSet, VersionsInv, Types
<1>3. r \in [op : {"benchmark", "cleared"}, number : Numbers, refs : Contents,
             active : BOOLEAN, clears : SUBSET Numbers]
  BY <1>2, RequestKind
<1>4. PICK k, new : k = r.number /\ new = NewSet(r)
  OBVIOUS
<1>5. /\ k \in Numbers /\ sets[k] = NoRow /\ Done(s)
      /\ sets' = [n \in Numbers |-> IF n = k THEN new
                                    ELSE IF n \in r.clears THEN [sets[n] EXCEPT !.active = FALSE]
                                    ELSE sets[n]]
      /\ UNCHANGED <<setting, now, agent, credential, version, run, board, candidate>>
  BY <1>1, <1>3, <1>4 DEF CreateSet, InsertedAs, identityVars, runVars
<1>6. new \in SetRow /\ new.active = r.active /\ new # NoRow
  BY <1>3, <1>4 DEF NewSet, SetRow, NoRow
<1>7. /\ 1..k - 1 \subseteq Created /\ r.clears \subseteq Created
      /\ r.active => ActiveSets \subseteq r.clears
  BY <1>1, <1>2, <1>4, <1>5 DEF VersionsInv, RequestsFit, FitsAt, NumberFits
<1>8. \A n \in Numbers : sets[n] \in {NoRow} \cup SetRow
  BY DEF VersionsInv, Types
<1>9. ASSUME NEW n \in Numbers \ {k}
      PROVE  /\ sets'[n] \in {NoRow} \cup SetRow
             /\ sets'[n] = NoRow <=> sets[n] = NoRow
             /\ sets'[n] # NoRow /\ sets'[n].active =>
                  sets[n].active /\ n \notin r.clears
  <2>1. CASE n \in r.clears
    <3>1. sets[n] \in SetRow
      BY <1>7, <1>8, <2>1 DEF Created
    <3>2. sets'[n] = [sets[n] EXCEPT !.active = FALSE]
      BY <1>5, <2>1
    <3>3. sets'[n] \in SetRow /\ ~ sets'[n].active
      BY <3>1, <3>2 DEF SetRow
    <3> QED
      BY <3>1, <3>3, RowIsThere DEF SetRow
  <2>2. CASE n \notin r.clears
    BY <1>5, <1>8, <2>2
  <2> QED
    BY <2>1, <2>2
<1>10. sets'[k] = new
  BY <1>5
<1>11. sets' \in [Numbers -> {NoRow} \cup SetRow]
  <2>1. sets' = [n \in Numbers |-> sets'[n]]
    BY <1>5
  <2> QED
    BY <1>6, <1>9, <1>10, <2>1
<1>12. request' \in [Slots -> Request] /\ \A d \in Slots : request'[d] = request[d] \/ FitsAt(d)'
  BY <1>5, DoneFits
<1>13. Types'
  BY <1>5, <1>11, <1>12 DEF VersionsInv, Types
<1>14. Created' = Created \cup {k} /\ k \notin Created
  BY <1>5, <1>6, <1>9, <1>10 DEF Created
<1>15. Counted'
  <2>1. PICK m \in 0..MaxSet : Created = 1..m
    BY DEF VersionsInv, Counted
  <2>2. m \in Nat /\ k \in Nat /\ MaxSet \in Nat /\ k >= 1 /\ k <= MaxSet
    BY <1>5, <2>1, AgentVersionsAssumption DEF Numbers
  <2>3. k = m + 1
    <3>1. ~ (k <= m)
      BY <1>14, <2>1, <2>2
    <3>2. CASE k = 1
      BY <2>2, <3>1, <3>2
    <3>3. CASE k # 1
      <4>1. k - 1 \in 1..k - 1
        BY <2>2, <3>3
      <4>2. k - 1 \in 1..m
        BY <1>7, <2>1, <4>1
      <4> QED
        BY <2>2, <3>1, <4>2
    <3> QED
      BY <3>2, <3>3
  <2>4. Created' = 1..m + 1 /\ m + 1 \in 0..MaxSet
    BY <1>14, <2>1, <2>2, <2>3
  <2> QED
    BY <1>5, <2>4 DEF VersionsInv, Counted, Existing
<1>16. AgentFits' /\ RunsFit' /\ OneActive'
  BY <1>5 DEF VersionsInv, AgentFits, RowFits, Proven, FromActivation, HasPassed, RunsFit,
              OneActive
<1>17. WorkFits' /\ EvidenceFits'
  BY <1>5 DEF VersionsInv, WorkFits, Proven, FromActivation, HasPassed, EvidenceFits, Harmless
<1>18. SetsFit'
  <2> SUFFICES ASSUME NEW m \in Numbers, NEW n \in Numbers, sets'[m] # NoRow, sets'[n] # NoRow,
                      sets'[m].active, sets'[n].active, m # n
               PROVE  FALSE
    BY DEF SetsFit
  <2>1. \A i \in Numbers \ {k} : sets'[i] # NoRow /\ sets'[i].active =>
          i \in ActiveSets /\ i \notin r.clears
    BY <1>9 DEF ActiveSets, Created
  <2>2. CASE m # k /\ n # k
    BY <2>1, <2>2 DEF VersionsInv, SetsFit, ActiveSets, Created
  <2>3. CASE m = k \/ n = k
    BY <1>6, <1>7, <1>10, <2>1, <2>3
  <2> QED
    BY <2>2, <2>3
<1>19. ASSUME NEW d \in Slots, request'[d] = request[d] PROVE FitsAt(d)'
  <2>1. FitsAt(d)
    BY DEF VersionsInv, RequestsFit
  <2>2. SeenFits(d)' /\ CitesFit(d)'
    BY <1>5, <1>19, <2>1 DEF FitsAt, SeenFits, RowFits, Proven, FromActivation, HasPassed,
                             CitesFit, Harmless, Existing
  <2>3. NumberFits(d)'
    <3>1. PICK q : q = request[d]
      OBVIOUS
    <3>2. q \in Request
      BY <3>1 DEF VersionsInv, Types
    <3>3. q.op \in {"benchmark", "cleared"} => q.number \in Numbers /\ 1..q.number - 1 \subseteq Created
      BY <2>1, <3>1, <3>2, RequestKind DEF FitsAt, NumberFits
    <3>4. q.op = "cleared" => q.clears \subseteq Created
      BY <2>1, <3>1 DEF FitsAt, NumberFits
    <3>5. q.op = "cleared" => sets'[q.number] # NoRow
      <4> SUFFICES ASSUME q.op = "cleared", sets'[q.number] = NoRow PROVE FALSE
        OBVIOUS
      <4>1. q.number \in Numbers /\ q.number # k /\ q.number \notin Created
        BY <1>6, <1>9, <1>10, <3>3 DEF Created
      <4>2. k \in Nat /\ q.number \in Nat /\ k >= 1 /\ q.number >= 1
        BY <1>5, <4>1 DEF Numbers
      <4>3. CASE q.number < k
        <5>1. q.number \in 1..k - 1
          BY <4>2, <4>3
        <5> QED
          BY <1>7, <4>1, <5>1
      <4>4. CASE k < q.number
        <5>1. k \in 1..q.number - 1
          BY <4>2, <4>4
        <5> QED
          BY <1>14, <3>3, <5>1
      <4> QED
        BY <4>1, <4>2, <4>3, <4>4
    <3> QED
      BY <1>14, <1>19, <3>1, <3>3, <3>4, <3>5 DEF NumberFits
  <2> QED
    BY <2>2, <2>3 DEF FitsAt
<1>20. RequestsFit'
  BY <1>12, <1>19 DEF RequestsFit
<1> QED
  BY <1>13, <1>15, <1>16, <1>17, <1>18, <1>20 DEF VersionsInv

\* The status of a version that goes with the status of its run.
GoesWith(status) ==
  CASE status = "running" -> "evaluating" [] status = "passed" -> "eligible" [] OTHER -> "rejected"

\* A run begins or ends, and its version goes with it.
LEMMA RunMoves ==
  ASSUME VersionsInv, UNCHANGED <<setting, now, agent, credential, sets, board, candidate>>,
         NEW r \in Runs, NEW v \in Versions, NEW q \in RunRow, q.version = v,
         run' = [run EXCEPT ![r] = q], version' = UpdateStatus(v, GoesWith(q.status)),
         request' \in [Slots -> Request],
         \A s \in Slots : request'[s] = request[s] \/ FitsAt(s)',
         (run[r].status = "none" /\ version[v].status = "draft")
           \/ (run[r].status = "running" /\ run[r].version = v)
  PROVE  VersionsInv'
<1>a. PICK status : status = GoesWith(q.status)
  OBVIOUS
<1>b. \/ q.status = "running" /\ status = "evaluating"
      \/ q.status = "passed" /\ status = "eligible"
      \/ q.status = "failed" /\ status = "rejected"
  <2>1. q.status \in {"running", "passed", "failed"}
    BY DEF RunRow
  <2> QED
    BY <1>a, <2>1 DEF GoesWith
<1>1. \A d \in Runs : run[d] \in {NoRow} \cup RunRow
  BY DEF VersionsInv, Types
<1>2. \A d \in Runs \ {r} : run[d].status # "none" => run[d].version # v /\ run[d].version \in Versions
  <2> SUFFICES ASSUME NEW d \in Runs \ {r}, run[d].status # "none"
               PROVE  run[d].version # v /\ run[d].version \in Versions
    OBVIOUS
  <2>1. run[d] \in RunRow
    BY <1>1 DEF NoRow
  <2>2. run[d].version \in Versions /\ run[d].status \in {"running", "passed", "failed"}
    BY <2>1 DEF RunRow
  <2>3. version[run[d].version].status # "draft"
    BY <2>2 DEF VersionsInv, RunsFit, Serviceable
  <2>4. CASE run[r].status = "none" /\ version[v].status = "draft"
    BY <2>2, <2>3, <2>4
  <2>5. CASE run[r].status = "running" /\ run[r].version = v
    BY <2>2, <2>5 DEF VersionsInv, RunsFit
  <2> QED
    BY <2>2, <2>4, <2>5
<1>3. version[v].status \in {"draft", "evaluating"}
  BY DEF VersionsInv, RunsFit
<1>4. /\ run' \in [Runs -> {NoRow} \cup RunRow] /\ run'[r] = q
      /\ \A d \in Runs \ {r} : run'[d] = run[d]
  BY DEF VersionsInv, Types
<1>5. version[v] \in VersionRow
  BY <1>3 DEF VersionsInv, Types, NoRow
<1>6. PICK p : p = [version[v] EXCEPT !.status = status]
  OBVIOUS
<1>7. status \in {"evaluating", "eligible", "rejected"}
  BY <1>b
<1>8. p \in VersionRow /\ p.status = status /\ p.memory = version[v].memory
  BY <1>5, <1>6, <1>7 DEF VersionRow
<1>9. version' = [version EXCEPT ![v] = p]
  BY <1>6, <1>a DEF UpdateStatus
<1>10. /\ version' \in [Versions -> {NoRow} \cup VersionRow] /\ version'[v] = p
       /\ \A w \in Versions \ {v} : version'[w] = version[w]
  BY <1>8, <1>9 DEF VersionsInv, Types
<1>11. Types'
  BY <1>4, <1>10 DEF VersionsInv, Types
<1>12. \A w : Proven(w) => Proven(w)'
  <2>1. \A d \in Runs : run[d].status = "passed" => run'[d] = run[d]
    BY <1>4
  <2> QED
    BY <2>1, ProvenStays DEF Proven
<1>13. Existing' = Existing
  BY <1>5, <1>8, <1>10, RowIsThere DEF Existing, VersionRow
<1>14. Counted'
  BY <1>13 DEF VersionsInv, Counted, Created
<1>15. AgentFits'
  BY <1>12 DEF VersionsInv, AgentFits, RowFits
<1>16. RunsFit'
  <2>1. ASSUME NEW d \in Runs, NEW e \in Runs, run'[d].status # "none", run'[e].status # "none",
               run'[d].version = run'[e].version
        PROVE  d = e
    BY <1>2, <1>4, <2>1 DEF VersionsInv, RunsFit
  <2>2. ASSUME NEW d \in Runs
        PROVE  /\ run'[d].status = "running" => version'[run'[d].version].status = "evaluating"
               /\ run'[d].status = "failed" => version'[run'[d].version].status = "rejected"
               /\ run'[d].status = "passed" => version'[run'[d].version].status \in Serviceable
    <3>1. CASE d = r
      BY <1>4, <1>8, <1>10, <1>b, <3>1 DEF Serviceable
    <3>2. CASE d # r
      BY <1>2, <1>4, <1>10, <3>2 DEF VersionsInv, RunsFit
    <3> QED
      BY <3>1, <3>2
  <2>3. ASSUME NEW w \in Versions
        PROVE  /\ version'[w].status = "evaluating" =>
                    \E d \in Runs : run'[d].status = "running" /\ run'[d].version = w
               /\ version'[w].status = "rejected" =>
                    \E d \in Runs : run'[d].status = "failed" /\ run'[d].version = w
               /\ version'[w].status \in Serviceable => Proven(w)'
    <3>1. CASE w = v
      <4>1. q.status = "passed" => Proven(v)'
        BY <1>4 DEF Proven, HasPassed
      <4> QED
        BY <1>4, <1>8, <1>10, <1>b, <3>1, <4>1 DEF Serviceable
    <3>2. CASE w # v
      <4>1. run[r].status # "none" => run[r].version # w
        BY <3>2
      <4>2. \A d \in Runs : run[d].status # "none" /\ run[d].version = w => run'[d] = run[d]
        BY <1>4, <4>1
      <4>3. version'[w] = version[w]
        BY <1>10, <3>2
      <4>4. version[w].status = "evaluating" =>
              \E d \in Runs : run'[d].status = "running" /\ run'[d].version = w
        BY <4>2 DEF VersionsInv, RunsFit
      <4>5. version[w].status = "rejected" =>
              \E d \in Runs : run'[d].status = "failed" /\ run'[d].version = w
        BY <4>2 DEF VersionsInv, RunsFit
      <4> QED
        BY <1>12, <4>3, <4>4, <4>5 DEF VersionsInv, RunsFit
    <3> QED
      BY <3>1, <3>2
  <2> QED
    BY <2>1, <2>2, <2>3 DEF RunsFit
<1>17. OneActive'
  BY <1>7, <1>8, <1>10 DEF VersionsInv, OneActive
<1>18. WorkFits'
  BY <1>12 DEF VersionsInv, WorkFits
<1>19. EvidenceFits'
  BY <1>3, <1>8, <1>10 DEF VersionsInv, EvidenceFits, Harmless
<1>20. SetsFit'
  BY DEF VersionsInv, SetsFit
<1>21. Grows
  BY <1>12, <1>13 DEF Grows, Harmless
<1>22. RequestsFit'
  BY <1>21, RequestsFollow DEF VersionsInv
<1> QED
  BY <1>11, <1>14, <1>15, <1>16, <1>17, <1>18, <1>19, <1>20, <1>22 DEF VersionsInv

-----------------------------------------------------------------------------
(* Runs begin and end, and the platform's tasks move.                       *)

\* The verdict on a version goes with the outcome of its run.
LEMMA VerdictGoes ==
  ASSUME NEW passes, NEW v
  PROVE  /\ Outcome(passes) \in {"passed", "failed"}
         /\ Verdict(v, passes) = UpdateStatus(v, GoesWith(Outcome(passes)))
<1>1. CASE passes
  BY <1>1 DEF Outcome, Verdict, GoesWith
<1>2. CASE ~ passes
  BY <1>2 DEF Outcome, Verdict, GoesWith
<1> QED
  BY <1>1, <1>2

\* A run begins, by either executor, with the draft it evaluates.
LEMMA StartRunStep ==
  ASSUME VersionsInv, NEW v \in Versions, NEW n \in Numbers, StartRun(v, n),
         UNCHANGED <<setting, now, agent, credential, sets, candidate>>,
         request' \in [Slots -> Request],
         \A s \in Slots : request'[s] = request[s] \/ FitsAt(s)'
  PROVE  VersionsInv'
<1>1. PICK r \in Runs : Unused(r) /\ (StartOnPlatform(v, n, r) \/ StartOnStub(v, n, r))
  BY DEF StartRun
<1>2. run[r].status = "none" /\ version[v].status = "draft" /\ UNCHANGED board
  BY <1>1 DEF Unused, StartOnPlatform, StartOnStub, IsDraft, NoRow
<1>3. PICK status \in {"running", "passed", "failed"} :
        /\ run' = [run EXCEPT ![r] = NewRun(v, n, status)]
        /\ version' = UpdateStatus(v, GoesWith(status))
  <2>1. CASE StartOnPlatform(v, n, r)
    BY <2>1 DEF StartOnPlatform, UnderEvaluation, GoesWith
  <2>2. CASE StartOnStub(v, n, r)
    <3>1. PICK passes : /\ run' = [run EXCEPT ![r] = NewRun(v, n, Outcome(passes))]
                        /\ version' = Verdict(v, passes)
      BY <2>2 DEF StartOnStub
    <3> QED
      BY <3>1, VerdictGoes
  <2> QED
    BY <1>1, <2>1, <2>2
<1>4. PICK q : q = NewRun(v, n, status)
  OBVIOUS
<1>5. now \in Nat
  BY DEF VersionsInv, Types
<1>6. q \in RunRow /\ q.version = v /\ q.status = status
  BY <1>4, <1>5 DEF NewRun, RunRow
<1>7. run' = [run EXCEPT ![r] = q] /\ version' = UpdateStatus(v, GoesWith(q.status))
  BY <1>3, <1>4, <1>6
<1> QED
  BY <1>2, <1>6, <1>7, RunMoves

\* The owner starts a run.
LEMMA StartEvaluationStep ==
  ASSUME VersionsInv, NEW v \in Versions, NEW n \in Numbers, StartEvaluation(v, n)
  PROVE  VersionsInv'
<1>1. request' \in [Slots -> Request] /\ UNCHANGED request
  BY DEF StartEvaluation, VersionsInv, Types
<1> QED
  BY <1>1, StartRunStep DEF StartEvaluation, identityVars

\* The hook starts a run.
LEMMA StartFromHookStep ==
  ASSUME VersionsInv, NEW s \in Slots, StartFromHook(s) PROVE VersionsInv'
<1>1. PICK v, n : v = request[s].v /\ n = request[s].set
  OBVIOUS
<1>2. request[s] \in Request /\ request[s].op = "start"
  BY DEF StartFromHook, VersionsInv, Types
<1>3. v \in Versions /\ n \in Numbers
  BY <1>1, <1>2, RequestKind
<1>4. StartRun(v, n) /\ Done(s) /\ UNCHANGED <<setting, now, agent, credential, sets, candidate>>
  BY <1>1 DEF StartFromHook, identityVars
<1> QED
  BY <1>3, <1>4, DoneFits, StartRunStep

\* A run is resolved as far as it can be, and ends when nothing is left.
LEMMA HarvestStep ==
  ASSUME VersionsInv, NEW w \in Workers, NEW r \in Runs, Harvest(w, r) PROVE VersionsInv'
<1>1. /\ UNCHANGED <<setting, now, agent, credential, sets, board, candidate, request>>
      /\ \/ UNCHANGED <<run, version>>
         \/ Locks(r) /\ \E passes : Complete(r, passes)
  BY DEF Harvest, identityVars
<1>2. CASE UNCHANGED <<run, version>>
  BY <1>1, <1>2, ElseStep DEF tables
<1>3. ASSUME NEW passes, Locks(r), Complete(r, passes) PROVE VersionsInv'
  <2>1. run[r] \in RunRow /\ run[r].status = "running"
    BY <1>3 DEF Locks, VersionsInv, Types, NoRow
  <2>2. PICK v, status, q : /\ v = run[r].version /\ status = Outcome(passes)
                            /\ q = [run[r] EXCEPT !.status = status]
    OBVIOUS
  <2>3. status \in {"passed", "failed"} /\ version' = UpdateStatus(v, GoesWith(status))
    BY <1>3, <2>2, VerdictGoes DEF Complete
  <2>4. q \in RunRow /\ q.status = status /\ q.version = v /\ v \in Versions
    BY <2>1, <2>2, <2>3 DEF RunRow
  <2>5. run' = [run EXCEPT ![r] = q] /\ version' = UpdateStatus(v, GoesWith(q.status))
    BY <1>3, <2>2, <2>3, <2>4 DEF Complete
  <2>6. request' \in [Slots -> Request] /\ UNCHANGED request
    BY <1>1 DEF VersionsInv, Types
  <2> QED
    BY <1>1, <2>1, <2>2, <2>4, <2>5, <2>6, RunMoves
<1> QED
  BY <1>1, <1>2, <1>3

\* A step that writes one task of the platform only.
LEMMA BoardWrites ==
  ASSUME VersionsInv,
         UNCHANGED <<setting, now, agent, credential, version, sets, run, candidate, request>>,
         NEW r \in Runs, NEW ref \in Refs, NEW q \in TaskRow,
         q.by # 0 => Proven(q.by),
         board' = [board EXCEPT ![r] = [board[r] EXCEPT ![ref] = q]]
  PROVE  VersionsInv'
<1>1. PICK f : f = [board[r] EXCEPT ![ref] = q]
  OBVIOUS
<1>2. board[r] \in [Refs -> TaskRow]
  BY DEF VersionsInv, Types
<1>3. f \in [Refs -> TaskRow] /\ f[ref] = q /\ \A d \in Refs \ {ref} : f[d] = board[r][d]
  BY <1>1, <1>2
<1>4. board' = [board EXCEPT ![r] = f]
  BY <1>1
<1>5. /\ board' \in [Runs -> [Refs -> TaskRow]] /\ board'[r] = f
      /\ \A d \in Runs \ {r} : board'[d] = board[d]
  BY <1>3, <1>4 DEF VersionsInv, Types
<1>6. Types'
  BY <1>5 DEF VersionsInv, Types
<1>7. Counted' /\ AgentFits' /\ RunsFit'
  BY DEF VersionsInv, Counted, Existing, Created, AgentFits, RowFits, Proven,
         FromActivation, HasPassed, RunsFit
<1>8. OneActive' /\ EvidenceFits' /\ SetsFit'
  BY DEF VersionsInv, OneActive, EvidenceFits, Harmless, SetsFit
<1>9. \A v : Proven(v) => Proven(v)'
  BY DEF Proven, FromActivation, HasPassed
<1>10. WorkFits'
  <2>1. \A p \in Runs, d \in Refs : board'[p][d] = board[p][d] \/ board'[p][d] = q
    BY <1>3, <1>5
  <2>2. \A p \in Runs, d \in Refs : board'[p][d].by # 0 => Proven(board'[p][d].by)
    BY <2>1 DEF VersionsInv, WorkFits
  <2> QED
    BY <1>9, <2>2 DEF WorkFits
<1>11. Grows
  BY DEF Grows, Existing, Proven, FromActivation, HasPassed, Harmless
<1>12. RequestsFit'
  BY <1>11, RequestsFollow DEF VersionsInv
<1> QED
  BY <1>6, <1>7, <1>8, <1>10, <1>12 DEF VersionsInv

\* A task keeps who worked at it as it moves.
LEMMA TaskMoves ==
  ASSUME NEW q \in TaskRow, NEW to \in {move[2] : move \in Moves}
  PROVE  [q EXCEPT !.state = to] \in TaskRow /\ [q EXCEPT !.state = to].by = q.by
  BY DEF TaskRow

\* And as it is found slow.
LEMMA SlowTask ==
  ASSUME NEW q \in TaskRow, NEW slow \in BOOLEAN
  PROVE  [q EXCEPT !.slow = slow] \in TaskRow /\ [q EXCEPT !.slow = slow].by = q.by
  BY DEF TaskRow

\* A publication puts a task on the board, or nothing.
LEMMA PublishTaskStep ==
  ASSUME VersionsInv, NEW r \in Runs, NEW ref \in Refs, NEW created \in BOOLEAN,
         NEW ok \in BOOLEAN, PublishTask(r, ref, created, ok)
  PROVE  VersionsInv'
<1>1. UNCHANGED <<setting, now, agent, credential, version, sets, run, candidate, request>>
  BY DEF PublishTask, identityVars
<1>2. board[r] \in [Refs -> TaskRow] /\ board[r][ref] \in TaskRow
  BY DEF VersionsInv, Types
<1>3. PICK q : q = [board[r][ref] EXCEPT !.state = IF created THEN "open" ELSE @]
  OBVIOUS
<1>4. q \in TaskRow /\ q.by = board[r][ref].by
  BY <1>2, <1>3 DEF TaskRow
<1>5. board' = [board EXCEPT ![r] = [board[r] EXCEPT ![ref] = q]]
  BY <1>3 DEF PublishTask
<1>6. q.by # 0 => Proven(q.by)
  BY <1>4 DEF VersionsInv, WorkFits
<1> QED
  BY <1>1, <1>4, <1>5, <1>6, BoardWrites

\* A claim by this agent carries the current version, which is proven.
LEMMA ClaimTaskStep ==
  ASSUME VersionsInv, NEW r \in Runs, NEW ref \in Refs, NEW by \in 0..MaxVersion,
         ClaimTask(r, ref, by)
  PROVE  VersionsInv'
<1>1. UNCHANGED <<setting, now, agent, credential, version, sets, run, candidate, request>>
  BY DEF ClaimTask, identityVars
<1>2. PICK q : q = [state |-> "running", by |-> by, slow |-> FALSE]
  OBVIOUS
<1>3. "running" \in {move[2] : move \in Moves} \cup {move[1] : move \in Moves}
  <2>1. <<"running", "lost">> \in Moves /\ <<"running", "lost">>[1] = "running"
    BY DEF Moves
  <2> QED
    BY <2>1
<1>4. q \in TaskRow /\ q.by = by
  BY <1>2, <1>3 DEF TaskRow
<1>5. by # 0 => Proven(by)
  <2> SUFFICES ASSUME by # 0 PROVE Proven(by)
    OBVIOUS
  <2>1. Presents(by) /\ agent.status = "active"
    BY DEF ClaimTask, Live
  <2>2. agent.current # 0 /\ Proven(agent.current)
    BY <2>1 DEF VersionsInv, AgentFits, RowFits
  <2> QED
    BY <2>1, <2>2 DEF Presents
<1>6. board' = [board EXCEPT ![r] = [board[r] EXCEPT ![ref] = q]]
  BY <1>2 DEF ClaimTask
<1> QED
  BY <1>1, <1>4, <1>5, <1>6, BoardWrites

\* A task moves on.
LEMMA ProceedStep ==
  ASSUME VersionsInv, NEW r \in Runs, NEW ref \in Refs, NEW slow \in BOOLEAN,
         NEW to \in {move[2] : move \in Moves}, Proceed(r, ref, to, slow)
  PROVE  VersionsInv'
<1>1. UNCHANGED <<setting, now, agent, credential, version, sets, run, candidate, request>>
  BY DEF Proceed, identityVars
<1>2. board \in [Runs -> [Refs -> TaskRow]] /\ board[r][ref] \in TaskRow
  BY DEF VersionsInv, Types
<1>3. PICK p, q : /\ p = [board[r][ref] EXCEPT !.state = to]
                  /\ q = [p EXCEPT !.slow = slow]
  OBVIOUS
<1>4. p \in TaskRow /\ p.by = board[r][ref].by
  BY <1>2, <1>3, TaskMoves
<1>a. q \in TaskRow /\ q.by = board[r][ref].by
  BY <1>3, <1>4, SlowTask
<1>5. board' = [board EXCEPT ![r] = [board[r] EXCEPT ![ref] = q]]
  BY <1>2, <1>3 DEF Proceed
<1>6. q.by # 0 => Proven(q.by)
  BY <1>a DEF VersionsInv, WorkFits
<1> QED
  BY <1>1, <1>a, <1>5, <1>6, BoardWrites

-----------------------------------------------------------------------------
(* The invariant.                                                           *)

\* The steps that only move tokens, publishers, plans, batches and the clock.
LEMMA AsideStep ==
  ASSUME VersionsInv,
         \/ Refresh \/ Tick \/ UNCHANGED vars
         \/ \E v \in Versions : Mint(v)
         \/ \E r \in Runs, lost \in BOOLEAN : RecordTask(r, lost)
         \/ \E r \in Runs : PublisherDies(r)
         \/ \E w \in Workers : ListSome(w) \/ \E r \in Runs : HarvestFails(w, r)
  PROVE  VersionsInv'
<1>1. UNCHANGED <<setting, tables, request>> /\ now' \in {now, now + 1}
  BY DEF Refresh, Tick, vars, Mint, RecordTask, PublisherDies, ListSome, ListRunning, HarvestFails,
         tables, identityVars, runVars
<1> QED
  BY <1>1, ElseStep

\* What a process finds in the tables when it starts.
LEMMA InitVersionsInv == Init => VersionsInv
<1> SUFFICES ASSUME Init PROVE VersionsInv
  OBVIOUS
<1> USE AgentVersionsAssumption
<1>1. setting \in Settings /\ now = 0
  BY DEF Init
<1>2. /\ \/ /\ setting.established /\ agent = [status |-> "active", current |-> 1]
            /\ credential = [status |-> "consumed", expires |-> 0]
         \/ ~ setting.established /\ agent = NoAgent /\ credential = NoRow
      /\ 1 \in Versions /\ 1 \in Numbers
  BY DEF Init, Versions, Numbers
<1>3. agent \in AgentRow
  BY <1>2 DEF AgentRow, NoAgent, Versions
<1>4. credential \in {NoRow} \cup [status : {"pending", "consumed"}, expires : Nat]
  BY <1>2
<1>5. FirstVersion \in VersionRow /\ FirstVersion.status = "active" /\ FirstVersion.memory = {}
  BY DEF FirstVersion, VersionRow
<1>6. /\ version \in [Versions -> {NoRow} \cup VersionRow]
      /\ \A v \in Versions : \/ version[v] = NoRow
                             \/ v = 1 /\ setting.established /\ version[v] = FirstVersion
      /\ setting.established => version[1] = FirstVersion
  BY <1>2, <1>5 DEF Init
<1>7. setting.refs # None =>
        [status |-> "created", refs |-> setting.refs, active |-> TRUE] \in SetRow
  BY <1>1 DEF SetRow
<1>8. /\ sets \in [Numbers -> {NoRow} \cup SetRow]
      /\ \A n \in Numbers \ {1} : sets[n] = NoRow
  BY <1>7 DEF Init
<1>9. run \in [Runs -> {NoRow}] /\ candidate \in [Candidates -> {NoRow}] /\ request \in [Slots -> {Idle}]
  BY DEF Init
<1>10. NoTask \in TaskRow /\ NoTask.by = 0
  BY DEF NoTask, TaskRow
<1>11. board \in [Runs -> [Refs -> TaskRow]] /\ \A r \in Runs, ref \in Refs : board[r][ref] = NoTask
  BY <1>10 DEF Init
<1>12. Types
  BY <1>1, <1>3, <1>4, <1>6, <1>8, <1>9, <1>11 DEF Types, Request
<1>13. Counted
  <2>1. Existing = 1..0 \/ Existing = 1..1
    <3>1. CASE setting.established
      BY <1>2, <1>5, <1>6, <3>1, RowIsThere DEF Existing, NoRow
    <3>2. CASE ~ setting.established
      BY <1>6, <3>2 DEF Existing
    <3> QED
      BY <3>1, <3>2
  <2>2. Created = 1..0 \/ Created = 1..1
    <3>1. CASE sets[1] = NoRow
      BY <1>8, <3>1 DEF Created
    <3>2. CASE sets[1] # NoRow
      BY <1>2, <1>8, <3>2 DEF Created
    <3> QED
      BY <3>1, <3>2
  <2>3. 0 \in 0..MaxVersion /\ 1 \in 0..MaxVersion /\ 0 \in 0..MaxSet /\ 1 \in 0..MaxSet
    OBVIOUS
  <2>4. \E k \in 0..MaxVersion : Existing = 1..k
    BY <2>1, <2>3
  <2>5. \E k \in 0..MaxSet : Created = 1..k
    BY <2>2, <2>3
  <2> QED
    BY <2>4, <2>5 DEF Counted
<1>14. AgentFits
  BY <1>2 DEF AgentFits, RowFits, Proven, FromActivation, NoAgent, NoRow
<1>15. RunsFit
  <2>1. \A r \in Runs : run[r].status = "none"
    BY <1>9 DEF NoRow
  <2>2. \A v \in Versions : /\ version[v].status \in {"none", "active"}
                            /\ version[v].status = "active" => Proven(v)
    BY <1>2, <1>5, <1>6 DEF Proven, FromActivation, NoRow
  <2> QED
    BY <2>1, <2>2 DEF RunsFit, Serviceable
<1>16. OneActive
  BY <1>6 DEF OneActive, NoRow
<1>17. WorkFits
  BY <1>10, <1>11 DEF WorkFits
<1>18. EvidenceFits
  <2>1. \A c \in Candidates : candidate[c].status = "none"
    BY <1>9 DEF NoRow
  <2>2. \A v \in Versions : version[v].status # "none" => version[v].memory = {}
    BY <1>5, <1>6 DEF NoRow
  <2> QED
    BY <2>1, <2>2 DEF EvidenceFits
<1>19. SetsFit
  BY <1>8 DEF SetsFit
<1>20. RequestsFit
  BY <1>9 DEF RequestsFit, FitsAt, SeenFits, CitesFit, NumberFits, Idle, Managed
<1> QED
  BY <1>12, <1>13, <1>14, <1>15, <1>16, <1>17, <1>18, <1>19, <1>20 DEF VersionsInv

\* Every step keeps it.
LEMMA StepVersionsInv == VersionsInv /\ [Next]_vars => VersionsInv'
<1> SUFFICES ASSUME VersionsInv, [Next]_vars PROVE VersionsInv'
  OBVIOUS
<1>1. CASE Identity
  <2>1. CASE Register
    BY <2>1, RegisterStep
  <2>2. CASE \/ Refresh \/ \E v \in Versions : Mint(v)
    BY <2>2, AsideStep
  <2>3. ASSUME NEW s \in Slots,
               ReadHeartbeat(s) \/ ReadActivation(s) \/ Activate(s) \/ WriteAgent(s) \/ Abandon(s)
        PROVE  VersionsInv'
    BY <2>3, SeenStep, ActivateStep, WriteAgentStep, AbandonStep
  <2>4. ASSUME NEW s \in Slots, \E op \in Managed : ReadAgent(s, op) PROVE VersionsInv'
    BY <2>4, SeenStep
  <2> QED
    BY <1>1, <2>1, <2>2, <2>3, <2>4 DEF Identity
<1>2. CASE Experience
  BY <1>2, ExtractStep, ReadCandidateStep, JudgeStep DEF Experience
<1>3. CASE Versioning
  <2>1. ASSUME NEW s \in Slots, NEW config \in Configs, NEW cites \in SUBSET Candidates,
               ReadDraft(s, config, cites)
        PROVE  VersionsInv'
    BY <2>1, ReadDraftStep
  <2> QED
    BY <1>3, <2>1, ReadPromotionStep, InsertDraftStep, PromoteStep, RollbackStep DEF Versioning
<1>4. CASE Evaluation
  <2>1. ASSUME NEW s \in Slots, NEW refs \in Contents, NEW active \in BOOLEAN,
               ReadNumber(s, refs, active)
        PROVE  VersionsInv'
    BY <2>1, ReadNumberStep
  <2>2. ASSUME NEW s \in Slots, ClearFlags(s) \/ CreateSet(s) \/ FindSet(s) \/ StartFromHook(s)
        PROVE  VersionsInv'
    BY <2>2, ClearFlagsStep, CreateSetStep, FindSetStep, StartFromHookStep
  <2>3. ASSUME NEW v \in Versions, NEW n \in Numbers, StartEvaluation(v, n) PROVE VersionsInv'
    BY <2>3, StartEvaluationStep
  <2>4. ASSUME NEW r \in Runs, NEW ref \in Refs, NEW created \in BOOLEAN, NEW ok \in BOOLEAN,
               PublishTask(r, ref, created, ok)
        PROVE  VersionsInv'
    BY <2>4, PublishTaskStep
  <2>5. CASE \/ \E r \in Runs, lost \in BOOLEAN : RecordTask(r, lost)
             \/ \E r \in Runs : PublisherDies(r)
    BY <2>5, AsideStep
  <2>6. ASSUME NEW r \in Runs, NEW ref \in Refs, NEW by \in 0..MaxVersion, ClaimTask(r, ref, by)
        PROVE  VersionsInv'
    BY <2>6, ClaimTaskStep
  <2>7. ASSUME NEW r \in Runs, NEW ref \in Refs, NEW slow \in BOOLEAN,
               NEW to \in {move[2] : move \in Moves}, Proceed(r, ref, to, slow)
        PROVE  VersionsInv'
    BY <2>7, ProceedStep
  <2> QED
    BY <1>4, <2>1, <2>2, <2>3, <2>4, <2>5, <2>6, <2>7 DEF Evaluation
<1>5. ASSUME NEW w \in Workers, ListSome(w) \/ HarvestSome(w) \/ \E r \in Runs : HarvestFails(w, r)
      PROVE  VersionsInv'
  BY <1>5, AsideStep, HarvestStep DEF HarvestSome
<1>6. CASE Tick \/ UNCHANGED vars
  BY <1>6, AsideStep
<1> QED
  BY <1>1, <1>2, <1>3, <1>4, <1>5, <1>6 DEF Next

\* The tables agree in every state.
THEOREM TablesAgree == Spec => []VersionsInv
<1>1. Init => VersionsInv
  BY InitVersionsInv
<1>2. VersionsInv /\ [Next]_vars => VersionsInv'
  BY StepVersionsInv
<1> QED
  BY <1>1, <1>2, PTL DEF Spec

-----------------------------------------------------------------------------
(* What the tables agree on is what matters.                                *)

\* A set whose members are all the same has one member at most.
LEMMA OneAtMost ==
  ASSUME NEW S, \A x, y \in S : x = y PROVE Cardinality(S) <= 1
<1>1. CASE S = {}
  BY <1>1, FS_EmptySet
<1>2. ASSUME NEW x \in S PROVE Cardinality(S) <= 1
  <2>1. S = {x}
    BY <1>2
  <2>2. Cardinality({x}) = 1
    BY FS_Singleton
  <2> QED
    BY <2>1, <2>2
<1> QED
  BY <1>1, <1>2

\* No version is built on forbidden evidence: the classifier's rejection holds
\* against reviews and drafts that read the candidate before or after it.
THEOREM ForbiddenNeverIn == Spec => []ForbiddenStaysOut
<1>1. VersionsInv => ForbiddenStaysOut
  <2> SUFFICES ASSUME VersionsInv, NEW v \in Existing, NEW c \in version[v].memory
               PROVE  candidate[c].class # "forbidden"
    BY DEF ForbiddenStaysOut
  <2>1. v \in Versions /\ version[v].status # "none"
    BY VersionIsThere DEF Existing
  <2> QED
    BY <2>1 DEF VersionsInv, EvidenceFits, Harmless
<1> QED
  BY <1>1, TablesAgree, PTL

\* Two creators of benchmark sets never leave two active: the number they
\* compete for, and not the flags they clear, keeps them apart.
THEOREM OneSetIsActive == Spec => []OneActiveSet
<1>1. VersionsInv => OneActiveSet
  <2> SUFFICES ASSUME VersionsInv PROVE Cardinality(ActiveSets) <= 1
    BY DEF OneActiveSet
  <2>1. \A m, n \in ActiveSets : m = n
    BY DEF ActiveSets, Created, VersionsInv, SetsFit
  <2> QED
    BY <2>1, OneAtMost
<1> QED
  BY <1>1, TablesAgree, PTL

\* One version is active at most, and the current version and every version that
\* did work came from the activation or passed its evaluation.
THEOREM OnlyProvenWork == Spec => []ActiveIsProven
<1>1. VersionsInv => ActiveIsProven
  <2> SUFFICES ASSUME VersionsInv PROVE ActiveIsProven
    OBVIOUS
  <2>1. \A v, w \in ActiveVersions : v = w
    BY DEF ActiveVersions, Existing, VersionsInv, OneActive
  <2>2. Cardinality(ActiveVersions) <= 1
    BY <2>1, OneAtMost
  <2>3. agent.current # 0 => Proven(agent.current)
    BY DEF VersionsInv, AgentFits, RowFits
  <2>4. \A w \in Runs, ref \in Refs : board[w][ref].by # 0 => Proven(board[w][ref].by)
    BY DEF VersionsInv, WorkFits
  <2> QED
    BY <2>2, <2>3, <2>4 DEF ActiveIsProven
<1> QED
  BY <1>1, TablesAgree, PTL

\* The run table and the version table tell one story, whoever starts and
\* harvests the runs.
THEOREM OneStory == Spec => []RunMatchesVersion
<1>1. VersionsInv => RunMatchesVersion
  <2> SUFFICES ASSUME VersionsInv, NEW v \in Versions
               PROVE  LET of == {r \in Runs : run[r] # NoRow /\ run[r].version = v}
                          statuses == {run[r].status : r \in of} IN
                      /\ version[v].status = "evaluating" <=> statuses = {"running"}
                      /\ version[v].status = "rejected" <=> statuses = {"failed"}
                      /\ statuses = {"passed"} => version[v].status \in Serviceable
                      /\ version[v].status \in Serviceable => Proven(v)
                      /\ Cardinality(of) <= 1
    BY DEF RunMatchesVersion
  <2> DEFINE of == {r \in Runs : run[r] # NoRow /\ run[r].version = v}
             statuses == {run[r].status : r \in of}
  <2>1. \A r \in Runs : /\ run[r] # NoRow <=> run[r].status # "none"
                        /\ run[r].status \in {"none", "running", "passed", "failed"}
    BY DEF VersionsInv, Types, NoRow, RunRow
  <2>2. \A q, r \in of : q = r
    BY <2>1 DEF VersionsInv, RunsFit
  <2>3. Cardinality(of) <= 1
    BY <2>2, OneAtMost
  <2>4. \A r \in of : statuses = {run[r].status}
    BY <2>2
  <2>5. \A r \in of : /\ run[r].status = "running" => version[v].status = "evaluating"
                      /\ run[r].status = "failed" => version[v].status = "rejected"
                      /\ run[r].status = "passed" => version[v].status \in Serviceable
    BY DEF VersionsInv, RunsFit
  <2>6. /\ version[v].status = "evaluating" => \E r \in of : run[r].status = "running"
        /\ version[v].status = "rejected" => \E r \in of : run[r].status = "failed"
        /\ version[v].status \in Serviceable => Proven(v)
    BY <2>1 DEF VersionsInv, RunsFit
  <2>7. \A status : statuses = {status} => \E r \in of : run[r].status = status
    OBVIOUS
  <2> HIDE DEF of, statuses
  <2>8. /\ version[v].status = "evaluating" <=> statuses = {"running"}
        /\ version[v].status = "rejected" <=> statuses = {"failed"}
        /\ statuses = {"passed"} => version[v].status \in Serviceable
    BY <2>4, <2>5, <2>6, <2>7
  <2> QED
    BY <2>3, <2>6, <2>8 DEF of, statuses
<1> QED
  BY <1>1, TablesAgree, PTL

=============================================================================
