-------------------------- MODULE ParticipationProofs --------------------------
(***************************************************************************)
(* Proofs about OpenRegistration, Repositories and Participation, which     *)
(* composes them with PublicTasks and GitAccess: every key has one identity,*)
(* a sponsor's Apps and bindings hold together, the claims of a task exclude*)
(* each other, every credential admits one submission, and published terms  *)
(* stand, for any number of agents, keys, Apps, repositories, tasks,        *)
(* executions, requests, workers and commits.                               *)
(***************************************************************************)
EXTENDS Participation, TLAPS

-----------------------------------------------------------------------------
(* Open registration.                                                         *)

\* A row that is not there is empty; one that is there has a key and a handle.
IdentityRows ==
  \A a \in Agents :
    IF ident[a].status = "none" THEN ident[a] = NoIdentity
    ELSE ident[a].key # None /\ ident[a].handle # None

\* Two rows share neither a key nor a handle.
IdentitiesDiffer ==
  \A a, b \in Agents :
    a # b /\ ident[a].status # "none" =>
      ident[a].key # ident[b].key /\ ident[a].handle # ident[b].handle

\* A challenge that is consumed names an identity that is there, with its key.
ConsumedByOwner ==
  \A c \in Challenges : challenge[c].status = "consumed" =>
    /\ challenge[c].agent \in Agents
    /\ ident[challenge[c].agent].status # "none"
    /\ ident[challenge[c].agent].key = challenge[c].key

RegInv == RegTypeOK /\ IdentityRows /\ IdentitiesDiffer /\ ConsumedByOwner

\* The invariant says what the run checks.
LEMMA InvImpliesPromise == RegInv => OneIdentityPerKey
  BY DEF RegInv, IdentitiesDiffer, ConsumedByOwner, OneIdentityPerKey

\* What a transaction that inserts an identity leaves behind.
LEMMA InsertKeepsRows ==
  ASSUME RegInv, NEW a \in Agents, NEW k \in Keys \cup {None},
         NEW h \in Handles \cup Keys \cup {None},
         InsertIdentity(a, NewAgentIdentity(k, h))
  PROVE  /\ ident' \in [Agents -> Identity]
         /\ IdentityRows' /\ IdentitiesDiffer'
         /\ ident[a].status = "none"
         /\ ident'[a] = NewAgentIdentity(k, h)
         /\ \A b \in Agents \ {a} : ident'[b] = ident[b]
<1> DEFINE row == NewAgentIdentity(k, h)
<1>1. ident \in [Agents -> Identity] /\ row \in Identity
  BY DEF RegInv, RegTypeOK, NewAgentIdentity, Identity
<1>2. /\ ident[a] = NoIdentity
      /\ \A b \in Agents : ident[b].key # k /\ ident[b].handle # h
      /\ ident' = [ident EXCEPT ![a] = row]
  BY DEF InsertIdentity, IsFree, NewAgentIdentity
<1>3. k # None /\ h # None
  BY <1>2 DEF NoIdentity
<1>4. row.status = "active" /\ row.key = k /\ row.handle = h
  BY DEF NewAgentIdentity
<1>5. ident'[a] = row /\ \A b \in Agents \ {a} : ident'[b] = ident[b]
  BY <1>1, <1>2
<1>6. ident' \in [Agents -> Identity]
  BY <1>1, <1>2
<1>7. IdentityRows'
  BY <1>3, <1>4, <1>5 DEF RegInv, IdentityRows
<1>8. IdentitiesDiffer'
  BY <1>2, <1>4, <1>5 DEF RegInv, IdentitiesDiffer
<1> QED
  BY <1>2, <1>5, <1>6, <1>7, <1>8 DEF NoIdentity

\* Only Register makes a challenge consumed; whatever leaves the identities'
\* keys alone and consumes nothing keeps ConsumedByOwner.
LEMMA KeepsOwners ==
  ASSUME RegInv,
         \A c \in Challenges : challenge'[c].status = "consumed" =>
            /\ challenge[c].status = "consumed"
            /\ challenge'[c].agent = challenge[c].agent
            /\ challenge'[c].key = challenge[c].key,
         \A a \in Agents : ident[a].status # "none" =>
            ident'[a].status # "none" /\ ident'[a].key = ident[a].key
  PROVE  ConsumedByOwner'
  BY DEF RegInv, ConsumedByOwner

\* Nobody is registered at the start.
LEMMA RegInitInv == RegInit => RegInv
  BY DEF RegInit, RegInv, RegTypeOK, IdentityRows, IdentitiesDiffer, ConsumedByOwner,
         NoChallenge, NoIdentity, Challenge, Identity

\* Every step keeps the invariant.
LEMMA RegNextInv == RegInv /\ [RegNext]_regVars => RegInv'
<1> SUFFICES ASSUME RegInv, [RegNext]_regVars PROVE RegInv'
  OBVIOUS
<1> USE DEF RegTypeOK
<1>1. CASE UNCHANGED regVars
  BY <1>1 DEF regVars, RegInv, IdentityRows, IdentitiesDiffer, ConsumedByOwner
<1>2. ASSUME NEW c \in Challenges, NEW k \in Keys, CreateChallenge(c, k) PROVE RegInv'
  <2>1. challenge \in [Challenges -> Challenge]
    BY DEF RegInv
  <2>2. challenge' = InsertChallenge(c, k) /\ UNCHANGED <<ident, register, token>>
    BY <1>2 DEF CreateChallenge
  <2>3. \A d \in Challenges :
          challenge'[d] = IF d = c THEN [NoChallenge EXCEPT !.status = "pending", !.key = k]
                          ELSE IF d \in Sweepable THEN [NoChallenge EXCEPT !.status = "deleted"]
                          ELSE challenge[d]
    BY <2>2 DEF InsertChallenge
  <2>4. challenge' \in [Challenges -> Challenge]
    BY <2>1, <2>2 DEF InsertChallenge, NoChallenge, Challenge
  <2>5. ConsumedByOwner'
    <3>1. \A d \in Challenges : challenge'[d].status = "consumed" => challenge'[d] = challenge[d]
      BY <2>3 DEF NoChallenge
    <3> QED
      BY <3>1, <2>2, KeepsOwners
  <2> QED
    BY <2>2, <2>4, <2>5 DEF RegInv, IdentityRows, IdentitiesDiffer
<1>3. ASSUME NEW c \in Challenges, ChallengeLapses(c) PROVE RegInv'
  <2>1. challenge' \in [Challenges -> Challenge]
    BY <1>3 DEF RegInv, ChallengeLapses, Challenge
  <2>2. ConsumedByOwner'
    <3>1. \A d \in Challenges : /\ challenge'[d].status = challenge[d].status
                                /\ challenge'[d].agent = challenge[d].agent
                                /\ challenge'[d].key = challenge[d].key
      BY <1>3 DEF RegInv, ChallengeLapses, Challenge
    <3> QED
      BY <3>1, <1>3, KeepsOwners DEF ChallengeLapses
  <2> QED
    BY <1>3, <2>1, <2>2 DEF RegInv, ChallengeLapses, IdentityRows, IdentitiesDiffer
<1>4. ASSUME NEW c \in Challenges, RegisterReads(c) PROVE RegInv'
  BY <1>4 DEF RegInv, RegisterReads, IdentityRows, IdentitiesDiffer, ConsumedByOwner
<1>5. ASSUME NEW c \in Challenges, NEW a \in Agents, NEW h \in Handles \cup Keys,
             RegisterIdentity(c, a, h)
      PROVE RegInv'
  <2> DEFINE k == challenge[c].key
             row == NewAgentIdentity(k, h)
  <2>1. /\ InsertIdentity(a, row) /\ Consume(c, a)
        /\ IssueGlobal(a, row) /\ RegisterEnds(c)
    BY <1>5 DEF RegisterIdentity
  <2>2. challenge \in [Challenges -> Challenge] /\ k \in Keys \cup {None}
    BY DEF RegInv, Challenge
  <2>3. /\ ident' \in [Agents -> Identity]
        /\ IdentityRows' /\ IdentitiesDiffer'
        /\ ident[a].status = "none"
        /\ ident'[a] = row
        /\ \A b \in Agents \ {a} : ident'[b] = ident[b]
    BY <2>1, <2>2, InsertKeepsRows
  <2>4. /\ challenge' \in [Challenges -> Challenge]
        /\ challenge'[c].agent = a /\ challenge'[c].key = k
        /\ \A d \in Challenges \ {c} : challenge'[d] = challenge[d]
    BY <2>1, <2>2 DEF Consume, Challenge
  <2>5. ConsumedByOwner'
    <3>1. row.status # "none" /\ row.key = k
      BY DEF NewAgentIdentity
    <3>2. ASSUME NEW d \in Challenges, challenge'[d].status = "consumed"
          PROVE  /\ challenge'[d].agent \in Agents
                 /\ ident'[challenge'[d].agent].status # "none"
                 /\ ident'[challenge'[d].agent].key = challenge'[d].key
      <4>1. CASE d = c
        BY <4>1, <2>3, <2>4, <3>1
      <4>2. CASE d # c
        <5>1. /\ challenge[d].agent \in Agents
              /\ ident[challenge[d].agent].status # "none"
              /\ ident[challenge[d].agent].key = challenge[d].key
          BY <4>2, <3>2, <2>4 DEF RegInv, ConsumedByOwner
        <5>2. challenge[d].agent # a
          BY <5>1, <2>3
        <5> QED
          BY <5>1, <5>2, <4>2, <2>3, <2>4
      <4> QED
        BY <4>1, <4>2
    <3> QED
      BY <3>2 DEF ConsumedByOwner
  <2>6. register' \in [Challenges -> {"idle", "known", "unknown"}] /\ token' \subseteq Agents
    BY <2>1 DEF RegInv, RegisterEnds, IssueGlobal
  <2> QED
    BY <2>3, <2>4, <2>5, <2>6 DEF RegInv
<1>6. ASSUME NEW c \in Challenges, RegisterSession(c) PROVE RegInv'
  <2>1. PICK a \in Agents : /\ ident[a].key = challenge[c].key /\ Live(a)
                            /\ Consume(c, a) /\ token' = token \cup {a}
    BY <1>6 DEF RegisterSession, GetGlobalAgentSessionByThumbprint, IssueGlobal
  <2>2. RegisterEnds(c) /\ UNCHANGED ident
    BY <1>6 DEF RegisterSession
  <2>3. challenge \in [Challenges -> Challenge]
    BY DEF RegInv
  <2>4. /\ challenge' \in [Challenges -> Challenge]
        /\ challenge'[c].agent = a /\ challenge'[c].key = challenge[c].key
        /\ \A d \in Challenges \ {c} : challenge'[d] = challenge[d]
    BY <2>1, <2>3 DEF Consume, Challenge
  <2>5. ConsumedByOwner'
    BY <2>1, <2>2, <2>4 DEF RegInv, ConsumedByOwner, Live
  <2>6. register' \in [Challenges -> {"idle", "known", "unknown"}] /\ token' \subseteq Agents
    BY <2>1, <2>2 DEF RegInv, RegisterEnds
  <2> QED
    BY <2>2, <2>4, <2>5, <2>6 DEF RegInv, IdentityRows, IdentitiesDiffer
<1>7. ASSUME NEW c \in Challenges, RegisterFails(c) PROVE RegInv'
  BY <1>7 DEF RegInv, RegisterFails, RegisterEnds, IdentityRows, IdentitiesDiffer,
              ConsumedByOwner
<1>8. ASSUME NEW a \in Agents, TokenLapses(a) PROVE RegInv'
  BY <1>8 DEF RegInv, TokenLapses, IdentityRows, IdentitiesDiffer, ConsumedByOwner
<1>9. ASSUME NEW a \in Agents, Deactivate(a) PROVE RegInv'
  <2>1. ident \in [Agents -> Identity] /\ ident[a].status = "active"
    BY <1>9 DEF RegInv, Deactivate, Live
  <2>2. /\ ident' = [ident EXCEPT ![a].status = "inactive"]
        /\ UNCHANGED <<challenge, register, token>>
    BY <1>9 DEF Deactivate
  <2>3. ident' \in [Agents -> Identity]
    BY <2>1, <2>2 DEF Identity
  <2>4. \A b \in Agents :
          /\ ident'[b].key = ident[b].key /\ ident'[b].handle = ident[b].handle
          /\ ident'[b].status = "none" <=> ident[b].status = "none"
          /\ b # a => ident'[b] = ident[b]
    BY <2>1, <2>2 DEF Identity
  <2>5. IdentityRows' /\ IdentitiesDiffer'
    BY <2>1, <2>4 DEF RegInv, IdentityRows, IdentitiesDiffer
  <2>6. ConsumedByOwner'
    BY <2>2, <2>4 DEF RegInv, ConsumedByOwner
  <2> QED
    BY <2>2, <2>3, <2>5, <2>6 DEF RegInv
<1> QED
  BY <1>1, <1>2, <1>3, <1>4, <1>5, <1>6, <1>7, <1>8, <1>9 DEF RegNext

\* However many registrations run at once, every key and every handle belongs
\* to one identity, and a challenge is spent on the identity of its key
\* (Register under the unique indexes of the two tables).
THEOREM OneIdentityPerKeyAlways == RegSpec => []OneIdentityPerKey
<1>1. RegSpec => []RegInv
  BY RegInitInv, RegNextInv, PTL DEF RegSpec
<1> QED
  BY <1>1, InvImpliesPromise, PTL

-----------------------------------------------------------------------------
(* Repositories.                                                              *)

\* A row that is not there is empty, and what a call is about to write is not.
AppRows ==
  /\ \A a \in AppIds : ~ Exists(a) => app[a] = NoAppRow
  /\ \A c \in admin : c.kind \in {"upsert", "install"} => c.row.github # NoApp

BindingRows == \A b \in Bindings : binding[b].repo = NoApp => binding[b] = NoBinding

RepoInv ==
  RepoTypeOK /\ AppRows /\ BindingRows
  /\ OneDefault /\ BoundAppsExist /\ OneBindingPerRepository

\* The empty rows are rows.
LEMMA RowTypes ==
  /\ NoAppRow \in AppRow /\ NoBinding \in Binding
  /\ NoAppRow.github = NoApp /\ ~ NoAppRow.default /\ NoBinding.repo = NoApp
  BY DEF NoAppRow, AppRow, NoBinding, Binding

\* There is nothing at the start.
LEMMA RepoInitInv == RepoInit => RepoInv
<1> SUFFICES ASSUME RepoInit PROVE RepoInv
  OBVIOUS
<1>1. /\ app = [a \in AppIds |-> NoAppRow] /\ binding = [b \in Bindings |-> NoBinding]
      /\ named = {} /\ signed = {} /\ created = {} /\ removed = {} /\ admin = {}
  BY DEF RepoInit, NoApps
<1>2. RepoTypeOK
  BY <1>1, RowTypes DEF RepoTypeOK
<1>3. AppRows /\ BindingRows
  BY <1>1, RowTypes DEF AppRows, BindingRows
<1>4. \A a \in AppIds : ~ Exists(a)
  BY <1>1, RowTypes DEF Exists
<1>5. OneDefault /\ BoundAppsExist /\ OneBindingPerRepository
  BY <1>1, <1>4 DEF OneDefault, BoundAppsExist, OneBindingPerRepository, NoBinding
<1> QED
  BY <1>2, <1>3, <1>5 DEF RepoInv

\* The write of a row, under the sponsor's lock.
LEMMA WriteKeeps ==
  ASSUME RepoInv, NEW a \in AppIds, NEW row \in AppRow, row.github # NoApp,
         WriteRow(a, row)
  PROVE  /\ app' \in [AppIds -> AppRow]
         /\ \A b \in AppIds : Exists(b) => Exists(b)'
         /\ \A b \in AppIds : ~ Exists(b)' => app'[b] = NoAppRow
         /\ OneDefault'
<1> DEFINE new == [row EXCEPT !.default = DefaultFlag(a)]
<1>1. app \in [AppIds -> AppRow] /\ \A b \in AppIds : ~ Exists(b) => app[b] = NoAppRow
  BY DEF RepoInv, RepoTypeOK, AppRows
<1>2. DefaultFlag(a) \in BOOLEAN
  BY <1>1 DEF DefaultFlag, AppRow, Exists
<1>3. new \in AppRow /\ new.github = row.github /\ new.default = DefaultFlag(a)
  BY <1>2 DEF AppRow
<1>4. app' = [app EXCEPT ![a] = new]
  BY DEF WriteRow
<1>5. app'[a] = new /\ \A b \in AppIds \ {a} : app'[b] = app[b]
  BY <1>1, <1>4
<1>6. app' \in [AppIds -> AppRow]
  BY <1>1, <1>3, <1>4
<1>7. \A b \in AppIds : Exists(b)' <=> b = a \/ Exists(b)
  BY <1>3, <1>5 DEF Exists
<1>8. OneDefault'
  <2>1. CASE \E b \in AppIds : Exists(b)
    <3>1. PICK b \in AppIds : Exists(b) /\ app[b].default
                              /\ \A x \in AppIds : app[x].default => x = b
      BY <2>1 DEF RepoInv, OneDefault
    <3>2. app'[a].default <=> a = b
      <4>1. CASE Exists(a)
        BY <4>1, <3>1, <1>3, <1>5 DEF DefaultFlag
      <4>2. CASE ~ Exists(a)
        BY <4>2, <3>1, <1>3, <1>5 DEF DefaultFlag
      <4> QED
        BY <4>1, <4>2
    <3>3. app'[b].default /\ \A x \in AppIds : app'[x].default => x = b
      BY <3>1, <3>2, <1>5
    <3>4. Exists(b)'
      BY <3>1, <1>7
    <3> QED
      BY <3>3, <3>4 DEF OneDefault
  <2>2. CASE \A b \in AppIds : ~ Exists(b)
    <3>1. app'[a].default
      BY <2>2, <1>3, <1>5 DEF DefaultFlag
    <3>2. \A x \in AppIds : app'[x].default => x = a
      BY <2>2, <1>1, <1>5, RowTypes
    <3>3. Exists(a)'
      BY <1>7
    <3> QED
      BY <3>1, <3>2, <3>3 DEF OneDefault
  <2> QED
    BY <2>1, <2>2
<1>9. \A b \in AppIds : ~ Exists(b)' => app'[b] = NoAppRow
  BY <1>1, <1>5, <1>7
<1> QED
  BY <1>6, <1>7, <1>8, <1>9

\* A deletion, and the App that takes the place of the default one.
LEMMA DeleteKeeps ==
  ASSUME RepoInv, NEW a \in AppIds, NEW p \in AppIds, DeleteApp(a, p)
  PROVE  /\ app' \in [AppIds -> AppRow]
         /\ \A b \in AppIds \ {a} : Exists(b) => Exists(b)'
         /\ \A b \in AppIds : ~ Exists(b)' => app'[b] = NoAppRow
         /\ OneDefault'
<1>1. app \in [AppIds -> AppRow] /\ \A b \in AppIds : ~ Exists(b) => app[b] = NoAppRow
  BY DEF RepoInv, RepoTypeOK, AppRows
<1>2. Exists(a) /\ Promotes(a, p)
  BY DEF DeleteApp
<1>3. PICK d \in AppIds : /\ Exists(d) /\ app[d].default
                          /\ \A x \in AppIds : app[x].default => x = d
  BY <1>2 DEF RepoInv, OneDefault
<1>4. app' = [b \in AppIds |-> IF b = a THEN NoAppRow
                               ELSE IF b = p THEN [app[b] EXCEPT !.default = TRUE]
                               ELSE app[b]]
  BY DEF DeleteApp
<1>5. \A b \in AppIds :
        /\ b = a => app'[b] = NoAppRow
        /\ b # a /\ b = p => app'[b] = [app[b] EXCEPT !.default = TRUE]
        /\ b # a /\ b # p => app'[b] = app[b]
  BY <1>4
<1>6. \A b \in AppIds : /\ [app[b] EXCEPT !.default = TRUE] \in AppRow
                        /\ [app[b] EXCEPT !.default = TRUE].github = app[b].github
                        /\ [app[b] EXCEPT !.default = TRUE].default
  BY <1>1 DEF AppRow
<1>7. app' \in [AppIds -> AppRow]
  BY <1>1, <1>4, <1>6, RowTypes
<1>8. \A b \in AppIds : Exists(b)' <=> b # a /\ Exists(b)
  BY <1>5, <1>6, RowTypes DEF Exists
<1>9. p # a => Exists(p)
  BY <1>2 DEF Promotes
<1>10. \A b \in AppIds : ~ Exists(b)' => app'[b] = NoAppRow
  BY <1>1, <1>5, <1>8, <1>9
<1>11. OneDefault'
  <2> SUFFICES ASSUME NEW b \in AppIds, Exists(b)' PROVE OneDefault'
    BY DEF OneDefault
  <2>1. b # a /\ Exists(b)
    BY <1>8
  <2>2. CASE a = d
    <3>1. p # a /\ Exists(p)
      BY <2>1, <2>2, <1>2, <1>3 DEF Promotes
    <3>2. Exists(p)' /\ app'[p].default
      BY <3>1, <1>5, <1>6, <1>8
    <3>3. \A x \in AppIds : app'[x].default => x = p
      BY <2>2, <1>3, <1>5, RowTypes
    <3> QED
      BY <3>2, <3>3 DEF OneDefault
  <2>3. CASE a # d
    <3>1. ~ app[a].default
      BY <2>3, <1>3
    <3>2. p = a
      BY <3>1, <1>2 DEF Promotes
    <3>3. Exists(d)' /\ app'[d].default
      BY <2>3, <3>2, <1>3, <1>5, <1>8
    <3>4. \A x \in AppIds : app'[x].default => x = d
      BY <3>2, <1>3, <1>5, RowTypes
    <3> QED
      BY <3>3, <3>4 DEF OneDefault
  <2> QED
    BY <2>2, <2>3
<1> QED
  BY <1>7, <1>8, <1>10, <1>11

\* A binding that is made.
LEMMA BindKeeps ==
  ASSUME RepoInv, NEW c \in admin, NEW b \in Bindings, Bind(c, b)
  PROVE  RepoInv'
<1> USE RepositoriesAssumption
<1>1. c \in AdminCall /\ c.kind = "bind"
  BY DEF RepoInv, RepoTypeOK, Bind
<1>2. c.repo \in Repos /\ c.app \in AppIds \cup {NoApp}
  BY <1>1 DEF AdminCall
<1>3. /\ ~ IsOnboarded(c.repo) /\ (c.app # NoApp => Exists(c.app))
      /\ binding[b] = NoBinding
      /\ binding' = [binding EXCEPT ![b] = [repo |-> c.repo, app |-> c.app]]
      /\ admin' = admin \ {c}
      /\ UNCHANGED <<app, named, signed, created, removed>>
  BY DEF Bind, MayBind
<1>4. binding \in [Bindings -> Binding]
  BY DEF RepoInv, RepoTypeOK
<1>5. /\ binding'[b] = [repo |-> c.repo, app |-> c.app]
      /\ \A x \in Bindings \ {b} : binding'[x] = binding[x]
  BY <1>3, <1>4
<1>6. binding' \in [Bindings -> Binding]
  BY <1>2, <1>3, <1>4 DEF Binding
<1>7. RepoTypeOK'
  BY <1>3, <1>6 DEF RepoInv, RepoTypeOK
<1>8. AppRows' /\ OneDefault'
  BY <1>3 DEF RepoInv, AppRows, OneDefault, Exists
<1>9. BindingRows'
  BY <1>2, <1>5 DEF RepoInv, BindingRows
<1>10. BoundAppsExist'
  BY <1>3, <1>5 DEF RepoInv, BoundAppsExist, Exists
<1>11. OneBindingPerRepository'
  <2>1. \A x \in Bindings : binding[x].repo # c.repo
    BY <1>3 DEF IsOnboarded
  <2> QED
    BY <2>1, <1>5 DEF RepoInv, OneBindingPerRepository
<1> QED
  BY <1>7, <1>8, <1>9, <1>10, <1>11 DEF RepoInv

\* Steps that leave the rows alone.
LEMMA RowsAlone ==
  ASSUME RepoInv, RepoTypeOK', UNCHANGED <<app, binding>>,
         \A c \in admin' : c \in admin \/ (c.kind \in {"upsert", "install"} => c.row.github # NoApp)
  PROVE  RepoInv'
<1>1. AppRows'
  BY DEF RepoInv, AppRows, Exists
<1>2. OneDefault' /\ BoundAppsExist'
  BY DEF RepoInv, OneDefault, BoundAppsExist, Exists
<1>3. BindingRows' /\ OneBindingPerRepository'
  BY DEF RepoInv, BindingRows, OneBindingPerRepository
<1> QED
  BY <1>1, <1>2, <1>3 DEF RepoInv

\* A call that begins.
LEMMA AdminCallBegins ==
  ASSUME RepoInv, NEW c, c \in AdminCall, AdminCalls(c),
         c.kind \in {"upsert", "install"} => c.row.github # NoApp,
         UNCHANGED <<app, binding, removed>>,
         named' \subseteq AppIds, signed' \subseteq AppIds, created' \subseteq GitHubApps
  PROVE  RepoInv'
<1>1. admin' = admin \cup {c}
  BY DEF AdminCalls
<1>2. RepoTypeOK'
  BY <1>1 DEF RepoInv, RepoTypeOK
<1> QED
  BY <1>1, <1>2, RowsAlone

\* What a call may be about to do.
LEMMA CallTypes ==
  /\ \A a \in AppIds, row \in AppRow : [kind |-> "upsert", app |-> a, row |-> row] \in AdminCall
  /\ \A a \in AppIds, i \in Installations, row \in AppRow, k \in {"checked", "install"} :
       [kind |-> k, app |-> a, installation |-> i, row |-> row] \in AdminCall
  /\ \A a \in AppIds \cup {NoApp}, repo \in Repos :
       [kind |-> "bind", app |-> a, repo |-> repo] \in AdminCall
  BY DEF AdminCall

\* Each of the administrators' steps keeps the invariant.
LEMMA RepoNextInv == RepoInv /\ [RepoNext]_repoVars => RepoInv'
<1> SUFFICES ASSUME RepoInv, [RepoNext]_repoVars PROVE RepoInv'
  OBVIOUS
<1> USE RepositoriesAssumption
<1>t. /\ app \in [AppIds -> AppRow] /\ binding \in [Bindings -> Binding]
      /\ named \subseteq AppIds /\ signed \subseteq AppIds /\ created \subseteq GitHubApps
      /\ removed \subseteq Bindings /\ admin \subseteq AdminCall
  BY DEF RepoInv, RepoTypeOK
<1>1. CASE UNCHANGED repoVars
  <2>1. UNCHANGED <<app, binding>> /\ RepoTypeOK' /\ admin' = admin
    BY <1>1 DEF repoVars, RepoInv, RepoTypeOK
  <2> QED
    BY <2>1, RowsAlone
<1>2. ASSUME NEW a \in AppIds, BuildManifest(a) \/ BuildInstallURL(a) \/ StateLapses(a)
      PROVE RepoInv'
  <2>1. /\ UNCHANGED <<app, created, binding, removed, admin>>
        /\ named' \subseteq AppIds /\ signed' \subseteq AppIds
    BY <1>2, <1>t DEF BuildManifest, BuildInstallURL, StateLapses
  <2>2. RepoTypeOK'
    BY <2>1 DEF RepoInv, RepoTypeOK
  <2> QED
    BY <2>1, <2>2, RowsAlone
<1>3. ASSUME NEW a \in AppIds, NEW g \in GitHubApps, ExchangeCode(a, g) PROVE RepoInv'
  <2> DEFINE row == [NoAppRow EXCEPT !.github = g, !.installation = NoApp, !.slug = TRUE]
             c == [kind |-> "upsert", app |-> a, row |-> row]
  <2>1. row \in AppRow /\ row.github = g
    BY DEF NoAppRow, AppRow
  <2>2. c \in AdminCall /\ c.row.github # NoApp
    BY <2>1, CallTypes
  <2>3. /\ AdminCalls(c) /\ created' = created \cup {g}
        /\ UNCHANGED <<app, named, signed, binding, removed>>
    BY <1>3 DEF ExchangeCode, Upserts
  <2> HIDE DEF c
  <2> QED
    BY <2>2, <2>3, <1>t, AdminCallBegins
<1>4. ASSUME NEW a \in AppIds, NEW g \in GitHubApps,
             NEW i \in Installations \cup {NoApp}, EnterApp(a, g, i)
      PROVE RepoInv'
  <2> DEFINE row == [NoAppRow EXCEPT !.github = g, !.installation = i, !.slug = FALSE]
             c == [kind |-> "upsert", app |-> a, row |-> row]
  <2>1. row \in AppRow /\ row.github = g
    BY DEF NoAppRow, AppRow
  <2>2. c \in AdminCall /\ c.row.github # NoApp
    BY <2>1, CallTypes
  <2>3. /\ AdminCalls(c) /\ named' = named \cup {a}
        /\ UNCHANGED <<app, signed, created, binding, removed>>
    BY <1>4 DEF EnterApp, Upserts
  <2> HIDE DEF c
  <2> QED
    BY <2>2, <2>3, <1>t, AdminCallBegins
<1>5. ASSUME NEW a \in AppIds, NEW i \in Installations, CheckInstallation(a, i) PROVE RepoInv'
  <2> DEFINE c == [kind |-> "checked", app |-> a, installation |-> i, row |-> NoAppRow]
  <2>1. c \in AdminCall /\ c.kind = "checked"
    BY CallTypes, RowTypes
  <2>2. AdminCalls(c) /\ UNCHANGED <<app, named, signed, created, binding, removed>>
    BY <1>5 DEF CheckInstallation
  <2> HIDE DEF c
  <2> QED
    BY <2>1, <2>2, <1>t, AdminCallBegins
<1>6. ASSUME NEW a \in AppIds, NEW p \in AppIds, DeleteApp(a, p) PROVE RepoInv'
  <2>1. /\ ~ IsBound(a)
        /\ UNCHANGED <<named, signed, created, binding, removed, admin>>
    BY <1>6 DEF DeleteApp
  <2>2. /\ app' \in [AppIds -> AppRow]
        /\ \A b \in AppIds \ {a} : Exists(b) => Exists(b)'
        /\ \A b \in AppIds : ~ Exists(b)' => app'[b] = NoAppRow
        /\ OneDefault'
    BY <1>6, DeleteKeeps
  <2>3. BoundAppsExist'
    BY <2>1, <2>2, <1>t DEF RepoInv, BoundAppsExist, IsBound, Binding
  <2>4. RepoTypeOK' /\ AppRows'
    BY <2>1, <2>2 DEF RepoInv, RepoTypeOK, AppRows
  <2>5. BindingRows' /\ OneBindingPerRepository'
    BY <2>1 DEF RepoInv, BindingRows, OneBindingPerRepository
  <2> QED
    BY <2>2, <2>3, <2>4, <2>5 DEF RepoInv
<1>7. ASSUME NEW repo \in Repos, NEW a \in AppIds, FindRepository(repo, a) PROVE RepoInv'
  <2> DEFINE c == [kind |-> "bind", app |-> a, repo |-> repo]
  <2>1. c \in AdminCall /\ c.kind = "bind"
    BY CallTypes
  <2>2. AdminCalls(c) /\ UNCHANGED <<app, named, signed, created, binding, removed>>
    BY <1>7 DEF FindRepository
  <2> HIDE DEF c
  <2> QED
    BY <2>1, <2>2, <1>t, AdminCallBegins
<1>8. ASSUME NEW repo \in Repos, FindPublicRepository(repo) PROVE RepoInv'
  <2> DEFINE c == [kind |-> "bind", app |-> NoApp, repo |-> repo]
  <2>1. c \in AdminCall /\ c.kind = "bind"
    BY CallTypes
  <2>2. AdminCalls(c) /\ UNCHANGED <<app, named, signed, created, binding, removed>>
    BY <1>8 DEF FindPublicRepository
  <2> HIDE DEF c
  <2> QED
    BY <2>1, <2>2, <1>t, AdminCallBegins
<1>9. ASSUME NEW b \in Bindings, Unbind(b) PROVE RepoInv'
  <2>1. /\ \A x \in Bindings \ {b} : binding'[x] = binding[x]
        /\ binding'[b] = NoBinding /\ binding' \in [Bindings -> Binding]
        /\ removed' \subseteq Bindings
        /\ UNCHANGED <<app, named, signed, created, admin>>
    BY <1>9, <1>t, RowTypes DEF Unbind
  <2>2. RepoTypeOK' /\ AppRows' /\ OneDefault'
    BY <2>1 DEF RepoInv, RepoTypeOK, AppRows, OneDefault, Exists
  <2>3. BindingRows'
    BY <2>1 DEF RepoInv, BindingRows
  <2>4. BoundAppsExist'
    BY <2>1 DEF RepoInv, BoundAppsExist, Exists, NoBinding
  <2>5. OneBindingPerRepository'
    BY <2>1, RowTypes DEF RepoInv, OneBindingPerRepository, BindingRows
  <2> QED
    BY <2>2, <2>3, <2>4, <2>5 DEF RepoInv
<1>10. ASSUME NEW c \in admin, Upsert(c) \/ InstallByID(c) PROVE RepoInv'
  <2>1. /\ c.kind \in {"upsert", "install"} /\ WriteRow(c.app, c.row)
        /\ admin' = admin \ {c}
        /\ UNCHANGED <<named, signed, created, binding, removed>>
    BY <1>10 DEF Upsert, InstallByID
  <2>2. c.app \in AppIds /\ c.row \in AppRow /\ c.row.github # NoApp
    BY <2>1, <1>t DEF AdminCall, RepoInv, AppRows
  <2>3. /\ app' \in [AppIds -> AppRow]
        /\ \A b \in AppIds : Exists(b) => Exists(b)'
        /\ \A b \in AppIds : ~ Exists(b)' => app'[b] = NoAppRow
        /\ OneDefault'
    BY <2>1, <2>2, WriteKeeps
  <2>4. BoundAppsExist'
    BY <2>1, <2>3, <1>t DEF RepoInv, BoundAppsExist, Binding
  <2>5. RepoTypeOK' /\ AppRows'
    BY <2>1, <2>3 DEF RepoInv, RepoTypeOK, AppRows
  <2>6. BindingRows' /\ OneBindingPerRepository'
    BY <2>1 DEF RepoInv, BindingRows, OneBindingPerRepository
  <2> QED
    BY <2>3, <2>4, <2>5, <2>6 DEF RepoInv
<1>11. ASSUME NEW c \in admin, ReadForInstall(c) PROVE RepoInv'
  <2> DEFINE row == [app[c.app] EXCEPT !.installation = c.installation]
             d == [c EXCEPT !.kind = "install", !.row = row]
  <2>1. /\ c.kind = "checked" /\ Exists(c.app)
        /\ admin' = (admin \ {c}) \cup {d}
        /\ UNCHANGED <<app, named, signed, created, binding, removed>>
    BY <1>11 DEF ReadForInstall
  <2>2. c.app \in AppIds /\ c.installation \in Installations /\ c \in AdminCall
    BY <2>1, <1>t DEF AdminCall
  <2>3. row \in AppRow /\ row.github = app[c.app].github
    BY <2>2, <1>t DEF AppRow
  <2>4. c \in [kind : {"checked", "install"}, app : AppIds,
                installation : Installations, row : AppRow]
    BY <2>1, <2>2 DEF AdminCall
  <2>5. d \in AdminCall /\ d.row.github # NoApp
    <3> HIDE DEF row
    <3>1. d \in [kind : {"checked", "install"}, app : AppIds,
                 installation : Installations, row : AppRow]
      BY <2>3, <2>4
    <3>2. d.row = row /\ row.github # NoApp
      BY <2>1, <2>3, <2>4 DEF Exists
    <3> QED
      BY <3>1, <3>2 DEF AdminCall
  <2> HIDE DEF d
  <2>6. RepoTypeOK'
    BY <2>1, <2>5 DEF RepoInv, RepoTypeOK
  <2> QED
    BY <2>1, <2>5, <2>6, RowsAlone
<1>12. ASSUME NEW c \in admin, AdminCallEnds(c) PROVE RepoInv'
  <2>1. /\ admin' = admin \ {c}
        /\ UNCHANGED <<app, named, signed, created, binding, removed>>
    BY <1>12 DEF AdminCallEnds
  <2>2. RepoTypeOK'
    BY <2>1 DEF RepoInv, RepoTypeOK
  <2> QED
    BY <2>1, <2>2, RowsAlone
<1> QED
  BY <1>1, <1>2, <1>3, <1>4, <1>5, <1>6, <1>7, <1>8, <1>9, <1>10, <1>11, <1>12,
     BindKeeps DEF RepoNext

\* However administrators' calls overlap, a sponsor's repositories are bound
\* once, to Apps that are there, and there is one default (the sponsor's lock
\* and the keys of github_apps and onboarded_repositories).
THEOREM BindingsHoldAlways == RepoSpec => []BindingsHold
<1>1. RepoSpec => []RepoInv
  BY RepoInitInv, RepoNextInv, PTL DEF RepoSpec
<1>2. RepoInv => BindingsHold
  BY DEF RepoInv, BindingsHold
<1> QED
  BY <1>1, <1>2, PTL

-----------------------------------------------------------------------------
(* The claims.                                                                *)

\* The types the claims rest on.
ClaimTypes ==
  /\ task \in [Tasks -> Task]
  /\ projection \in [Tasks -> Terms \cup {None}]
  /\ candidate \in [Workers -> [Tasks -> 0 .. MaxRevision]]
  /\ exec \in [Execs -> Execution]
  /\ grant \in [Execs -> Grant]
  /\ answer \in [Agents \X Requests -> Execs \cup {None}]
  /\ call \subseteq ClaimCall \cup CommandCall

\* An execution that is there belongs to a task.
ExecRows ==
  \A e \in Execs : IF exec[e].status = "none" THEN exec[e] = NoExecution
                   ELSE exec[e].task \in Tasks

\* The record of the request that made an execution names it.
AnswersName ==
  \A e \in Execs : exec[e].agent \in Agents =>
    exec[e].request \in Requests /\ answer[exec[e].agent, exec[e].request] = e

\* An execution that is alive has its task, which is not to be claimed then.
AliveHolds ==
  \A e \in Execs : exec[e].status \in Alive =>
    /\ task[exec[e].task].exec = e
    /\ task[exec[e].task].status \in {"claimed", "in_progress"}

\* The execution a task names is there, also when it has ended.
NamesAreThere ==
  \A t \in Tasks : task[t].exec # None => exec[task[t].exec].status # "none"

\* An agent from outside has a grant.
Granted == \A e \in Execs : exec[e].agent \in Agents => grant[e].status # "none"

ClaimInv ==
  ClaimTypes /\ ExecRows /\ AnswersName /\ AliveHolds /\ NamesAreThere /\ Granted

\* The types submissions rest on.
GitTypes ==
  /\ cred \in [Execs -> Credential]
  /\ issued \in [Execs -> Nat]
  /\ sub \in [Execs -> Seq(Commits)]
  /\ git \subseteq GitCall

\* An active credential and the submissions made were issued one by one.
Spent == \A e \in Execs :
  Len(sub[e]) + (IF cred[e].status = "active" THEN 1 ELSE 0) <= issued[e]

\* What is submitted, or about to be, is the insider's.
InsiderSubmits ==
  /\ \A e \in Execs : sub[e] # <<>> => exec[e].agent = Insider
  /\ \A c \in git : c.kind = "submit" => exec[c.exec].agent = Insider

GitInv == GitTypes /\ Spent /\ InsiderSubmits

-----------------------------------------------------------------------------
(* Claims.                                                                 *)

\* An execution that is there stays there, and its agent's.
AgentsStay ==
  \A e \in Execs : exec[e].status # "none" =>
    exec'[e].status # "none" /\ exec'[e].agent = exec[e].agent

\* A step that leaves executions and answers alone, and opens no task.
LEMMA KeepClaims ==
  ASSUME ClaimInv, ClaimTypes', UNCHANGED <<exec, answer>>,
         \A t \in Tasks : task'[t].exec = task[t].exec
                            /\ task'[t].status = task[t].status,
         \A e \in Execs : grant[e].status # "none" => grant'[e].status # "none"
  PROVE  ClaimInv' /\ AgentsStay
<1>1. ExecRows' /\ AnswersName' /\ NamesAreThere' /\ Granted' /\ AgentsStay
  BY DEF ClaimInv, ExecRows, AnswersName, NamesAreThere, Granted, AgentsStay
<1>2. \A e \in Execs : exec[e].status \in Alive => exec[e].task \in Tasks
  BY DEF ClaimInv, ExecRows, Alive, Downstream
<1>3. AliveHolds'
  BY <1>2 DEF ClaimInv, AliveHolds
<1> QED
  BY <1>1, <1>3 DEF ClaimInv

\* A step that changes one execution without handing it to anybody, and starts
\* its task at most.
LEMMA MoveClaim ==
  ASSUME ClaimInv, ClaimTypes', NEW e \in Execs, NEW q \in Execution,
         exec' = [exec EXCEPT ![e] = q], UNCHANGED <<answer, grant>>,
         q.task = exec[e].task, q.agent = exec[e].agent, q.request = exec[e].request,
         exec[e].status # "none", q.status # "none",
         q.status \in Alive => exec[e].status \in Alive,
         \A t \in Tasks :
           /\ task'[t].exec = task[t].exec
           /\ task[t].status \in {"claimed", "in_progress"} =>
                task'[t].status \in {"claimed", "in_progress"}
  PROVE  ClaimInv' /\ AgentsStay
<1>1. exec'[e] = q /\ \A d \in Execs : d # e => exec'[d] = exec[d]
  BY DEF ClaimInv, ClaimTypes
<1>2. ExecRows' /\ AnswersName' /\ Granted' /\ AgentsStay
  <2>1. ExecRows' /\ AgentsStay
    BY <1>1 DEF ClaimInv, ExecRows, AgentsStay
  <2>2. \A d \in Execs : exec'[d].agent = exec[d].agent /\ exec'[d].request = exec[d].request
    BY <1>1
  <2> QED
    BY <2>1, <2>2 DEF ClaimInv, AnswersName, Granted
<1>3. \A d \in Execs : exec[d].status \in Alive => exec[d].task \in Tasks
  BY DEF ClaimInv, ExecRows, Alive, Downstream
<1>4. AliveHolds'
  BY <1>1, <1>3 DEF ClaimInv, AliveHolds
<1>5. NamesAreThere'
  <2>1. \A t \in Tasks : task[t].exec \in Execs \cup {None}
    BY DEF ClaimInv, ClaimTypes, Task
  <2> QED
    BY <1>1, <2>1 DEF ClaimInv, NamesAreThere
<1> QED
  BY <1>2, <1>4, <1>5 DEF ClaimInv

\* A task with another status and execution is a task.
LEMMA TaskMoves ==
  ASSUME NEW r \in Task, NEW s \in {"open", "claimed"}, NEW d \in Execs \cup {None}
  PROVE  /\ [r EXCEPT !.status = s, !.exec = d] \in Task
         /\ [r EXCEPT !.status = s, !.exec = d].status = s
         /\ [r EXCEPT !.status = s, !.exec = d].exec = d
  BY DEF Task

\* A task that is claimed is a task.
LEMMA ClaimedTask ==
  ASSUME ClaimInv, NEW t \in Tasks, NEW e \in Execs,
         task' = [task EXCEPT ![t].status = "claimed", ![t].exec = e]
  PROVE  \E r \in Task : /\ r.status = "claimed" /\ r.exec = e
                          /\ task' = [task EXCEPT ![t] = r]
<1> DEFINE r == [task[t] EXCEPT !.status = "claimed", !.exec = e]
<1>1. task[t] \in Task /\ e \in Execs \cup {None} /\ "claimed" \in {"open", "claimed"}
  BY DEF ClaimInv, ClaimTypes
<1>2. task' = [task EXCEPT ![t] = r]
  OBVIOUS
<1>3. r \in Task /\ r.status = "claimed" /\ r.exec = e
  BY <1>1, TaskMoves
<1> HIDE DEF r
<1> QED
  BY <1>2, <1>3

\* An execution is made for an open task, by either side.
LEMMA NewClaim ==
  ASSUME ClaimInv, NEW e \in Execs, NEW t \in Tasks, NEW q \in Execution,
         IsOpen(task[t]), exec[e].status = "none",
         NEW r \in Task, r.status = "claimed", r.exec = e,
         task' = [task EXCEPT ![t] = r], exec' = [exec EXCEPT ![e] = q],
         q.status = "leased", q.task = t,
         UNCHANGED <<projection, candidate>>, call' \subseteq call,
         \/ q.agent \notin Agents /\ UNCHANGED <<grant, answer>>
         \/ /\ q.agent \in Agents /\ q.request \in Requests
            /\ answer[q.agent, q.request] = None
            /\ answer' = [answer EXCEPT ![<<q.agent, q.request>>] = e]
            /\ \E g \in Grant : g.status = "active" /\ grant' = [grant EXCEPT ![e] = g]
  PROVE  ClaimInv' /\ AgentsStay
<1> USE PublicTasksAssumption
<1>1. task \in [Tasks -> Task]
  BY DEF ClaimInv, ClaimTypes
<1>2. /\ task' \in [Tasks -> Task] /\ task'[t].status = "claimed" /\ task'[t].exec = e
      /\ \A u \in Tasks : u # t => task'[u] = task[u]
  BY <1>1
<1>3. /\ exec' \in [Execs -> Execution] /\ exec'[e] = q
      /\ \A d \in Execs : d # e => exec'[d] = exec[d]
  BY DEF ClaimInv, ClaimTypes
<1>4. /\ grant' \in [Execs -> Grant]
      /\ answer' \in [Agents \X Requests -> Execs \cup {None}]
  <2>1. /\ grant \in [Execs -> Grant]
        /\ answer \in [Agents \X Requests -> Execs \cup {None}]
    BY DEF ClaimInv, ClaimTypes
  <2>2. grant' \in [Execs -> Grant]
    BY <2>1
  <2>3. answer' \in [Agents \X Requests -> Execs \cup {None}]
    <3> DEFINE i == <<q.agent, q.request>>
    <3>1. UNCHANGED answer \/ answer' = [answer EXCEPT ![i] = e]
      OBVIOUS
    <3> HIDE DEF i
    <3> QED
      BY <2>1, <3>1
  <2> QED
    BY <2>2, <2>3
<1>5. ClaimTypes'
  BY <1>2, <1>3, <1>4 DEF ClaimInv, ClaimTypes
<1>6. ExecRows' /\ AgentsStay
  BY <1>3 DEF ClaimInv, ExecRows, AgentsStay
<1>7. \A d \in Execs : exec[d].status \in Alive =>
        exec[d].task \in Tasks /\ exec[d].task # t /\ d # e
  BY DEF ClaimInv, ExecRows, AliveHolds, IsOpen, Alive, Downstream
<1>8. AliveHolds'
  BY <1>2, <1>3, <1>7 DEF ClaimInv, AliveHolds
<1>9. AnswersName'
  <2> SUFFICES ASSUME NEW d \in Execs, exec'[d].agent \in Agents
               PROVE  exec'[d].request \in Requests
                        /\ answer'[exec'[d].agent, exec'[d].request] = d
    BY DEF AnswersName
  <2>1. CASE d = e
    <3>1. q.agent \in Agents
      BY <1>3, <2>1
    <3>2. /\ q.request \in Requests
          /\ answer' = [answer EXCEPT ![<<q.agent, q.request>>] = e]
      BY <3>1
    <3>3. answer \in [Agents \X Requests -> Execs \cup {None}]
      BY DEF ClaimInv, ClaimTypes
    <3>4. answer'[q.agent, q.request] = e
      BY <3>1, <3>2, <3>3
    <3> QED
      BY <1>3, <2>1, <3>2, <3>4
  <2>2. CASE d # e
    <3> DEFINE a == exec[d].agent
               s == exec[d].request
    <3>1. a \in Agents /\ s \in Requests /\ answer[a, s] = d /\ d # None
      BY <1>3, <2>2 DEF ClaimInv, AnswersName
    <3>2. answer'[a, s] = answer[a, s]
      BY <3>1 DEF ClaimInv, ClaimTypes
    <3> QED
      BY <1>3, <2>2, <3>1, <3>2
  <2> QED
    BY <2>1, <2>2
<1>10. Granted'
  BY <1>3 DEF ClaimInv, ClaimTypes, Granted
<1>11. NamesAreThere'
  <2>1. \A u \in Tasks : task[u].exec \in Execs \cup {None}
    BY DEF ClaimInv, ClaimTypes, Task
  <2> QED
    BY <1>2, <1>3, <2>1 DEF ClaimInv, NamesAreThere
<1> QED
  BY <1>5, <1>6, <1>8, <1>9, <1>10, <1>11 DEF ClaimInv

\* The worker publishes; nothing of a claim moves.
LEMMA WorkerStep ==
  ASSUME ClaimInv, NEW w \in Workers,
         \/ ListCandidates(w)
         \/ \E t \in Tasks : Publish(w, t)
         \/ \E lost \in SUBSET Tasks : PublishFails(w, lost)
  PROVE  ClaimInv' /\ AgentsStay
<1> USE PublicTasksAssumption
<1>1. UNCHANGED <<task, exec, grant, answer, call>>
  BY DEF ListCandidates, Publish, PublishFails
<1>2. candidate[w] \in [Tasks -> 0 .. MaxRevision] /\ 0 \in 0 .. MaxRevision
  BY DEF ClaimInv, ClaimTypes
<1>3. candidate' \in [Workers -> [Tasks -> 0 .. MaxRevision]]
      /\ projection' \in [Tasks -> Terms \cup {None}]
  <2>1. CASE ListCandidates(w)
    <3>1. \A t \in Tasks : task[t].rev \in 0 .. MaxRevision
      BY DEF ClaimInv, ClaimTypes, Task
    <3> DEFINE f == [t \in Tasks |-> IF t \in Unpublished THEN task[t].rev ELSE 0]
    <3>2. f \in [Tasks -> 0 .. MaxRevision]
      BY <1>2, <3>1
    <3>3. candidate' = [candidate EXCEPT ![w] = f] /\ projection' = projection
      BY <2>1 DEF ListCandidates
    <3> QED
      BY <3>2, <3>3 DEF ClaimInv, ClaimTypes
  <2>2. ASSUME NEW t \in Tasks, Publish(w, t)
        PROVE  candidate' \in [Workers -> [Tasks -> 0 .. MaxRevision]]
               /\ projection' \in [Tasks -> Terms \cup {None}]
    <3>1. candidate[w][t] \in 1 .. MaxRevision
      BY <1>2, <2>2 DEF Publish
    <3>2. PICK p \in Written(candidate[w][t]) :
                 projection' = [projection EXCEPT ![t] = InsertIfAbsent(@, p)]
      BY <2>2 DEF Publish
    <3>3. p \in Terms
      <4>1. PICK result \in UNION {Analyze(files) : files \in Snapshot} :
                   p = [rev |-> candidate[w][t], analysed |-> validateResult(result)]
        BY <3>2 DEF Written
      <4>2. validateResult(result) \in BOOLEAN
        BY DEF validateResult
      <4> QED
        BY <3>1, <4>1, <4>2 DEF Terms
    <3>4. projection' \in [Tasks -> Terms \cup {None}]
      BY <3>2, <3>3 DEF InsertIfAbsent, ClaimInv, ClaimTypes
    <3> DEFINE f == [candidate[w] EXCEPT ![t] = 0]
    <3>5. f \in [Tasks -> 0 .. MaxRevision] /\ candidate' = [candidate EXCEPT ![w] = f]
      BY <1>2, <2>2 DEF Publish
    <3> QED
      BY <3>4, <3>5 DEF ClaimInv, ClaimTypes
  <2>3. ASSUME NEW lost \in SUBSET Tasks, PublishFails(w, lost)
        PROVE  candidate' \in [Workers -> [Tasks -> 0 .. MaxRevision]]
               /\ projection' \in [Tasks -> Terms \cup {None}]
    <3> DEFINE f == [t \in Tasks |-> IF t \in lost THEN 0 ELSE candidate[w][t]]
    <3>1. f \in [Tasks -> 0 .. MaxRevision]
      BY <1>2
    <3>2. candidate' = [candidate EXCEPT ![w] = f] /\ projection' = projection
      BY <2>3 DEF PublishFails
    <3> QED
      BY <3>1, <3>2 DEF ClaimInv, ClaimTypes
  <2> QED
    BY <2>1, <2>2, <2>3
<1>4. ClaimTypes'
  BY <1>1, <1>3 DEF ClaimInv, ClaimTypes
<1> QED
  BY <1>1, <1>4, KeepClaims

\* The calls of agents that make no execution.
LEMMA CallStep ==
  ASSUME ClaimInv,
         \/ \E a \in Agents, r \in Requests, t \in Tasks : ClaimBegins(a, r, t)
         \/ \E a \in Agents, e \in Execs, kind \in {"start", "heartbeat"} :
              Authorize(a, e, kind)
         \/ \E a \in Agents, e \in Execs : Expire(a, e)
         \/ \E e \in Execs : GrantLapses(e)
         \/ \E c \in call : CallEnds(c)
  PROVE  ClaimInv' /\ AgentsStay
<1>1. UNCHANGED <<task, projection, candidate, exec, answer>>
  BY DEF ClaimBegins, Authorize, Expire, GrantLapses, CallEnds
<1>2. call' \subseteq ClaimCall \cup CommandCall
  <2>1. ASSUME NEW a \in Agents, NEW r \in Requests, NEW t \in Tasks, ClaimBegins(a, r, t)
        PROVE  call' \subseteq ClaimCall \cup CommandCall
    <3>1. task[t].late \in BOOLEAN
      BY DEF ClaimInv, ClaimTypes, Task
    <3> DEFINE c == [kind |-> "claim", agent |-> a, request |-> r, task |-> t,
                     late |-> task[t].late]
    <3>2. c \in ClaimCall
      BY <3>1 DEF ClaimCall
    <3>3. call' = call \cup {c}
      BY <2>1 DEF ClaimBegins, Calls
    <3> QED
      BY <3>2, <3>3 DEF ClaimInv, ClaimTypes
  <2>2. ASSUME NEW a \in Agents, NEW e \in Execs, NEW kind \in {"start", "heartbeat"},
               Authorize(a, e, kind)
        PROVE  call' \subseteq ClaimCall \cup CommandCall
    <3> DEFINE c == [kind |-> kind, agent |-> a, exec |-> e]
    <3>1. c \in CommandCall
      BY DEF CommandCall
    <3>2. call' = call \cup {c}
      BY <2>2 DEF Authorize, Calls
    <3> QED
      BY <3>1, <3>2 DEF ClaimInv, ClaimTypes
  <2>3. CASE \/ \E a \in Agents, e \in Execs : Expire(a, e)
             \/ \E e \in Execs : GrantLapses(e)
             \/ \E c \in call : CallEnds(c)
    BY <2>3 DEF ClaimInv, ClaimTypes, Expire, GrantLapses, CallEnds
  <2> QED
    BY <2>1, <2>2, <2>3
<1>3. /\ grant' \in [Execs -> Grant]
      /\ \A d \in Execs : grant[d].status # "none" => grant'[d].status # "none"
  <2>1. CASE grant' = grant
    BY <2>1 DEF ClaimInv, ClaimTypes
  <2>2. CASE \E e \in Execs, g \in Grant : g.status # "none" /\ grant' = [grant EXCEPT ![e] = g]
    BY <2>2 DEF ClaimInv, ClaimTypes
  <2>3. \A e \in Execs : grant[e] \in Grant
    BY DEF ClaimInv, ClaimTypes
  <2>4. ASSUME NEW a \in Agents, NEW e \in Execs, Expire(a, e)
        PROVE  \E g \in Grant : g.status # "none" /\ grant' = [grant EXCEPT ![e] = g]
    <3> DEFINE g == [grant[e] EXCEPT !.status = "expired"]
    <3>1. g \in Grant /\ g.status # "none"
      BY <2>3 DEF Grant
    <3>2. grant' = [grant EXCEPT ![e] = g]
      BY <2>4 DEF Expire
    <3> HIDE DEF g
    <3> QED
      BY <3>1, <3>2
  <2>5. ASSUME NEW e \in Execs, GrantLapses(e)
        PROVE  \E g \in Grant : g.status # "none" /\ grant' = [grant EXCEPT ![e] = g]
    <3> DEFINE g == [grant[e] EXCEPT !.late = TRUE]
    <3>1. g \in Grant /\ g.status # "none"
      BY <2>3, <2>5 DEF Grant, GrantLapses
    <3>2. grant' = [grant EXCEPT ![e] = g]
      BY <2>5 DEF GrantLapses
    <3> HIDE DEF g
    <3> QED
      BY <3>1, <3>2
  <2> QED
    BY <2>1, <2>2, <2>4, <2>5 DEF ClaimBegins, Authorize, CallEnds
<1>4. ClaimTypes'
  BY <1>1, <1>2, <1>3 DEF ClaimInv, ClaimTypes
<1> QED
  BY <1>1, <1>3, <1>4, KeepClaims

\* An agent from outside claims.
LEMMA PublicClaimStep ==
  ASSUME ClaimInv, NEW c \in call, NEW e \in Execs, Claim(c, e)
  PROVE  ClaimInv' /\ AgentsStay
<1> USE PublicTasksAssumption
<1>1. /\ c.kind = "claim" /\ ~ Answered(c.agent, c.request) /\ IsOpen(task[c.task])
      /\ exec[e].status = "none"
      /\ exec' = [exec EXCEPT ![e] = NewLeasedExecution(c)]
      /\ grant' = [grant EXCEPT ![e] = NewGrant(c.task)]
      /\ answer' = [answer EXCEPT ![<<c.agent, c.request>>] = e]
      /\ call' = call \ {c} /\ UNCHANGED <<projection, candidate>>
  BY DEF Claim, Remember
<1>2. c \in ClaimCall
  BY <1>1 DEF ClaimInv, ClaimTypes, CommandCall
<1>3. c.agent \in Agents /\ c.request \in Requests /\ c.task \in Tasks
  BY <1>2 DEF ClaimCall
<1> DEFINE q == NewLeasedExecution(c)
           g == NewGrant(c.task)
<1>4. /\ q \in Execution /\ q.status = "leased" /\ q.task = c.task
      /\ q.agent = c.agent /\ q.request = c.request
  BY <1>3 DEF NewLeasedExecution, Execution, Alive
<1>5. g \in Grant /\ g.status = "active"
  BY <1>3 DEF NewGrant, Grant, ClaimInv, ClaimTypes, Task
<1>6. answer[c.agent, c.request] = None
  BY <1>1 DEF Answered
<1>7. exec' = [exec EXCEPT ![e] = q] /\ grant' = [grant EXCEPT ![e] = g]
  BY <1>1
<1> HIDE DEF q, g
<1>8. task' = [task EXCEPT ![c.task].status = "claimed", ![c.task].exec = e]
  BY DEF Claim
<1>9. PICK r \in Task : /\ r.status = "claimed" /\ r.exec = e
                        /\ task' = [task EXCEPT ![c.task] = r]
  BY <1>3, <1>8, ClaimedTask
<1>10. /\ q.agent \in Agents /\ q.request \in Requests
       /\ answer[q.agent, q.request] = None
       /\ answer' = [answer EXCEPT ![<<q.agent, q.request>>] = e]
       /\ \E h \in Grant : h.status = "active" /\ grant' = [grant EXCEPT ![e] = h]
  BY <1>1, <1>3, <1>4, <1>5, <1>6, <1>7
<1>11. call' \subseteq call /\ UNCHANGED <<projection, candidate>>
  BY <1>1
<1>12. IsOpen(task[c.task]) /\ exec[e].status = "none"
  BY <1>1
<1> QED
  BY <1>3, <1>4, <1>7, <1>9, <1>10, <1>11, <1>12, NewClaim

\* The insider claims.
LEMMA InsiderClaimStep ==
  ASSUME ClaimInv, NEW t \in Tasks, NEW e \in Execs, InsiderClaims(t, e)
  PROVE  ClaimInv' /\ AgentsStay
<1> USE PublicTasksAssumption
<1> DEFINE q == [NoExecution EXCEPT !.status = "leased", !.task = t, !.agent = Insider]
<1>1. q \in Execution /\ q.status = "leased" /\ q.task = t /\ q.agent \notin Agents
  BY DEF NoExecution, Execution, Alive
<1>2. exec' = [exec EXCEPT ![e] = q]
  BY DEF InsiderClaims
<1> HIDE DEF q
<1>3. task' = [task EXCEPT ![t].status = "claimed", ![t].exec = e]
  BY DEF InsiderClaims
<1>4. PICK r \in Task : /\ r.status = "claimed" /\ r.exec = e
                        /\ task' = [task EXCEPT ![t] = r]
  BY <1>3, ClaimedTask
<1>5. /\ UNCHANGED <<projection, candidate, grant, answer>> /\ call' \subseteq call
      /\ IsOpen(task[t]) /\ exec[e].status = "none"
  BY DEF InsiderClaims
<1> QED
  BY <1>1, <1>2, <1>4, <1>5, NewClaim

\* A task that starts is a task, and keeps its execution.
LEMMA TaskStarts ==
  ASSUME ClaimInv, NEW t \in Tasks, task' = [task EXCEPT ![t].status = "in_progress"]
  PROVE  /\ task' \in [Tasks -> Task]
         /\ \A u \in Tasks :
              /\ task'[u].exec = task[u].exec
              /\ task[u].status \in {"claimed", "in_progress"} =>
                   task'[u].status \in {"claimed", "in_progress"}
<1> DEFINE r == [task[t] EXCEPT !.status = "in_progress"]
<1>1. task[t] \in Task /\ r \in Task /\ r.status = "in_progress" /\ r.exec = task[t].exec
  BY DEF ClaimInv, ClaimTypes, Task
<1>2. task' = [task EXCEPT ![t] = r]
  OBVIOUS
<1> HIDE DEF r
<1> QED
  BY <1>1, <1>2 DEF ClaimInv, ClaimTypes

\* An execution with another status, or late, is an execution.
LEMMA ExecutionMoves ==
  ASSUME NEW q \in Execution, NEW s \in {"ended"} \cup Alive
  PROVE  /\ [q EXCEPT !.status = s] \in Execution
         /\ [q EXCEPT !.status = s].status = s
         /\ [q EXCEPT !.status = s].task = q.task
         /\ [q EXCEPT !.status = s].agent = q.agent
         /\ [q EXCEPT !.status = s].request = q.request
         /\ [q EXCEPT !.late = TRUE] \in Execution
         /\ [q EXCEPT !.late = TRUE].status = q.status
         /\ [q EXCEPT !.late = TRUE].task = q.task
         /\ [q EXCEPT !.late = TRUE].agent = q.agent
         /\ [q EXCEPT !.late = TRUE].request = q.request
  BY DEF Execution

\* An execution that is alive gets another status, and may start its task.
LEMMA StatusStep ==
  ASSUME ClaimInv, NEW e \in Execs, NEW s \in Alive, exec[e].status \in Alive,
         exec' = [exec EXCEPT ![e].status = s],
         UNCHANGED <<projection, candidate, grant, answer>>, call' \subseteq call,
         UNCHANGED task \/ task' = [task EXCEPT ![exec[e].task].status = "in_progress"]
  PROVE  ClaimInv' /\ AgentsStay
<1> DEFINE q == [exec[e] EXCEPT !.status = s]
<1>1. exec[e] \in Execution /\ exec[e].status # "none" /\ exec[e].task \in Tasks
  BY DEF ClaimInv, ClaimTypes, ExecRows, Alive, Downstream
<1>2. /\ q \in Execution /\ q.status = s /\ q.task = exec[e].task
      /\ q.agent = exec[e].agent /\ q.request = exec[e].request
  BY <1>1, ExecutionMoves
<1>3. exec' = [exec EXCEPT ![e] = q]
  OBVIOUS
<1> HIDE DEF q
<1>4. /\ task' \in [Tasks -> Task]
      /\ \A u \in Tasks :
           /\ task'[u].exec = task[u].exec
           /\ task[u].status \in {"claimed", "in_progress"} =>
                task'[u].status \in {"claimed", "in_progress"}
  BY <1>1, TaskStarts DEF ClaimInv, ClaimTypes
<1>5. ClaimTypes'
  BY <1>2, <1>3, <1>4 DEF ClaimInv, ClaimTypes
<1>6. s # "none"
  BY DEF Alive, Downstream
<1> QED
  BY <1>1, <1>2, <1>3, <1>4, <1>5, <1>6, MoveClaim

\* The claimant starts its execution, or lets it be known that it lives.
LEMMA CommandStep ==
  ASSUME ClaimInv, NEW c \in call, Command(c) PROVE ClaimInv' /\ AgentsStay
<1>1. c \in CommandCall
  BY DEF Command, ClaimInv, ClaimTypes, ClaimCall
<1>2. c.exec \in Execs /\ c.kind \in {"start", "heartbeat"}
  BY <1>1 DEF CommandCall
<1>3. CASE c.kind = "start"
  <2>1. exec[c.exec].status \in Alive /\ "running" \in Alive
    BY <1>3 DEF Command, Accepts, Alive
  <2> QED
    BY <1>2, <1>3, <2>1, StatusStep DEF Command
<1>4. CASE c.kind # "start"
  <2>1. UNCHANGED <<task, projection, candidate, exec, grant, answer>> /\ call' \subseteq call
    BY <1>4 DEF Command
  <2>2. ClaimTypes'
    BY <2>1 DEF ClaimInv, ClaimTypes
  <2> QED
    BY <2>1, <2>2, KeepClaims
<1> QED
  BY <1>3, <1>4

\* The insider's execution moves on.
LEMMA HolderStep ==
  ASSUME ClaimInv, HolderNext PROVE ClaimInv' /\ AgentsStay
<1>1. PICK e \in Execs : NotifySubmit(e) \/ InsiderStarts(e) \/ Validated(e)
  BY DEF HolderNext
<1>2. {"leased", "running", "submitted", "reviewing"} \subseteq Alive
  BY DEF Alive, Downstream
<1>3. CASE NotifySubmit(e)
  BY <1>2, <1>3, StatusStep DEF NotifySubmit
<1>4. CASE InsiderStarts(e)
  BY <1>2, <1>4, StatusStep DEF InsiderStarts
<1>5. CASE Validated(e)
  BY <1>2, <1>5, StatusStep DEF Validated
<1> QED
  BY <1>1, <1>3, <1>4, <1>5

\* A lease ends.
LEMMA LapseStep ==
  ASSUME ClaimInv, NEW e \in Execs, LeaseLapses(e) PROVE ClaimInv' /\ AgentsStay
<1> DEFINE q == [exec[e] EXCEPT !.late = TRUE]
<1>1. /\ exec[e] \in Execution /\ exec[e].status # "none"
      /\ UNCHANGED <<task, projection, candidate, grant, answer, call>>
      /\ exec' = [exec EXCEPT ![e] = q]
  BY DEF LeaseLapses, ClaimInv, ClaimTypes
<1>2. /\ q \in Execution /\ q.status = exec[e].status /\ q.task = exec[e].task
      /\ q.agent = exec[e].agent /\ q.request = exec[e].request
  <2>1. "ended" \in {"ended"} \cup Alive
    OBVIOUS
  <2> QED
    BY <1>1, <2>1, ExecutionMoves
<1> HIDE DEF q
<1>3. ClaimTypes'
  BY <1>1, <1>2 DEF ClaimInv, ClaimTypes
<1> QED
  BY <1>1, <1>2, <1>3, MoveClaim

\* The issue is edited, or the deadline passes.
LEMMA TaskOnlyStep ==
  ASSUME ClaimInv, NEW t \in Tasks, Edited(t) \/ DeadlinePasses(t)
  PROVE  ClaimInv' /\ AgentsStay
<1>1. PICK r \in Task : /\ task' = [task EXCEPT ![t] = r]
                        /\ r.status = task[t].status /\ r.exec = task[t].exec
  <2>1. task[t] \in Task /\ task[t].rev \in 1 .. MaxRevision /\ MaxRevision \in Nat
    BY PublicTasksAssumption DEF ClaimInv, ClaimTypes, Task
  <2>2. CASE Edited(t)
    <3> DEFINE v == task[t].rev + 1
               r == [task[t] EXCEPT !.rev = v]
    <3>1. v \in 1 .. MaxRevision
      BY <2>1, <2>2 DEF Edited
    <3>2. task' = [task EXCEPT ![t] = r]
      BY <2>2 DEF Edited
    <3> HIDE DEF v
    <3>3. r \in Task /\ r.status = task[t].status /\ r.exec = task[t].exec
      BY <2>1, <3>1 DEF Task
    <3> QED
      BY <3>2, <3>3
  <2>3. CASE DeadlinePasses(t)
    <3> DEFINE r == [task[t] EXCEPT !.late = TRUE]
    <3>1. r \in Task /\ r.status = task[t].status /\ r.exec = task[t].exec
      BY <2>1 DEF Task
    <3>2. task' = [task EXCEPT ![t] = r]
      BY <2>3 DEF DeadlinePasses
    <3> QED
      BY <3>1, <3>2
  <2> QED
    BY <2>2, <2>3
<1>2. /\ task' \in [Tasks -> Task]
      /\ \A u \in Tasks : task'[u].exec = task[u].exec /\ task'[u].status = task[u].status
  BY <1>1 DEF ClaimInv, ClaimTypes
<1>3. /\ grant' \in [Execs -> Grant]
      /\ \A e \in Execs : grant[e].status # "none" => grant'[e].status # "none"
  <2>1. \A g \in Grant : [g EXCEPT !.late = TRUE] \in Grant
                           /\ [g EXCEPT !.late = TRUE].status = g.status
    BY DEF Grant
  <2>2. \A e \in Execs : grant[e] \in Grant
    BY DEF ClaimInv, ClaimTypes
  <2>3. CASE Edited(t)
    BY <2>2, <2>3 DEF Edited, ClaimInv, ClaimTypes
  <2>4. CASE DeadlinePasses(t)
    <3>1. grant' = [e \in Execs |-> IF exec[e].task = t THEN [grant[e] EXCEPT !.late = TRUE]
                                    ELSE grant[e]]
      BY <2>4 DEF DeadlinePasses
    <3> QED
      BY <2>1, <2>2, <3>1
  <2> QED
    BY <2>3, <2>4
<1>4. UNCHANGED <<projection, candidate, exec, answer, call>>
  BY DEF Edited, DeadlinePasses
<1>5. ClaimTypes'
  BY <1>2, <1>3, <1>4 DEF ClaimInv, ClaimTypes
<1> QED
  BY <1>2, <1>3, <1>4, <1>5, KeepClaims

\* An execution is taken away and its task opened.
LEMMA ReapStep ==
  ASSUME ClaimInv, NEW e \in Execs, Reap(e) PROVE ClaimInv' /\ AgentsStay
<1> DEFINE q == [exec[e] EXCEPT !.status = "ended"]
           t == exec[e].task
           r == [task[t] EXCEPT !.status = "open", !.exec = None]
<1>1. /\ exec[e] \in Execution /\ exec[e].status \in Alive /\ exec[e].status # "none"
      /\ t \in Tasks /\ task[t].exec = e
      /\ UNCHANGED <<projection, candidate, grant, answer, call>>
  BY DEF Reap, ClaimInv, ClaimTypes, ExecRows, AliveHolds, Alive
<1>2. exec' = [exec EXCEPT ![e] = q] /\ task' = [task EXCEPT ![t] = r]
  BY DEF Reap
<1>3. /\ q \in Execution /\ q.status = "ended" /\ q.task = t
      /\ q.agent = exec[e].agent /\ q.request = exec[e].request
  BY <1>1, ExecutionMoves
<1>4. r \in Task /\ r.exec = None
  <2>1. task[t] \in Task
    BY <1>1 DEF ClaimInv, ClaimTypes
  <2> QED
    BY <2>1, TaskMoves
<1> HIDE DEF q, r, t
<1>5. /\ exec'[e] = q /\ \A d \in Execs : d # e => exec'[d] = exec[d]
      /\ \A u \in Tasks : u # t => task'[u] = task[u]
  BY <1>2 DEF ClaimInv, ClaimTypes
<1>6. ClaimTypes'
  BY <1>1, <1>2, <1>3, <1>4 DEF ClaimInv, ClaimTypes
<1>7. ExecRows' /\ AnswersName' /\ Granted' /\ AgentsStay
  <2>1. ExecRows' /\ AgentsStay
    BY <1>1, <1>3, <1>5 DEF ClaimInv, ExecRows, AgentsStay
  <2>2. \A d \in Execs : exec'[d].agent = exec[d].agent /\ exec'[d].request = exec[d].request
    BY <1>3, <1>5
  <2> QED
    BY <1>1, <2>1, <2>2 DEF ClaimInv, AnswersName, Granted
<1>8. \A d \in Execs : exec[d].status \in Alive =>
        exec[d].task \in Tasks /\ (exec[d].task = t => d = e)
  BY <1>1 DEF ClaimInv, ExecRows, AliveHolds, Alive, Downstream
<1>9. AliveHolds'
  <2>1. "ended" \notin Alive
    BY DEF Alive, Downstream
  <2> QED
    BY <1>3, <1>5, <1>8, <2>1 DEF ClaimInv, AliveHolds
<1>10. NamesAreThere'
  <2>1. \A u \in Tasks : task[u].exec \in Execs \cup {None}
    BY DEF ClaimInv, ClaimTypes, Task
  <2>2. task'[t].exec = None
    BY <1>1, <1>2, <1>4 DEF ClaimInv, ClaimTypes
  <2> QED
    BY <1>3, <1>5, <2>1, <2>2 DEF ClaimInv, NamesAreThere
<1> QED
  BY <1>6, <1>7, <1>9, <1>10 DEF ClaimInv

\* A task is closed, and its execution ends.
LEMMA CloseStep ==
  ASSUME ClaimInv, NEW t \in Tasks, Close(t)
  PROVE  ClaimInv' /\ AgentsStay
<1>1. PICK r \in Task : task' = [task EXCEPT ![t] = r] /\ r.exec = task[t].exec
  <2> DEFINE r == [task[t] EXCEPT !.status = "closed"]
  <2>1. task[t] \in Task
    BY DEF ClaimInv, ClaimTypes
  <2>2. r \in Task /\ r.exec = task[t].exec
    BY <2>1 DEF Task
  <2>3. task' = [task EXCEPT ![t] = r]
    BY DEF Close
  <2> HIDE DEF r
  <2> QED
    BY <2>2, <2>3
<1>2. UNCHANGED <<projection, candidate, grant, answer, call>>
  BY DEF Close
<1>3. ASSUME NEW e \in Execs
      PROVE  /\ exec'[e] \in Execution /\ exec'[e].task = exec[e].task
             /\ exec'[e].agent = exec[e].agent /\ exec'[e].request = exec[e].request
             /\ IF e = task[t].exec THEN exec'[e].status = "ended" ELSE exec'[e] = exec[e]
  <2>1. exec[e] \in Execution /\ "ended" \in {"ended"} \cup Alive
    BY DEF ClaimInv, ClaimTypes
  <2>2. exec'[e] = IF e = task[t].exec THEN [exec[e] EXCEPT !.status = "ended"] ELSE exec[e]
    BY DEF Close
  <2>3. CASE e = task[t].exec
    <3>1. exec'[e] = [exec[e] EXCEPT !.status = "ended"]
      BY <2>2, <2>3
    <3> DEFINE q == [exec[e] EXCEPT !.status = "ended"]
    <3>2. /\ q \in Execution /\ q.status = "ended" /\ q.task = exec[e].task
          /\ q.agent = exec[e].agent /\ q.request = exec[e].request
      BY <2>1, ExecutionMoves
    <3>3. exec'[e] = q
      BY <3>1
    <3> HIDE DEF q
    <3> QED
      BY <2>3, <3>2, <3>3
  <2>4. CASE e # task[t].exec
    BY <2>1, <2>2, <2>4
  <2> QED
    BY <2>3, <2>4
<1>4. exec' \in [Execs -> Execution]
  <2>1. exec' = [e \in Execs |-> IF e = task[t].exec
                                 THEN [exec[e] EXCEPT !.status = "ended"] ELSE exec[e]]
    BY DEF Close
  <2> QED
    BY <1>3, <2>1
<1>5. \A u \in Tasks : u # t => task'[u] = task[u]
  BY <1>1 DEF ClaimInv, ClaimTypes
<1>6. ClaimTypes'
  BY <1>1, <1>2, <1>4 DEF ClaimInv, ClaimTypes
<1>7. ExecRows' /\ AnswersName' /\ NamesAreThere' /\ Granted' /\ AgentsStay
  <2>1. /\ None \notin Execs
        /\ \A u \in Tasks : task'[u].exec = task[u].exec
                             /\ task[u].exec \in Execs \cup {None}
    BY <1>1, <1>5, PublicTasksAssumption DEF ClaimInv, ClaimTypes, Task
  <2>2. \A e \in Execs : exec[e].status = "none" => exec'[e] = exec[e]
    BY <1>3, <2>1 DEF ClaimInv, NamesAreThere
  <2>3. ExecRows' /\ AgentsStay
    BY <1>3, <2>2 DEF ClaimInv, ExecRows, AgentsStay
  <2>4. NamesAreThere'
    BY <1>3, <2>1 DEF ClaimInv, NamesAreThere
  <2> QED
    BY <1>2, <1>3, <2>3, <2>4 DEF ClaimInv, AnswersName, Granted
<1>8. AliveHolds'
  <2> SUFFICES ASSUME NEW e \in Execs, exec'[e].status \in Alive
               PROVE  /\ task'[exec'[e].task].exec = e
                      /\ task'[exec'[e].task].status \in {"claimed", "in_progress"}
    BY DEF AliveHolds
  <2>1. e # task[t].exec /\ exec'[e] = exec[e]
    BY <1>3 DEF Alive, Downstream
  <2>2. /\ exec[e].task \in Tasks /\ task[exec[e].task].exec = e
        /\ task[exec[e].task].status \in {"claimed", "in_progress"}
    BY <2>1 DEF ClaimInv, ExecRows, AliveHolds, Alive, Downstream
  <2> QED
    BY <1>5, <2>1, <2>2
<1> QED
  BY <1>6, <1>7, <1>8 DEF ClaimInv

\* Whatever tasks and executions do.
LEMMA TasksMove ==
  ASSUME ClaimInv,
         PublicNext \/ SponsorNext \/ HolderNext \/ (\E e \in Execs : LeaseLapses(e))
           \/ UNCHANGED taskVars
  PROVE  ClaimInv' /\ AgentsStay
<1>1. CASE PublicNext
  BY <1>1, WorkerStep, CallStep, PublicClaimStep, CommandStep, TaskOnlyStep DEF PublicNext
<1>2. CASE SponsorNext
  BY <1>2, TaskOnlyStep, CloseStep, InsiderClaimStep, ReapStep DEF SponsorNext
<1>3. CASE HolderNext
  BY <1>3, HolderStep
<1>4. CASE \E e \in Execs : LeaseLapses(e)
  BY <1>4, LapseStep
<1>5. CASE UNCHANGED taskVars
  <2>1. ClaimTypes'
    BY <1>5 DEF taskVars, ClaimInv, ClaimTypes
  <2> QED
    BY <1>5, <2>1, KeepClaims DEF taskVars
<1> QED
  BY <1>1, <1>2, <1>3, <1>4, <1>5

-----------------------------------------------------------------------------
(* Submissions.                                                            *)

\* What is the insider's stays the insider's.
LEMMA InsidersStay ==
  ASSUME ClaimInv, AgentsStay, NEW e \in Execs, exec[e].agent = Insider
  PROVE  exec'[e].agent = Insider
<1>1. exec[e].status # "none"
  BY PublicTasksAssumption DEF ClaimInv, ExecRows, NoExecution
<1> QED
  BY <1>1 DEF AgentsStay

\* The tasks move, and the credentials do not.
LEMMA KeepGit ==
  ASSUME ClaimInv, GitInv, AgentsStay, UNCHANGED gitVars PROVE GitInv'
<1>1. GitTypes' /\ Spent'
  BY DEF GitInv, GitTypes, Spent, gitVars
<1>2. \A c \in git : c.kind = "submit" => c.exec \in Execs
  BY DEF GitInv, GitTypes, GitCall
<1>3. InsiderSubmits'
  BY <1>2, InsidersStay DEF GitInv, InsiderSubmits, gitVars
<1> QED
  BY <1>1, <1>3 DEF GitInv

\* One row of the credentials and submissions moves, and no call begins.
LEMMA OneRow ==
  ASSUME GitInv, GitTypes', NEW e \in Execs, UNCHANGED exec, git' \subseteq git,
         \A d \in Execs \ {e} :
           cred'[d] = cred[d] /\ issued'[d] = issued[d] /\ sub'[d] = sub[d],
         Len(sub'[e]) + (IF cred'[e].status = "active" THEN 1 ELSE 0) <= issued'[e],
         sub'[e] # <<>> => exec[e].agent = Insider
  PROVE  GitInv'
<1>1. Spent'
  <2> SUFFICES ASSUME NEW d \in Execs
               PROVE  Len(sub'[d]) + (IF cred'[d].status = "active" THEN 1 ELSE 0)
                        <= issued'[d]
    BY DEF Spent
  <2>1. CASE d = e
    BY <2>1
  <2>2. CASE d # e
    BY <2>2 DEF GitInv, Spent
  <2> QED
    BY <2>1, <2>2
<1>2. InsiderSubmits'
  BY DEF GitInv, InsiderSubmits
<1> QED
  BY <1>1, <1>2 DEF GitInv

\* A call begins, and nothing else.
LEMMA CallBegins ==
  ASSUME GitInv, NEW c \in GitCall, GitCalls(c), UNCHANGED <<exec, cred, issued, sub>>,
         c.kind = "submit" => exec[c.exec].agent = Insider
  PROVE  GitInv'
<1>1. git' = git \cup {c}
  BY DEF GitCalls
<1>2. GitTypes' /\ Spent'
  BY <1>1 DEF GitInv, GitTypes, Spent
<1>3. InsiderSubmits'
  BY <1>1 DEF GitInv, InsiderSubmits
<1> QED
  BY <1>2, <1>3 DEF GitInv

\* A credential gets another status, or is late.
LEMMA CredentialMoves ==
  ASSUME NEW q \in Credential
  PROVE  /\ [q EXCEPT !.status = "revoked"] \in Credential
         /\ [q EXCEPT !.status = "revoked"].status = "revoked"
         /\ [q EXCEPT !.late = TRUE] \in Credential
         /\ [q EXCEPT !.late = TRUE].status = q.status
  BY DEF Credential

\* The credential of an execution is revoked or runs out.
LEMMA CredentialWanes ==
  ASSUME GitInv, NEW e \in Execs, NEW q \in Credential,
         q.status = "active" => cred[e].status = "active",
         cred' = [cred EXCEPT ![e] = q], UNCHANGED <<issued, sub, git>>
  PROVE  GitTypes' /\ Spent'
<1>1. GitTypes'
  BY DEF GitInv, GitTypes
<1>2. \A d \in Execs : cred'[d].status = "active" => cred[d].status = "active"
  BY DEF GitInv, GitTypes
<1>3. Spent'
  <2> SUFFICES ASSUME NEW d \in Execs
               PROVE  Len(sub[d]) + (IF cred'[d].status = "active" THEN 1 ELSE 0)
                        <= issued[d]
    BY DEF Spent
  <2> DEFINE l == Len(sub[d])
             n == issued[d]
  <2>1. l \in Nat /\ n \in Nat /\ l + (IF cred[d].status = "active" THEN 1 ELSE 0) <= n
    BY DEF GitInv, GitTypes, Spent
  <2> HIDE DEF l, n
  <2>2. l + (IF cred'[d].status = "active" THEN 1 ELSE 0) <= n
    BY <1>2, <2>1
  <2> QED
    BY <2>2 DEF l, n
<1> QED
  BY <1>1, <1>3

\* The lease of an execution ends.
LEMMA LapseKeepsGit ==
  ASSUME ClaimInv, GitInv, AgentsStay, NEW e \in Execs, LeaseLapses(e)
  PROVE  GitInv'
<1> DEFINE q == [cred[e] EXCEPT !.late = TRUE]
<1>1. cred[e] \in Credential
  BY DEF GitInv, GitTypes
<1>2. q \in Credential /\ q.status = cred[e].status
  BY <1>1, CredentialMoves
<1>3. cred' = [cred EXCEPT ![e] = q] /\ UNCHANGED <<issued, sub, git>>
  BY DEF LeaseLapses
<1> HIDE DEF q
<1>4. GitTypes' /\ Spent'
  BY <1>2, <1>3, CredentialWanes
<1>5. \A c \in git : c.kind = "submit" => c.exec \in Execs
  BY DEF GitInv, GitTypes, GitCall
<1>6. InsiderSubmits'
  BY <1>3, <1>5, InsidersStay DEF GitInv, InsiderSubmits
<1> QED
  BY <1>4, <1>6 DEF GitInv

\* A credential is issued.
LEMMA IssueStep ==
  ASSUME GitInv, UNCHANGED exec, NEW c \in git, Issue(c), ClaimInv PROVE GitInv'
<1> DEFINE e == c.exec
           q == [status |-> "active", request |-> c.request, late |-> exec[e].late]
           n == issued[e] + 1
<1>1. c \in [kind : {"issue"}, exec : Execs, request : GitRequests]
  BY DEF Issue, GitInv, GitTypes, GitCall
<1>2. e \in Execs /\ c.request \in GitRequests
  BY <1>1
<1>3. exec[e].late \in BOOLEAN
  BY <1>2 DEF ClaimInv, ClaimTypes, Execution
<1>4. q \in Credential /\ q.status = "active"
  BY <1>2, <1>3 DEF Credential
<1>5. /\ cred' = [cred EXCEPT ![e] = q] /\ issued' = [issued EXCEPT ![e] = n]
      /\ git' \subseteq git /\ sub' = sub
  BY DEF Issue
<1>6. n \in Nat /\ Len(sub[e]) + 1 <= n
  <2> DEFINE l == Len(sub[e])
             m == issued[e]
  <2>1. n = m + 1
    OBVIOUS
  <2> HIDE DEF e
  <2>2. l \in Nat /\ m \in Nat /\ l + (IF cred[e].status = "active" THEN 1 ELSE 0) <= m
    BY <1>2 DEF GitInv, GitTypes, Spent
  <2> HIDE DEF l, m, n
  <2>3. l + 1 <= n /\ n \in Nat
    BY <2>1, <2>2
  <2> QED
    BY <2>3 DEF l
<1> HIDE DEF e, q, n
<1>7. /\ cred'[e] = q /\ issued'[e] = n
      /\ \A d \in Execs \ {e} :
           cred'[d] = cred[d] /\ issued'[d] = issued[d] /\ sub'[d] = sub[d]
  BY <1>2, <1>5 DEF GitInv, GitTypes
<1>8. GitTypes'
  BY <1>2, <1>4, <1>5, <1>6 DEF GitInv, GitTypes
<1>9. sub'[e] # <<>> => exec[e].agent = Insider
  BY <1>2, <1>5 DEF GitInv, InsiderSubmits
<1>10. Len(sub'[e]) + (IF cred'[e].status = "active" THEN 1 ELSE 0) <= issued'[e]
  BY <1>4, <1>5, <1>6, <1>7
<1> QED
  BY <1>2, <1>5, <1>7, <1>8, <1>9, <1>10, OneRow

\* A submission is saved, and the credential spent.
LEMMA SubmitStep ==
  ASSUME GitInv, UNCHANGED exec, NEW c \in git, Submit(c) PROVE GitInv'
<1> DEFINE e == c.exec
           k == c.commit
           q == [cred[e] EXCEPT !.status = "revoked"]
           s == Append(sub[e], k)
<1>1. c.kind = "submit" /\ cred[e].status = "active"
  BY DEF Submit, Revocable
<1>2. c \in [kind : {"push", "submit"}, exec : Execs, commit : Commits]
  BY <1>1 DEF GitInv, GitTypes, GitCall
<1>3. e \in Execs /\ k \in Commits /\ exec[e].agent = Insider
  BY <1>1, <1>2 DEF GitInv, InsiderSubmits
<1>4. cred[e] \in Credential /\ sub[e] \in Seq(Commits)
  BY <1>3 DEF GitInv, GitTypes
<1>5. q \in Credential /\ q.status = "revoked"
  BY <1>4, CredentialMoves
<1>6. s \in Seq(Commits) /\ Len(s) = Len(sub[e]) + 1
  BY <1>3, <1>4
<1>7. /\ cred' = [cred EXCEPT ![e] = q] /\ sub' = [sub EXCEPT ![e] = s]
      /\ git' \subseteq git /\ issued' = issued
  BY DEF Submit
<1>8. Len(s) <= issued[e]
  BY <1>1, <1>3, <1>6 DEF GitInv, Spent
<1>9. issued[e] \in Nat /\ Len(s) \in Nat
  BY <1>3, <1>6 DEF GitInv, GitTypes
<1> HIDE DEF e, q, s, k
<1>10. /\ cred'[e] = q /\ sub'[e] = s
       /\ \A d \in Execs \ {e} :
            cred'[d] = cred[d] /\ issued'[d] = issued[d] /\ sub'[d] = sub[d]
  BY <1>3, <1>7 DEF GitInv, GitTypes
<1>11. GitTypes'
  BY <1>3, <1>5, <1>6, <1>7 DEF GitInv, GitTypes
<1>12. Len(sub'[e]) + (IF cred'[e].status = "active" THEN 1 ELSE 0) <= issued'[e]
  <2>1. cred'[e].status # "active" /\ sub'[e] = s /\ issued'[e] = issued[e]
    BY <1>5, <1>7, <1>10
  <2> QED
    BY <1>8, <1>9, <2>1
<1> QED
  BY <1>3, <1>7, <1>10, <1>11, <1>12, OneRow

\* Whatever the credentials and the calls do.
LEMMA GitMoves ==
  ASSUME ClaimInv, GitInv, UNCHANGED taskVars, GitNext PROVE GitInv'
<1>0. UNCHANGED exec
  BY DEF taskVars
<1>1. ASSUME NEW e \in Execs, NEW r \in GitRequests, IssueBegins(e, r) PROVE GitInv'
  <2> DEFINE c == [kind |-> "issue", exec |-> e, request |-> r]
  <2>1. c \in GitCall /\ c.kind # "submit"
    BY DEF GitCall
  <2>2. GitCalls(c) /\ UNCHANGED <<cred, issued, sub>>
    BY <1>1 DEF IssueBegins
  <2> HIDE DEF c
  <2> QED
    BY <1>0, <2>1, <2>2, CallBegins
<1>2. ASSUME NEW e \in Execs, NEW k \in Commits, PushBegins(e, k) \/ SubmitBegins(e, k)
      PROVE  GitInv'
  <2> DEFINE c == [kind |-> IF PushBegins(e, k) THEN "push" ELSE "submit",
                   exec |-> e, commit |-> k]
  <2>1. c \in GitCall /\ c.exec = e /\ (c.kind = "submit" => ~ PushBegins(e, k))
    BY DEF GitCall
  <2>2. CASE PushBegins(e, k)
    <3>1. GitCalls(c) /\ UNCHANGED <<cred, issued, sub>>
      BY <2>2 DEF PushBegins
    <3> HIDE DEF c
    <3> QED
      BY <1>0, <2>1, <2>2, <3>1, CallBegins
  <2>3. CASE ~ PushBegins(e, k)
    <3>1. c = [kind |-> "submit", exec |-> e, commit |-> k]
      BY <2>3
    <3>2. GitCalls(c) /\ UNCHANGED <<cred, issued, sub>> /\ exec[e].agent = Insider
      BY <1>2, <2>3, <3>1 DEF SubmitBegins, MaySubmit
    <3> HIDE DEF c
    <3> QED
      BY <1>0, <2>1, <3>2, CallBegins
  <2> QED
    BY <2>2, <2>3
<1>3. ASSUME NEW e \in Execs, RevokeCredential(e) \/ CredentialLapses(e) PROVE GitInv'
  <2>1. cred[e] \in Credential
    BY DEF GitInv, GitTypes
  <2>2. PICK q \in Credential : /\ cred' = [cred EXCEPT ![e] = q]
                                /\ q.status = "active" => cred[e].status = "active"
    <3> DEFINE q == [cred[e] EXCEPT !.status = "revoked"]
               p == [cred[e] EXCEPT !.late = TRUE]
    <3>1. /\ q \in Credential /\ q.status = "revoked"
          /\ p \in Credential /\ p.status = cred[e].status
      BY <2>1, CredentialMoves
    <3>2. cred' = [cred EXCEPT ![e] = q] \/ cred' = [cred EXCEPT ![e] = p]
      BY <1>3 DEF RevokeCredential, CredentialLapses
    <3> HIDE DEF q, p
    <3> QED
      BY <3>1, <3>2
  <2>3. UNCHANGED <<issued, sub, git>>
    BY <1>3 DEF RevokeCredential, CredentialLapses
  <2>4. GitTypes' /\ Spent'
    BY <2>2, <2>3, CredentialWanes
  <2>5. InsiderSubmits'
    BY <1>0, <2>3 DEF GitInv, InsiderSubmits
  <2> QED
    BY <2>4, <2>5 DEF GitInv
<1>4. ASSUME NEW c \in git, (\E forced \in BOOLEAN : Pushed(c, forced)) \/ GitCallEnds(c)
      PROVE  GitInv'
  <2>1. git' \subseteq git /\ UNCHANGED <<cred, issued, sub>>
    BY <1>4 DEF Pushed, GitCallEnds
  <2> QED
    BY <1>0, <2>1 DEF GitInv, GitTypes, Spent, InsiderSubmits
<1> QED
  BY <1>0, <1>1, <1>2, <1>3, <1>4, IssueStep, SubmitStep DEF GitNext

-----------------------------------------------------------------------------
(* Everybody together.                                                     *)

\* What holds of identities, claims and submissions.
PartInv == RegInv /\ RepoInv /\ ClaimInv /\ GitInv

\* An App, installed, with its repositories is a state that onboarding leads to.
LEMMA OnboardedFits == OnboardedInit => RepoInv
<1> SUFFICES ASSUME OnboardedInit PROVE RepoInv
  OBVIOUS
<1>1. PICK a, i, f : /\ a = (CHOOSE x \in AppIds : TRUE)
                     /\ i = (CHOOSE x \in Installations : TRUE)
                     /\ f = (CHOOSE g \in [Repos -> Bindings] :
                                \A q, r \in Repos : g[q] = g[r] => q = r)
  OBVIOUS
<1>2. a \in AppIds /\ i \in Installations
  BY <1>1, ParticipationAssumption
<1>3. f \in [Repos -> Bindings] /\ \A q, r \in Repos : f[q] = f[r] => q = r
  BY <1>1, ParticipationAssumption
<1>4. PICK row, bound :
        /\ row = [github |-> Owner[i], installation |-> i, slug |-> TRUE, default |-> TRUE]
        /\ bound = [b \in Bindings |-> IF \E q \in Repos : f[q] = b
                                       THEN [repo |-> CHOOSE q \in Repos : f[q] = b, app |-> a]
                                       ELSE NoBinding]
  OBVIOUS
<1>5. /\ app = [NoApps EXCEPT ![a] = row] /\ binding = bound
      /\ named = {a} /\ created = {Owner[i]} /\ signed = {} /\ removed = {} /\ admin = {}
  BY <1>1, <1>4 DEF OnboardedInit
<1>6. Owner[i] \in GitHubApps /\ Owner[i] # NoApp /\ i # NoApp
  BY <1>2, RepositoriesAssumption
<1>7. row \in AppRow /\ row.github # NoApp /\ row.default
  BY <1>2, <1>4, <1>6 DEF AppRow
<1>8. app \in [AppIds -> AppRow] /\ app[a] = row /\ \A x \in AppIds \ {a} : app[x] = NoAppRow
  BY <1>2, <1>5, <1>7, RowTypes DEF NoApps
<1>9. ASSUME NEW b \in Bindings
      PROVE  \/ binding[b] = NoBinding
             \/ /\ binding[b].app = a /\ binding[b].repo \in Repos
                /\ f[binding[b].repo] = b /\ binding[b] \in Binding
  <2>1. CASE \E q \in Repos : f[q] = b
    <3>1. PICK q : q = (CHOOSE x \in Repos : f[x] = b)
      OBVIOUS
    <3>2. q \in Repos /\ f[q] = b
      BY <2>1, <3>1
    <3>3. binding[b] = [repo |-> q, app |-> a]
      BY <1>4, <1>5, <2>1, <3>1
    <3> QED
      BY <1>2, <3>2, <3>3 DEF Binding
  <2>2. CASE ~ \E q \in Repos : f[q] = b
    BY <1>4, <1>5, <2>2
  <2> QED
    BY <2>1, <2>2
<1>10. RepoTypeOK
  <2>1. \A b \in Bindings : binding[b] \in Binding
    BY <1>9, RowTypes
  <2>2. binding \in [Bindings -> Binding]
    BY <1>4, <1>5, <2>1
  <2> QED
    BY <1>2, <1>5, <1>6, <1>8, <2>2 DEF RepoTypeOK
<1>11. AppRows
  BY <1>5, <1>7, <1>8 DEF AppRows, Exists
<1>12. BindingRows
  BY <1>9, RepositoriesAssumption DEF BindingRows
<1>13. OneDefault
  BY <1>2, <1>7, <1>8, RowTypes DEF OneDefault, Exists
<1>14. BoundAppsExist
  BY <1>2, <1>7, <1>8, <1>9 DEF BoundAppsExist, Exists, NoBinding
<1>15. OneBindingPerRepository
  <2> SUFFICES ASSUME NEW b \in Bindings, NEW c \in Bindings,
                      binding[b].repo = binding[c].repo, binding[b] # NoBinding
               PROVE  b = c
    BY DEF OneBindingPerRepository
  <2>1. binding[b].repo \in Repos /\ f[binding[b].repo] = b
    BY <1>9
  <2>2. binding[c] # NoBinding
    BY <2>1, RowTypes, RepositoriesAssumption
  <2> QED
    BY <1>9, <2>1, <2>2
<1> QED
  BY <1>10, <1>11, <1>12, <1>13, <1>14, <1>15 DEF RepoInv

\* With the agents and repositories there were before.
LEMMA PartInitInv == Init => PartInv
<1> SUFFICES ASSUME Init PROVE PartInv
  OBVIOUS
<1> USE PublicTasksAssumption
<1>1. RegInv
  <2> DEFINE known == setting.known
  <2>1. known \subseteq Agents
    <3>1. setting \in [parts : SUBSET Parts, known : SUBSET Agents, execs : SUBSET Execs]
      BY ParticipationAssumption DEF Init
    <3> QED
      BY <3>1
  <2>2. PICK key \in [known -> Keys] :
          /\ \A a, b \in known : a # b => key[a] # key[b]
          /\ ident = [a \in Agents |-> IF a \in known THEN NewAgentIdentity(key[a], key[a])
                                       ELSE NoIdentity]
    BY DEF Init
  <2>3. /\ challenge = [c \in Challenges |-> NoChallenge]
        /\ register = [c \in Challenges |-> "idle"] /\ token = known
    BY DEF Init
  <2> HIDE DEF known
  <2>4. \A a \in Agents : ident[a] = IF a \in known THEN NewAgentIdentity(key[a], key[a])
                                     ELSE NoIdentity
    BY <2>2
  <2>5. \A a \in known : key[a] \in Keys /\ key[a] # None
    BY <2>2, RegistrationAssumption
  <2>6. \A k \in Keys : LET row == NewAgentIdentity(k, k) IN
           row \in Identity /\ row.status = "active" /\ row.key = k /\ row.handle = k
    BY DEF NewAgentIdentity, Identity
  <2>7. \A a \in known : /\ ident[a] \in Identity /\ ident[a].status = "active"
                          /\ ident[a].key = key[a] /\ ident[a].handle = key[a]
    BY <2>1, <2>4, <2>5, <2>6
  <2>8. \A a \in Agents \ known : ident[a] = NoIdentity
    BY <2>4
  <2>9. NoIdentity \in Identity /\ NoIdentity.status = "none"
         /\ NoIdentity.key = None /\ NoIdentity.handle = None
    BY DEF NoIdentity, Identity
  <2>10. RegTypeOK
    <3>1. \A a \in Agents : ident[a] \in Identity
      BY <2>7, <2>8, <2>9
    <3>2. ident \in [Agents -> Identity]
      BY <2>2, <3>1
    <3>3. challenge \in [Challenges -> Challenge]
      BY <2>3 DEF NoChallenge, Challenge
    <3> QED
      BY <2>1, <2>3, <3>2, <3>3 DEF RegTypeOK
  <2>11. IdentityRows
    BY <2>5, <2>7, <2>8, <2>9 DEF IdentityRows
  <2>12. IdentitiesDiffer
    BY <2>2, <2>5, <2>7, <2>8, <2>9 DEF IdentitiesDiffer
  <2>13. ConsumedByOwner
    BY <2>3 DEF ConsumedByOwner, NoChallenge
  <2> QED
    BY <2>10, <2>11, <2>12, <2>13 DEF RegInv
<1>2. ClaimInv
  <2>1. NoExecution \in Execution /\ NoGrant \in Grant
    BY DEF NoExecution, Execution, NoGrant, Grant
  <2>2. \A t \in Tasks : /\ [status |-> "open", late |-> FALSE, rev |-> 1, exec |-> None] \in Task
                         /\ task[t].exec = None
    BY DEF Init, TasksInit, Task
  <2>3. 0 \in 0 .. MaxRevision
    OBVIOUS
  <2>4. ClaimTypes
    BY <2>1, <2>2, <2>3 DEF Init, TasksInit, ClaimTypes
  <2>5. \A e \in Execs : exec[e] = NoExecution /\ exec[e].status = "none" /\ exec[e].agent = None
    BY DEF Init, TasksInit, NoExecution
  <2> QED
    BY <2>2, <2>4, <2>5, RegistrationAssumption
    DEF ClaimInv, ExecRows, AnswersName, AliveHolds, NamesAreThere, Granted, Alive, Downstream
<1>3. GitInv
  <2>1. NoCredential \in Credential /\ NoCredential.status = "none"
    BY DEF NoCredential, Credential
  <2>2. /\ cred = [e \in Execs |-> NoCredential] /\ issued = [e \in Execs |-> 0]
        /\ sub = [e \in Execs |-> <<>>] /\ git = {}
    BY DEF Init
  <2>3. GitTypes /\ InsiderSubmits
    BY <2>1, <2>2 DEF GitTypes, InsiderSubmits
  <2>4. Spent
    <3>1. \A e \in Execs : Len(sub[e]) = 0 /\ cred[e].status = "none" /\ issued[e] = 0
      BY <2>1, <2>2
    <3> SUFFICES ASSUME NEW e \in Execs
                 PROVE  Len(sub[e]) + (IF cred[e].status = "active" THEN 1 ELSE 0) <= issued[e]
      BY DEF Spent
    <3> DEFINE l == Len(sub[e])
               n == issued[e]
    <3>2. l = 0 /\ n = 0 /\ cred[e].status # "active"
      BY <3>1
    <3> HIDE DEF l, n
    <3>3. l + (IF cred[e].status = "active" THEN 1 ELSE 0) <= n
      BY <3>2
    <3> QED
      BY <3>3 DEF l, n
  <2> QED
    BY <2>3, <2>4 DEF GitInv
<1>4. RepoInv
  BY RepoInitInv, OnboardedFits DEF Init
<1> QED
  BY <1>1, <1>2, <1>3, <1>4 DEF PartInv

\* Which of the parts a step moves.
LEMMA PartsMove ==
  ASSUME [Next]_vars
  PROVE  /\ [RegNext]_regVars /\ [RepoNext]_repoVars
         /\ \/ PublicNext \/ SponsorNext \/ HolderNext \/ (\E e \in Execs : LeaseLapses(e))
            \/ UNCHANGED taskVars
         /\ \/ UNCHANGED gitVars
            \/ GitNext /\ UNCHANGED taskVars
            \/ \E e \in Execs : LeaseLapses(e)
<1>1. CASE UNCHANGED vars
  BY <1>1 DEF vars
<1>2. CASE Next
  <2>1. CASE RegNext /\ UNCHANGED <<taskVars, repoVars, gitVars>>
    BY <2>1
  <2>2. CASE PublicNext /\ UNCHANGED regVars /\ UNCHANGED gitVars /\ UNCHANGED repoVars
    BY <2>2
  <2>3. CASE (\E a \in Agents : Deactivate(a)) /\ UNCHANGED taskVars
            /\ UNCHANGED gitVars /\ UNCHANGED repoVars
    BY <2>3 DEF RegNext
  <2>4. CASE RepoNext /\ UNCHANGED <<regVars, taskVars, gitVars>>
    BY <2>4
  <2>5. CASE GitNext /\ UNCHANGED taskVars /\ UNCHANGED regVars /\ UNCHANGED repoVars
    BY <2>5
  <2>6. CASE HolderNext /\ UNCHANGED gitVars /\ UNCHANGED regVars /\ UNCHANGED repoVars
    BY <2>6
  <2>7. CASE SponsorNext /\ UNCHANGED gitVars /\ UNCHANGED regVars /\ UNCHANGED repoVars
    BY <2>7
  <2>8. CASE (\E e \in Execs : LeaseLapses(e)) /\ UNCHANGED regVars /\ UNCHANGED repoVars
    BY <2>8
  <2> QED
    BY <1>2, <2>1, <2>2, <2>3, <2>4, <2>5, <2>6, <2>7, <2>8 DEF Next
<1> QED
  BY <1>1, <1>2

\* Every step keeps what each part rests on.
LEMMA PartNextInv == PartInv /\ [Next]_vars => PartInv'
<1> SUFFICES ASSUME PartInv, [Next]_vars PROVE PartInv'
  OBVIOUS
<1>1. RegInv'
  BY PartsMove, RegNextInv DEF PartInv
<1>2. ClaimInv' /\ AgentsStay
  BY PartsMove, TasksMove DEF PartInv
<1>3. GitInv'
  <2>1. CASE UNCHANGED gitVars
    BY <1>2, <2>1, KeepGit DEF PartInv
  <2>2. CASE GitNext /\ UNCHANGED taskVars
    BY <2>2, GitMoves DEF PartInv
  <2>3. CASE \E e \in Execs : LeaseLapses(e)
    BY <1>2, <2>3, LapseKeepsGit DEF PartInv
  <2> QED
    BY <2>1, <2>2, <2>3, PartsMove
<1>4. RepoInv'
  BY PartsMove, RepoNextInv DEF PartInv
<1> QED
  BY <1>1, <1>2, <1>3, <1>4 DEF PartInv

\* The invariant of the composition.
LEMMA PartInvariance == Spec => []PartInv
  BY PartInitInv, PartNextInv, PTL DEF Spec

\* Whoever claims a task, however often the request is repeated, the task taken
\* away and opened again, or the identity retired meanwhile, one request makes
\* one execution, a task has one that is alive, and it is the one it names
\* (claim.go, acquirePublicClaimIdempotency).
THEOREM ClaimsExclude == Spec => []ClaimsAreExclusive
<1>1. PartInv => ClaimsAreExclusive
  <2> SUFFICES ASSUME ClaimInv PROVE OneExecutionPerRequest /\ OneClaimant
    BY DEF PartInv, ClaimsAreExclusive
  <2>1. ASSUME NEW d \in Execs, NEW e \in Execs, exec[d].agent \in Agents
        PROVE  /\ answer[exec[d].agent, exec[d].request] = d
               /\ exec[d].agent = exec[e].agent /\ exec[d].request = exec[e].request => d = e
    <3>1. answer[exec[d].agent, exec[d].request] = d
      BY <2>1 DEF ClaimInv, AnswersName
    <3>2. exec[e].agent \in Agents => answer[exec[e].agent, exec[e].request] = e
      BY DEF ClaimInv, AnswersName
    <3> QED
      BY <2>1, <3>1, <3>2
  <2>2. OneExecutionPerRequest
    BY <2>1 DEF OneExecutionPerRequest
  <2>3. OneClaimant
    BY DEF OneClaimant, ClaimInv, AliveHolds, Granted
  <2> QED
    BY <2>2, <2>3
<1> QED
  BY <1>1, PartInvariance, PTL

\* However many submissions race, are retried or overtake a new credential,
\* each credential admits one, and only the tenant's own agent, who can be given
\* a credential, submits (CreateSubmission and its revocation).
THEOREM SubmissionsSpend == Spec => []SubmissionSpendsCredential
<1>1. PartInv => SubmissionSpendsCredential
  BY DEF PartInv, GitInv, Spent, InsiderSubmits, SubmissionSpendsCredential
<1> QED
  BY <1>1, PartInvariance, PTL

\* Open registration keeps its promise with everything else that moves, and
\* with the identities there were before.
THEOREM IdentitiesHold == Spec => []OneIdentityPerKey
<1>1. PartInv => OneIdentityPerKey
  BY InvImpliesPromise DEF PartInv
<1> QED
  BY <1>1, PartInvariance, PTL

\* However administrators' calls overlap, bindings and Apps hold together from
\* the first App on, and where one has been onboarded before.
THEOREM BindingsHoldThroughout == Spec => []BindingsHold
<1>1. PartInv => BindingsHold
  BY DEF PartInv, RepoInv, BindingsHold
<1> QED
  BY <1>1, PartInvariance, PTL

\* What is published of a task is not published again.
LEMMA TermsStay ==
  ASSUME ClaimInv, [Next]_vars, NEW t \in Tasks, projection[t] # None
  PROVE  projection'[t] = projection[t]
<1>1. CASE UNCHANGED projection
  BY <1>1
<1>2. ASSUME NEW w \in Workers, NEW u \in Tasks, Publish(w, u)
      PROVE  projection'[t] = projection[t]
  <2>1. PICK p : projection' = [projection EXCEPT ![u] = InsertIfAbsent(@, p)]
    BY <1>2 DEF Publish
  <2>2. projection \in [Tasks -> Terms \cup {None}]
    BY DEF ClaimInv, ClaimTypes
  <2> QED
    BY <2>1, <2>2 DEF InsertIfAbsent
<1>3. \/ UNCHANGED projection \/ \E w \in Workers, u \in Tasks : Publish(w, u)
  <2>1. CASE PublicNext
    BY <2>1 DEF PublicNext, ListCandidates, PublishFails, ClaimBegins, Authorize, Expire,
                Claim, Command, CallEnds, Edited, GrantLapses
  <2>2. CASE SponsorNext
    BY <2>2 DEF SponsorNext, DeadlinePasses, Close, InsiderClaims, Reap
  <2>3. CASE HolderNext
    BY <2>3 DEF HolderNext, NotifySubmit, InsiderStarts, Validated
  <2>4. CASE \E e \in Execs : LeaseLapses(e)
    BY <2>4 DEF LeaseLapses
  <2>5. CASE UNCHANGED taskVars
    BY <2>5 DEF taskVars
  <2> QED
    BY <2>1, <2>2, <2>3, <2>4, <2>5, PartsMove
<1> QED
  BY <1>1, <1>2, <1>3

\* What the public was shown of a task stays as it was, whatever slower or
\* other worker has read of it (ON CONFLICT DO NOTHING).
THEOREM TermsStandAlways == Spec => TermsStand
<1>1. PartInv /\ [Next]_vars =>
        [\A t \in Tasks : projection[t] # None => projection'[t] = projection[t]]_projection
  BY TermsStay DEF PartInv
<1> QED
  BY <1>1, PartInvariance, PTL DEF Spec, TermsStand

=============================================================================
