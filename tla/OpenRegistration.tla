-------------------------- MODULE OpenRegistration --------------------------
(***************************************************************************)
(* How an agent that no tenant has enrolled gets an identity: it asks for a  *)
(* challenge, signs it with its key and registers                            *)
(* (identity/application/open_registration.go over                           *)
(* identity/postgres/open_registration.go).  A registered key that signs a   *)
(* new challenge gets a session of the identity it belongs to.               *)
(*                                                                          *)
(* Register is one transaction, but it asks whether the key is registered    *)
(* before it inserts anything, and only the unique indexes on the thumbprint *)
(* and the handle see what another registration inserts in between.          *)
(*                                                                          *)
(* Requests with a wrong signature change nothing and are left out.  An      *)
(* identity stands for its row, its only version, its key and its            *)
(* membership; "inactive" means that one of them is no longer active.        *)
(***************************************************************************)
EXTENDS Integers, FiniteSets

CONSTANTS
  Agents,      \* identities
  Keys,        \* public keys
  Handles,     \* handles a registration may ask for
  Challenges,
  None

ASSUME RegistrationAssumption == None \notin Agents \cup Keys \cup Handles

VARIABLES
  challenge,   \* agent_registration_challenges
  ident,       \* agent_identities
  register,    \* what the transaction that holds a challenge's lock has found
  token        \* agents with a valid access token

regVars == <<challenge, ident, register, token>>

NoChallenge == [status |-> "none", key |-> None, late |-> FALSE, agent |-> None]

NoIdentity == [status |-> "none", key |-> None, handle |-> None]

Challenge == [status : {"none", "pending", "consumed", "deleted"},
              key : Keys \cup {None}, late : BOOLEAN,
              agent : Agents \cup {None}]

Identity == [status : {"none", "active", "inactive"},
             key : Keys \cup {None}, handle : Handles \cup Keys \cup {None}]

RegTypeOK ==
  /\ challenge \in [Challenges -> Challenge]
  /\ ident \in [Agents -> Identity]
  /\ register \in [Challenges -> {"idle", "known", "unknown"}]
  /\ token \subseteq Agents

Live(a) == ident[a].status = "active"

-----------------------------------------------------------------------------
(* CreateChallenge *)

\* A challenge past its time goes with the next challenge that is created,
\* which waits for a registration that has it locked.
Sweepable == {c \in Challenges : challenge[c].late /\ challenge[c].status # "none"}

InsertChallenge(c, k) ==
  [d \in Challenges |->
     IF d = c THEN [NoChallenge EXCEPT !.status = "pending", !.key = k]
     ELSE IF d \in Sweepable THEN [NoChallenge EXCEPT !.status = "deleted"]
     ELSE challenge[d]]

CreateChallenge(c, k) ==
  /\ challenge[c].status = "none"
  /\ \A d \in Sweepable : register[d] = "idle"
  /\ challenge' = InsertChallenge(c, k)
  /\ UNCHANGED <<ident, register, token>>

ChallengeLapses(c) ==
  /\ challenge[c].status \in {"pending", "consumed"}
  /\ ~ challenge[c].late
  /\ challenge' = [challenge EXCEPT ![c].late = TRUE]
  /\ UNCHANGED <<ident, register, token>>

-----------------------------------------------------------------------------
(* Register *)

PublicKeyRegistered(k) == \E a \in Agents : ident[a].key = k

\* GetChallengeForUpdate, and the checks of what it finds; the clock was read
\* first.
Answerable(c) == challenge[c].status = "pending" /\ ~ challenge[c].late

\* The challenge is locked, and the key is known or not.
RegisterReads(c) ==
  /\ register[c] = "idle"
  /\ Answerable(c)
  /\ register' = [register EXCEPT ![c] =
                    IF PublicKeyRegistered(challenge[c].key) THEN "known"
                    ELSE "unknown"]
  /\ UNCHANGED <<challenge, ident, token>>

\* Fault: the thumbprint is not unique.
HandleIsFree(k, h) == \A a \in Agents : ident[a].handle # h

\* The unique indexes on agent_identity_keys.thumbprint and
\* agent_identities.handle.
IsFree(k, h) ==
  \A a \in Agents : ident[a].key # k /\ ident[a].handle # h

RegisterEnds(c) == register' = [register EXCEPT ![c] = "idle"]

Consume(c, a) ==
  challenge' = [challenge EXCEPT ![c].status = "consumed", ![c].agent = a]

NewAgentIdentity(k, h) == [status |-> "active", key |-> k, handle |-> h]

\* InsertIdentity, InsertVersion, SetIdentityCurrentVersion, InsertIdentityKey
\* and InsertMembership: five rows for which one stands here.
InsertIdentity(a, row) ==
  /\ ident[a] = NoIdentity
  /\ IsFree(row.key, row.handle)
  /\ ident' = [ident EXCEPT ![a] = row]

\* A token is only made out to an active identity, as it was loaded.
IssueGlobal(a, row) == row.status = "active" /\ token' = token \cup {a}

\* Without a handle the agent is named after its key.
RegisterIdentity(c, a, h) ==
  LET k   == challenge[c].key
      row == NewAgentIdentity(k, h)
  IN /\ register[c] = "unknown"
     /\ h \in Handles \cup {k}
     /\ InsertIdentity(a, row)
     /\ Consume(c, a)
     /\ IssueGlobal(a, row)
     /\ RegisterEnds(c)

\* The session of a key that is registered already.
GetGlobalAgentSessionByThumbprint(k) ==
  {a \in Agents : ident[a].key = k /\ Live(a)}

RegisterSession(c) ==
  /\ register[c] = "known"
  /\ \E a \in GetGlobalAgentSessionByThumbprint(challenge[c].key) :
       Consume(c, a) /\ IssueGlobal(a, ident[a])
  /\ RegisterEnds(c)
  /\ UNCHANGED ident

\* An index is in the way, there is no session, or the connection breaks: the
\* transaction rolls back and the challenge stays as it was.
RegisterFails(c) ==
  /\ register[c] # "idle"
  /\ RegisterEnds(c)
  /\ UNCHANGED <<challenge, ident, token>>

-----------------------------------------------------------------------------
(* Sessions *)

\* The bearer of a token that has not run out is the agent it names.
Verify(a) == a \in token

\* A token lasts as long as the model likes, so Refresh, which needs one and an
\* active identity, only keeps it.
TokenLapses(a) ==
  /\ Verify(a)
  /\ token' = token \ {a}
  /\ UNCHANGED <<challenge, ident, register>>

\* The operator retires an identity in the database; no code of the service
\* does.
Deactivate(a) ==
  /\ Live(a)
  /\ ident' = [ident EXCEPT ![a].status = "inactive"]
  /\ UNCHANGED <<challenge, register, token>>

-----------------------------------------------------------------------------
RegInit ==
  /\ challenge = [c \in Challenges |-> NoChallenge]
  /\ ident = [a \in Agents |-> NoIdentity]
  /\ register = [c \in Challenges |-> "idle"]
  /\ token = {}

RegNext ==
  \/ \E c \in Challenges :
       \/ \E k \in Keys : CreateChallenge(c, k)
       \/ ChallengeLapses(c)
       \/ RegisterReads(c)
       \/ \E a \in Agents, h \in Handles \cup Keys : RegisterIdentity(c, a, h)
       \/ RegisterSession(c)
       \/ RegisterFails(c)
  \/ \E a \in Agents : TokenLapses(a) \/ Deactivate(a)

RegSpec == RegInit /\ [][RegNext]_regVars

-----------------------------------------------------------------------------
(* What it promises *)

\* However many challenges of one key are answered at once, the key belongs to
\* one identity and the handle to one agent, and a challenge is spent on the
\* identity of the key that signed it (Register).
OneIdentityPerKey ==
  /\ \A a, b \in Agents :
       a # b /\ ident[a].status # "none" =>
         ident[a].key # ident[b].key /\ ident[a].handle # ident[b].handle
  /\ \A c \in Challenges : challenge[c].status = "consumed" =>
       ident[challenge[c].agent].key = challenge[c].key

=============================================================================
