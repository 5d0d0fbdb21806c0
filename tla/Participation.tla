---------------------------- MODULE Participation ----------------------------
(***************************************************************************)
(* Everybody who works on a sponsor's tasks, from the first signature to the *)
(* submission: OpenRegistration, PublicTasks, Repositories and GitAccess     *)
(* over one set of identities, tasks, repositories and executions.  A        *)
(* setting says which of them move.                                          *)
(***************************************************************************)
EXTENDS GitAccess

CONSTANT Settings   \* [parts, known, execs]: what moves, the agents there are
                    \* at the start, and the executions there may be

Parts == {"registration", "public", "repositories", "git"}

\* There are ids enough to bind every repository to an App.
ASSUME ParticipationAssumption ==
  /\ Settings \subseteq [parts : SUBSET Parts, known : SUBSET Agents,
                          execs : SUBSET Execs]
  /\ AppIds # {} /\ Installations # {}
  /\ \E f \in [Repos -> Bindings] : \A q, r \in Repos : f[q] = f[r] => q = r

VARIABLE setting

vars == <<regVars, taskVars, repoVars, gitVars, setting>>

TypeOK == RegTypeOK /\ TasksTypeOK /\ RepoTypeOK /\ GitTypeOK

\* An App, installed, to which every repository is bound.
OnboardedInit ==
  LET a == CHOOSE a \in AppIds : TRUE
      i == CHOOSE i \in Installations : TRUE
      bound == CHOOSE f \in [Repos -> Bindings] : \A q, r \in Repos : f[q] = f[r] => q = r
  IN
  /\ app = [NoApps EXCEPT ![a] = [github |-> Owner[i], installation |-> i,
                                 slug |-> TRUE, default |-> TRUE]]
  /\ named = {a} /\ created = {Owner[i]}
  /\ binding = [b \in Bindings |->
                 IF \E q \in Repos : bound[q] = b
                 THEN [repo |-> CHOOSE q \in Repos : bound[q] = b, app |-> a]
                 ELSE NoBinding]
  /\ signed = {} /\ removed = {} /\ admin = {}

\* Agents that have registered before hold a token and a key of their own.
Init ==
  /\ setting \in Settings
  /\ TasksInit
  /\ IF "repositories" \in setting.parts THEN RepoInit ELSE OnboardedInit
  /\ challenge = [c \in Challenges |-> NoChallenge]
  /\ register = [c \in Challenges |-> "idle"]
  /\ token = setting.known
  /\ \E key \in [setting.known -> Keys] :
       /\ \A a, b \in setting.known : a # b => key[a] # key[b]
       /\ ident = [a \in Agents |-> IF a \in setting.known
                                    THEN NewAgentIdentity(key[a], key[a])
                                    ELSE NoIdentity]
  /\ cred = [e \in Execs |-> NoCredential]
  /\ issued = [e \in Execs |-> 0]
  /\ branch = [e \in Execs |-> {}]
  /\ sub = [e \in Execs |-> <<>>]
  /\ git = {}

Next ==
  /\ \/ /\ "registration" \in setting.parts
        /\ RegNext /\ UNCHANGED <<taskVars, repoVars, gitVars>>
     \/ /\ "public" \in setting.parts
        /\ \/ PublicNext /\ UNCHANGED regVars
           \/ \E a \in Agents : Deactivate(a) /\ UNCHANGED taskVars
        /\ UNCHANGED <<repoVars, gitVars>>
     \/ /\ "repositories" \in setting.parts
        /\ RepoNext /\ UNCHANGED <<regVars, taskVars, gitVars>>
     \/ /\ "git" \in setting.parts
        /\ \/ GitNext /\ UNCHANGED taskVars
           \/ HolderNext /\ UNCHANGED gitVars
        /\ UNCHANGED <<regVars, repoVars>>
     \/ /\ setting.execs # {}
        /\ \/ SponsorNext /\ UNCHANGED gitVars
           \/ \E e \in Execs : LeaseLapses(e)
        /\ UNCHANGED <<regVars, repoVars>>
  /\ {e \in Execs : exec'[e].status # "none"} \subseteq setting.execs
  /\ UNCHANGED setting

Spec == Init /\ [][Next]_vars

=============================================================================
