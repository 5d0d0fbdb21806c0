------------------------------ MODULE GitAccess ------------------------------
(***************************************************************************)
(* How the holder of an execution writes to its branch and hands it in: the *)
(* credentials of git/application/commands.go and their table, the proxy     *)
(* that honours them (git/proxy/http.go), and CreateSubmission with its      *)
(* verifier (git/application/submission.go, commit_verifier.go).             *)
(*                                                                          *)
(* What the execution may do is asked in a transaction of its own            *)
(* (application/credential_authorizer.go), and the provider is called before *)
(* anything is written, so every call is two steps.  A credential needs a    *)
(* tenant; an agent from outside gets none, and nothing it sends is taken.   *)
(*                                                                          *)
(* A credential lives for five minutes or until the lease ends, whichever is *)
(* earlier.  One validation job goes with each submission.                   *)
(***************************************************************************)
EXTENDS PublicTasks, Repositories, Sequences

CONSTANTS
  TaskRepo,      \* the repository of a task
  Commits,
  Sound,         \* commits that follow the base and touch only permitted paths
  GitRequests,   \* request ids for credentials
  MaxIssued,     \* bound on the credentials of an execution
  MaxSubmitted   \* bound on its submissions

ASSUME GitAssumption ==
  /\ TaskRepo \in [Tasks -> Repos] /\ Sound \subseteq Commits
  /\ None \notin Commits \cup GitRequests
  /\ MaxIssued \in Nat /\ MaxSubmitted \in Nat

VARIABLES
  cred,     \* git_credentials, by execution
  issued,   \* how many credentials an execution has been given
  branch,   \* the commits on the branch of an execution
  sub,      \* submissions of an execution, in order
  git       \* calls under way

gitVars == <<cred, issued, branch, sub, git>>

Credential == [status : {"none", "active", "revoked"},
               request : GitRequests \cup {None}, late : BOOLEAN]

NoCredential == [status |-> "none", request |-> None, late |-> FALSE]

GitCall ==
  [kind : {"issue"}, exec : Execs, request : GitRequests]
  \cup [kind : {"push", "submit"}, exec : Execs, commit : Commits]

GitTypeOK ==
  /\ cred \in [Execs -> Credential]
  /\ issued \in [Execs -> 0 .. MaxIssued]
  /\ branch \in [Execs -> SUBSET Commits]
  /\ sub \in [Execs -> Seq(Commits)]
  /\ git \subseteq GitCall /\ Cardinality(git) <= MaxCalls

GitCalls(c) == Cardinality(git) < MaxCalls /\ git' = git \cup {c}

-----------------------------------------------------------------------------
(* IssueCredential *)

\* AuthorizeCredential
MayHaveCredential(e) ==
  /\ exec[e].agent = Insider
  /\ exec[e].status \in {"leased", "running"}
  /\ ~ exec[e].late

\* RepositoryGitResolver.Driver, and an installation token for the repository.
HasDriver(e) == Reachable(TaskRepo[exec[e].task])

IssueBegins(e, r) ==
  /\ MayHaveCredential(e)
  /\ HasDriver(e)
  /\ GitCalls([kind |-> "issue", exec |-> e, request |-> r])
  /\ UNCHANGED <<cred, issued, branch, sub>>

Usable(row) == row.status = "active" /\ ~ row.late

\* A usable credential is not replaced, and the request of the last one gets
\* no other: its row, locked, decides.
Replaceable(row, r) == ~ Usable(row) /\ row.request # r

\* Insert or Reactivate.  With a lease that has ended meanwhile the credential
\* is over when it is written.
Issue(c) ==
  LET e == c.exec IN
  /\ c.kind = "issue"
  /\ Replaceable(cred[e], c.request)
  /\ issued[e] < MaxIssued
  /\ cred' = [cred EXCEPT ![e] = [status |-> "active", request |-> c.request,
                                  late |-> exec[e].late]]
  /\ issued' = [issued EXCEPT ![e] = @ + 1]
  /\ git' = git \ {c}
  /\ UNCHANGED <<branch, sub>>

\* RevokeCredential, by an administrator or the holder; a second one finds
\* nothing to revoke.
RevokeCredential(e) ==
  /\ cred[e].status = "active"
  /\ cred' = [cred EXCEPT ![e].status = "revoked"]
  /\ UNCHANGED <<issued, branch, sub, git>>

CredentialLapses(e) ==
  /\ Usable(cred[e])
  /\ cred' = [cred EXCEPT ![e].late = TRUE]
  /\ UNCHANGED <<issued, branch, sub, git>>

-----------------------------------------------------------------------------
(* The proxy *)

\* Handler.authorize looks at the credential only, not at the execution, when
\* the push begins.
PushBegins(e, k) ==
  /\ Usable(cred[e])
  /\ HasDriver(e)
  /\ k \notin branch[e]
  /\ GitCalls([kind |-> "push", exec |-> e, commit |-> k])
  /\ UNCHANGED <<cred, issued, branch, sub>>

\* The provider moves the branch, adding to what is there or forced.
Pushed(c, forced) ==
  /\ c.kind = "push"
  /\ branch' = [branch EXCEPT ![c.exec] = {c.commit} \cup IF forced THEN {} ELSE @]
  /\ git' = git \ {c}
  /\ UNCHANGED <<cred, issued, sub>>

-----------------------------------------------------------------------------
(* CreateSubmission *)

Submitted(e) == {sub[e][i] : i \in DOMAIN sub[e]}

\* AuthorizeSubmission
MaySubmit(e) ==
  /\ exec[e].agent = Insider
  /\ \/ exec[e].status = "running" /\ ~ exec[e].late
     \/ exec[e].status \in Downstream

\* IsAncestor and CompareCommits, asked separately: the commit follows the base
\* and keeps to the paths of the task.
Compares(k) == k \in Sound

\* verifyBranch: the commit is an ancestor of the head the branch has now.
OnBranch(e, k) == k \in branch[e]

\* CommitVerifier.Verify
Verified(e, k) == HasDriver(e) /\ OnBranch(e, k) /\ Compares(k)

\* The commit is new, the deadline is ahead, the credential is usable, and the
\* verifier agrees.
SubmitBegins(e, k) ==
  /\ MaySubmit(e)
  /\ k \notin Submitted(e)
  /\ ~ task[exec[e].task].late
  /\ Usable(cred[e])
  /\ Verified(e, k)
  /\ GitCalls([kind |-> "submit", exec |-> e, commit |-> k])
  /\ UNCHANGED <<cred, issued, branch, sub>>

\* Fault: nobody looks whether there was something to revoke.
AnyCredential(row) == TRUE

\* credentialRepository.Revoke: WHERE revoked_at IS NULL, else not found.
Revocable(row) == row.status = "active"

\* The submission is saved with its job, and the credential is spent; or the
\* transaction is rolled back.
Submit(c) ==
  LET e == c.exec IN
  /\ c.kind = "submit"
  /\ Revocable(cred[e])
  /\ Len(sub[e]) < MaxSubmitted
  /\ sub' = [sub EXCEPT ![e] = Append(@, c.commit)]
  /\ cred' = [cred EXCEPT ![e].status = "revoked"]
  /\ git' = git \ {c}
  /\ UNCHANGED <<issued, branch>>

\* A call that finds what it asks for already done, is refused, or breaks off.
GitCallEnds(c) ==
  /\ git' = git \ {c}
  /\ UNCHANGED <<cred, issued, branch, sub>>

GitNext ==
  \/ \E e \in Execs :
       \/ \E r \in GitRequests : IssueBegins(e, r)
       \/ RevokeCredential(e)
       \/ CredentialLapses(e)
       \/ \E k \in Commits : PushBegins(e, k) \/ SubmitBegins(e, k)
  \/ \E c \in git :
       \/ Issue(c)
       \/ \E forced \in BOOLEAN : Pushed(c, forced)
       \/ Submit(c)
       \/ GitCallEnds(c)

\* After the transaction, and on every retry, the execution is told.
NotifySubmit(e) ==
  /\ sub[e] # <<>>
  /\ exec[e].status = "running"
  /\ exec' = [exec EXCEPT ![e].status = "submitted"]
  /\ UNCHANGED <<task, projection, candidate, grant, answer, call>>

\* A lease ends, and with it, at the latest, the credential.
LeaseLapses(e) ==
  /\ exec[e].status \in {"leased", "running"} /\ ~ exec[e].late
  /\ exec' = [exec EXCEPT ![e].late = TRUE]
  /\ cred' = [cred EXCEPT ![e].late = TRUE]
  /\ UNCHANGED <<task, projection, candidate, grant, answer, call>>
  /\ UNCHANGED <<issued, branch, sub, git>>

\* The insider starts its execution.
InsiderStarts(e) ==
  /\ exec[e].agent = Insider /\ exec[e].status = "leased" /\ ~ exec[e].late
  /\ exec' = [exec EXCEPT ![e].status = "running"]
  /\ task' = [task EXCEPT ![exec[e].task].status = "in_progress"]
  /\ UNCHANGED <<projection, candidate, grant, answer, call>>

\* The validation hands on what was submitted.
Validated(e) ==
  /\ exec[e].status = "submitted"
  /\ exec' = [exec EXCEPT ![e].status = "reviewing"]
  /\ UNCHANGED <<task, projection, candidate, grant, answer, call>>

HolderNext == \E e \in Execs : NotifySubmit(e) \/ InsiderStarts(e) \/ Validated(e)

-----------------------------------------------------------------------------
(* What it promises *)

\* Each credential admits one submission, however many of them race, are
\* retried or overtake a new credential (the revocation in CreateSubmission).
\* And nothing is submitted by anybody else than the holder of a credential.
SubmissionSpendsCredential ==
  \A e \in Execs :
    /\ Len(sub[e]) + (IF cred[e].status = "active" THEN 1 ELSE 0) <= issued[e]
    /\ sub[e] # <<>> => exec[e].agent = Insider

=============================================================================
