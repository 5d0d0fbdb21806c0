----------------------------- MODULE Repositories -----------------------------
(***************************************************************************)
(* A sponsor's GitHub Apps and the repositories bound to them:               *)
(* git/application/github_app.go, manifest.go, repository_onboarding.go and  *)
(* repository_resolver.go over github_apps and onboarded_repositories.       *)
(*                                                                          *)
(* An App is created on GitHub from a form that carries a signed state, and  *)
(* comes back as a code; it is installed there, and comes back with the      *)
(* number of the installation; or an administrator enters both.  One App of  *)
(* the sponsor is the default one.  A repository is bound to the App through *)
(* which it was found, or to none when it is public.                         *)
(*                                                                          *)
(* A call reads rows and asks GitHub before it takes the lock it writes      *)
(* under, so a call is two steps, and recording an installation three.       *)
(***************************************************************************)
EXTENDS Integers, FiniteSets

CONSTANTS
  AppIds,         \* ids of rows in github_apps
  GitHubApps,     \* Apps that exist on GitHub, with their keys
  Installations,
  Owner,          \* the App an installation is one of
  Repos,
  Bindings,       \* ids of rows in onboarded_repositories
  NoApp,
  MaxAdminCalls   \* bound on the calls under way

ASSUME RepositoriesAssumption ==
  /\ Owner \in [Installations -> GitHubApps]
  /\ NoApp \notin AppIds \cup GitHubApps \cup Installations \cup Repos
  /\ MaxAdminCalls \in Nat

VARIABLES
  app,       \* github_apps, by id
  named,     \* ids that newID has given out
  signed,    \* the App ids in signed states that have not expired
  created,   \* GitHub's Apps whose code has been exchanged
  binding,   \* onboarded_repositories, by id
  removed,   \* ids of bindings that are gone
  admin      \* calls of administrators under way

repoVars == <<app, named, signed, created, binding, removed, admin>>

\* github stands for the number and the key of the App, slug for its name,
\* which only GitHub supplies.
AppRow == [github : GitHubApps \cup {NoApp}, installation : Installations \cup {NoApp},
           slug : BOOLEAN, default : BOOLEAN]

NoAppRow == [github |-> NoApp, installation |-> NoApp, slug |-> FALSE, default |-> FALSE]

Binding == [repo : Repos \cup {NoApp}, app : AppIds \cup {NoApp}]

NoBinding == [repo |-> NoApp, app |-> NoApp]

AdminCall ==
  [kind : {"upsert"}, app : AppIds, row : AppRow]
  \cup [kind : {"checked", "install"}, app : AppIds, installation : Installations, row : AppRow]
  \cup [kind : {"bind"}, app : AppIds \cup {NoApp}, repo : Repos]

RepoTypeOK ==
  /\ app \in [AppIds -> AppRow]
  /\ named \subseteq AppIds /\ signed \subseteq AppIds /\ created \subseteq GitHubApps
  /\ binding \in [Bindings -> Binding] /\ removed \subseteq Bindings
  /\ admin \subseteq AdminCall

NoApps == [a \in AppIds |-> NoAppRow]

RepoInit ==
  /\ app = NoApps
  /\ named = {} /\ signed = {} /\ created = {}
  /\ binding = [b \in Bindings |-> NoBinding] /\ removed = {}
  /\ admin = {}

AdminCalls(c) ==
  /\ c \notin admin
  /\ Cardinality(admin) < MaxAdminCalls
  /\ admin' = admin \cup {c}

Exists(a) == app[a].github # NoApp

DefaultApps == {a \in AppIds : app[a].default}

-----------------------------------------------------------------------------
(* Apps *)

\* BuildManifest: an id for the App to be created, in a signed state.
BuildManifest(a) ==
  /\ a \notin named
  /\ named' = named \cup {a}
  /\ signed' = signed \cup {a}
  /\ UNCHANGED <<app, created, binding, removed, admin>>

\* BuildInstallURL, for an App whose name is known.
BuildInstallURL(a) ==
  /\ Exists(a) /\ app[a].slug
  /\ signed' = signed \cup {a}
  /\ UNCHANGED <<app, named, created, binding, removed, admin>>

StateLapses(a) ==
  /\ a \in signed
  /\ signed' = signed \ {a}
  /\ UNCHANGED <<app, named, created, binding, removed, admin>>

Upserts(a, g, i, slug) ==
  AdminCalls([kind |-> "upsert", app |-> a,
              row |-> [NoAppRow EXCEPT !.github = g, !.installation = i, !.slug = slug]])

\* The callback: VerifyState, and GitHub exchanges each code once.  A state may
\* come back several times, with an App of its own each time.
ExchangeCode(a, g) ==
  /\ a \in signed
  /\ g \notin created
  /\ created' = created \cup {g}
  /\ Upserts(a, g, NoApp, TRUE)
  /\ UNCHANGED <<app, named, signed, binding, removed>>

\* What an administrator enters goes to the default App, read without the lock,
\* or to a new one.
EnterApp(a, g, i) ==
  /\ IF DefaultApps = {} THEN a \notin named ELSE a \in DefaultApps
  /\ named' = named \cup {a}
  /\ Upserts(a, g, i, FALSE)
  /\ UNCHANGED <<app, signed, created, binding, removed>>

\* github_apps_tenant_app_id_key
IsOnlyRow(a, g) == \A b \in AppIds : app[b].github = g => b = a

\* The first App of the sponsor is the default one, and a row that is there
\* stays what it was in that respect.
DefaultFlag(a) == IF Exists(a) THEN app[a].default ELSE \A b \in AppIds : ~ Exists(b)

\* githubAppRepository.Upsert, under the sponsor's lock.
WriteRow(a, row) ==
  /\ IsOnlyRow(a, row.github)
  /\ app' = [app EXCEPT ![a] = [row EXCEPT !.default = DefaultFlag(a)]]

Upsert(c) ==
  /\ c.kind = "upsert"
  /\ WriteRow(c.app, c.row)
  /\ admin' = admin \ {c}
  /\ UNCHANGED <<named, signed, created, binding, removed>>

\* InstallationAccount: GitHub knows the installation of the App that asks.
CheckInstallation(a, i) ==
  /\ a \in signed
  /\ Exists(a) /\ Owner[i] = app[a].github
  /\ AdminCalls([kind |-> "checked", app |-> a, installation |-> i, row |-> NoAppRow])
  /\ UNCHANGED <<app, named, signed, created, binding, removed>>

\* InstallByID reads the row again, and writes all of it back.
ReadForInstall(c) ==
  /\ c.kind = "checked"
  /\ Exists(c.app)
  /\ admin' = (admin \ {c}) \cup
       {[c EXCEPT !.kind = "install",
                  !.row = [app[c.app] EXCEPT !.installation = c.installation]]}
  /\ UNCHANGED <<app, named, signed, created, binding, removed>>

InstallByID(c) ==
  /\ c.kind = "install"
  /\ WriteRow(c.app, c.row)
  /\ admin' = admin \ {c}
  /\ UNCHANGED <<named, signed, created, binding, removed>>

IsBound(a) == \E b \in Bindings : binding[b].app = a

\* A default App that goes leaves its place to the oldest of the others; which
\* one that is makes no difference here.
Promotes(a, p) ==
  IF app[a].default /\ \E b \in AppIds \ {a} : Exists(b)
    THEN p \in AppIds \ {a} /\ Exists(p)
    ELSE p = a

\* DeleteAndPromoteDefault, under the lock.
DeleteApp(a, p) ==
  /\ Exists(a)
  /\ ~ IsBound(a)
  /\ Promotes(a, p)
  /\ app' = [b \in AppIds |-> IF b = a THEN NoAppRow
                              ELSE IF b = p THEN [app[b] EXCEPT !.default = TRUE]
                              ELSE app[b]]
  /\ UNCHANGED <<named, signed, created, binding, removed, admin>>

-----------------------------------------------------------------------------
(* Repositories *)

\* What the GitHub driver of an App needs to get an installation token.
Working(a) ==
  /\ Exists(a) /\ app[a].installation # NoApp
  /\ Owner[app[a].installation] = app[a].github

IsOnboarded(repo) == \E b \in Bindings : binding[b].repo = repo

\* AddGitHubAppRepository: the App lists the repository, which is not bound yet.
FindRepository(repo, a) ==
  /\ Working(a)
  /\ ~ IsOnboarded(repo)
  /\ AdminCalls([kind |-> "bind", app |-> a, repo |-> repo])
  /\ UNCHANGED <<app, named, signed, created, binding, removed>>

\* AddPublicRepository: GitHub shows the repository to everybody.
FindPublicRepository(repo) ==
  /\ ~ IsOnboarded(repo)
  /\ AdminCalls([kind |-> "bind", app |-> NoApp, repo |-> repo])
  /\ UNCHANGED <<app, named, signed, created, binding, removed>>

\* Fault: whether the repository is bound was asked before, and that is enough.
AppIsThere(c) == c.app # NoApp => Exists(c.app)

\* onboarded_repositories_tenant_full_name_key and _github_app_fk
MayBind(c) == ~ IsOnboarded(c.repo) /\ (c.app # NoApp => Exists(c.app))

\* CreateOnboardedRepository
Bind(c, b) ==
  /\ c.kind = "bind"
  /\ MayBind(c)
  /\ binding[b] = NoBinding /\ b \notin removed
  /\ binding' = [binding EXCEPT ![b] = [repo |-> c.repo, app |-> c.app]]
  /\ admin' = admin \ {c}
  /\ UNCHANGED <<app, named, signed, created, removed>>

\* Remove
Unbind(b) ==
  /\ binding[b] # NoBinding
  /\ binding' = [binding EXCEPT ![b] = NoBinding]
  /\ removed' = removed \cup {b}
  /\ UNCHANGED <<app, named, signed, created, admin>>

\* A call that is refused or breaks off.
AdminCallEnds(c) ==
  /\ admin' = admin \ {c}
  /\ UNCHANGED <<app, named, signed, created, binding, removed>>

\* RepositoryGitResolver.Driver: the App through which a repository is reached.
\* A public repository has none.
Resolved(repo) ==
  {binding[b].app : b \in {b \in Bindings : binding[b].repo = repo}} \ {NoApp}

Reachable(repo) == \E a \in Resolved(repo) : Working(a)

RepoNext ==
  \/ \E a \in AppIds :
       \/ BuildManifest(a) \/ BuildInstallURL(a) \/ StateLapses(a)
       \/ \E g \in GitHubApps : ExchangeCode(a, g)
       \/ \E g \in GitHubApps, i \in Installations \cup {NoApp} : EnterApp(a, g, i)
       \/ \E i \in Installations : CheckInstallation(a, i)
       \/ \E p \in AppIds : DeleteApp(a, p)
       \/ \E repo \in Repos : FindRepository(repo, a)
  \/ \E repo \in Repos : FindPublicRepository(repo)
  \/ \E b \in Bindings : Unbind(b)
  \/ \E c \in admin :
       \/ Upsert(c) \/ ReadForInstall(c) \/ InstallByID(c)
       \/ \E b \in Bindings : Bind(c, b)
       \/ AdminCallEnds(c)

RepoSpec == RepoInit /\ [][RepoNext]_repoVars

-----------------------------------------------------------------------------
(* What it promises *)

\* A sponsor with Apps has exactly one default, to which everything goes that
\* names none, however Apps are created, entered, installed and deleted at once
\* (DeleteAndPromoteDefault and Upsert under withTenantLock).
OneDefault ==
  (\E a \in AppIds : Exists(a)) =>
    \E a \in AppIds :
      /\ Exists(a) /\ app[a].default
      /\ \A b \in AppIds : app[b].default => b = a

\* No App is deleted under a repository that is bound to it, whether the
\* repository or the deletion is first.
BoundAppsExist ==
  \A b \in Bindings : binding[b].app # NoApp => Exists(binding[b].app)

\* Git is reached through one App: no repository is bound twice, though both
\* ways to add it looked before either wrote.
OneBindingPerRepository ==
  \A b, c \in Bindings : binding[b].repo = binding[c].repo => b = c \/ binding[b] = NoBinding

\* What resolving a repository rests on: its binding is the only one, the App
\* it names is there, and there is one default (repository_resolver.go).
BindingsHold == OneDefault /\ BoundAppsExist /\ OneBindingPerRepository

=============================================================================
