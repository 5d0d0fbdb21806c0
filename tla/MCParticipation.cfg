CONSTANTS
  a1 = a1
  Agents = {a1, a2}
  Keys = {k1, k2}
  Handles = {h}
  Challenges = {c1, c2, c3}
  None = None
  Tasks = {t1}
  e1 = e1
  e2 = e2
  Execs = {e1, e2}
  Insider = Insider
  Requests = {r1, r2}
  Workers = {w1, w2}
  MaxRevision = 2
  MaxCalls = 2
  AppIds = {x1, x2}
  g1 = g1
  GitHubApps = {g1, g2}
  Installations = {i1}
  Owner <- OwnerOf
  q1 = q1
  Repos = {q1}
  Bindings = {b1, b2}
  NoApp = NoApp
  MaxAdminCalls = 2
  TaskRepo <- RepoOf
  Commits = {m1, m2, m3}
  Sound = {m1, m2}
  GitRequests = {gr1, gr2}
  MaxIssued = 3
  MaxSubmitted = 2
  Settings <- Circumstances
SPECIFICATION Spec
INVARIANTS OneIdentityPerKey ClaimsAreExclusive BindingsHold SubmissionSpendsCredential
PROPERTIES TermsStand
CHECK_DEADLOCK FALSE
