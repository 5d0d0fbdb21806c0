CONSTANTS
  e1 = e1
  j1 = j1
  r1 = r1
  w1 = w1
  w2 = w2
  p1 = p1
  p2 = p2
  None = None
  Execs = {e1}
  Jobs = {j1}
  Reviews = {r1}
  SourceExec <- OneExecution
  Steps <- TheSteps
  Specified <- TheCriteria
  Binding <- TheBinding
  Critical <- TheCritical
  Stray = "AC-9"
  Workers = {w1, w2}
  Service = service
  Said <- TheVerdicts
  MaxClaims = 2
  Contribs = {1, 2}
  ContribExec <- ExecOfContribution
  ContribVersion <- VersionOfContribution
  ContribRepo <- RepoOfContribution
  Deliveries = {d1}
  ObjectVersions = {o1}
  SecurityScan = "security_scan"
  MinSample = 2
  Processes = {p1, p2}
  MaxEvents = 2
  MaxFaults = 1
  Settings <- Circumstances
SPECIFICATION Spec
INVARIANTS VerdictsHaveEvidence  NoUnearnedCredit
PROPERTIES CardsCatchUp
CHECK_DEADLOCK FALSE
