CONSTANTS
  Tasks = {t1}
  Execs = {e1, e2}
  Agents = {a1, a2}
  Publishers = {b1, sys}
  SystemIssuePublisher = sys
  Procs = {p1, p2}
  Deadlines = {3}
  LeaseTerm = 2
  BatchLimit = 1
  MaxClock = 5
  MaxGen = 2
  MaxVer = 1
  MaxStall = 1
  None = None
SYMMETRY Symmetry
SPECIFICATION Spec
INVARIANTS TypeOK TaskMatchesExecution ActiveExecutionIsBacked AuditTracksTask
PROPERTIES NothingIsUndone ImplementsTaskBoard
CHECK_DEADLOCK FALSE
