CONSTANTS
  Tasks = {t1}
  Execs = {e1}
  Agents = {a1}
  Publishers = {b1}
  SystemIssuePublisher = sys
  Procs = {p1, p2}
  Deadlines = {4}
  LeaseTerm = 2
  BatchLimit = 1
  MaxClock = 5
  MaxGen = 2
  MaxVer = 1
  MaxStall = 1
  None = None
SPECIFICATION FairSpec
PROPERTY ReaperCatchesUp
CHECK_DEADLOCK FALSE
