CONSTANTS
  p1 = p1
  p2 = p2
  Policies = {p1, p2}
  e1 = e1
  e2 = e2
  Executions = {e1, e2}
  Tasks = {t1}
  r1 = r1
  TopUps <- Once
  Fundings = {2}
  Terms <- Usual
  Evidence <- Found
  q1 = q1
  q2 = q2
  Requests = {q1, q2}
  RewardWorker = RewardWorker
  Scale = 2
  LockTTL = 2
  Deadline <- Late
  Horizon = 3
  Settings <- Circumstances
  None = None
SPECIFICATION FairRewardSpec
INVARIANT BooksBalance
PROPERTIES MoneyMovesWhenDue LockEnds
