CONSTANTS
  Submissions = {s1, s2}
  Reviewers = {r1, r2}
  Unvalidated = {s1}
  Sessions = {p1, p2}
  Workers = {w1}
  k1 = k1
  Keys = {k1}
  KeyOf <- OneKey
  BatchSize = 1
  None = None
SPECIFICATION FairSpec
INVARIANTS LoadIsPending DecisionAgrees AcceptedIsValidated
PROPERTIES DecisionStands ReputationFollows
CHECK_DEADLOCK FALSE
