CONSTANTS
  Jobs = {j1}
  w1 = w1
  w2 = w2
  Workers = {w1, w2}
  StepOrder <- TwoSteps
  MaxAttempts = 2
  Settings <- Deployments
SPECIFICATION FairSpec
INVARIANT VerdictsAgree
PROPERTIES VerdictsStand VerdictReached
CHECK_DEADLOCK FALSE
