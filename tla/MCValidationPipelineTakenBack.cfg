CONSTANTS
  Jobs = {j1}
  w1 = w1
  w2 = w2
  Workers = {w1, w2}
  StepOrder <- TwoSteps
  MaxAttempts = 2
  Settings <- Vanishing
SPECIFICATION Spec
PROPERTY ValidatedStands
CHECK_DEADLOCK FALSE
