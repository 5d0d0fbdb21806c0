CONSTANTS
  t1 = t1
  t2 = t2
  s1 = s1
  s2 = s2
  w1 = w1
  w2 = w2
  k1 = k1
  k2 = k2
  Slots = {s1, s2}
  Workers = {w1, w2}
  MaxVersion = 3
  MaxRun = 2
  MaxSet = 2
  Contents <- MCContents
  Security = {t1}
  Configs = {k1, k2}
  Candidates = {c1, c2}
  CredentialTTL = 1
  RunTimeout = 1
  BatchSize = 1
  Settings <- RevocationSettings
  None = None
SPECIFICATION Spec
PROPERTIES RevocationStands
CHECK_DEADLOCK FALSE
