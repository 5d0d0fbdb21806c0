CONSTANTS
  other = other
  Requests = {r1, r2, other}
  Hash <- TwoHashes
  Modes = {"rest", "command"}
  TTL = 6
  PendingLease = 3
  BeatGap = 1
  MaxStall = 1
  MaxClock = 7
  MaxEpoch = 2
  None = None
  x1 = x1
  NEvents = 3
  Kind <- KindOf
  ExecOf <- ExecOfEvent
  Execs = {x1}
  Workers = {w1, w2}
  Disabled = FALSE
  Limit = 2
  ClaimBase = 2
  BackoffBase = 1
  Cap = 3
  OutboxStall = 3
  OutboxClock = 4
  MaxAttempts = 2
SYMMETRY Symmetry
SPECIFICATION PartSpec
INVARIANTS OneResponse OwnResponse EffectsDoNotRepeat NoEventIsLost
PROPERTIES NothingRegresses
CHECK_DEADLOCK FALSE
