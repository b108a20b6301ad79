SPECIFICATION Spec
CONSTANTS
  None = None
  o1 = o1
  w1 = w1
  w2 = w2
  c1 = c1
  Owners <- OneOwner
  Workers <- OneWorker
  Crons <- NoCron
  AlertTimes = {1, 2}
  OwnerOps <- Edits
  PushOutcomes <- Accepts
  PublishAhead = TRUE
  RetryDelay = 1
  MaxDelay = 1
  Headroom = 2
  Lease = 1
  RetryAfter = 1
  FreshFor = 2
  Grace = 1
  PassEvery = 1
  MaxRun = 0
  MaxTime = 1
  MaxOps = 2
  MaxFaults = 0
INVARIANTS EditStands
