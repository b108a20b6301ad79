SPECIFICATION RollbackSpec
CONSTANTS
  None = None
  o1 = o1
  w1 = w1
  c1 = c1
  Owners <- OneOwner
  Workers <- OneWorker
  Crons <- OneCron
  AlertTimes = {1}
  OwnerOps <- Edits
  PushOutcomes <- Retries
  PublishAhead = TRUE
  RetryDelay = 1
  MaxDelay = 1
  Headroom = 1
  Lease = 2
  RetryAfter = 1
  FreshFor = 2
  Grace = 1
  PassEvery = 1
  MaxRun = 1
  MaxTime = 3
  MaxOps = 1
  MaxFaults = 1
  MaxHolds = 1
INVARIANTS HandedOver FreshKey
