SPECIFICATION FairSpec
CONSTANTS
  None = None
  o1 = o1
  w1 = w1
  w2 = w2
  c1 = c1
  Owners <- OneOwner
  Workers <- OneWorker
  Crons <- OneCron
  AlertTimes = {1, 3}
  OwnerOps <- AllOps
  PushOutcomes <- AllAnswers
  PublishAhead = FALSE
  RetryDelay = 1
  MaxDelay = 1
  Headroom = 2
  Lease = 1
  RetryAfter = 1
  FreshFor = 1
  Grace = 1
  PassEvery = 1
  MaxRun = 0
  MaxTime = 9
  MaxOps = 2
  MaxFaults = 1
PROPERTIES RowRetired EventuallySettled
INVARIANTS SettledInTime PushedInWindow
