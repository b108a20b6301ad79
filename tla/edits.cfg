SPECIFICATION Spec
CONSTANTS
  None = None
  o1 = o1
  w1 = w1
  w2 = w2
  c1 = c1
  Owners <- OneOwner
  Workers <- TwoWorkers
  Crons <- OneCron
  AlertTimes = {3, 5}
  OwnerOps <- Edits
  PushOutcomes <- Accepts
  PublishAhead = TRUE
  RetryDelay = 1
  MaxDelay = 2
  Headroom = 2
  Lease = 1
  RetryAfter = 1
  FreshFor = 2
  Grace = 1
  PassEvery = 1
  MaxRun = 0
  MaxTime = 5
  MaxOps = 2
  MaxFaults = 0
SYMMETRY WorkerSymmetry
INVARIANTS PublishedWasSent OneDispatcher PushedOnce PendingJobFollowsSchedule NoLateWakeup
