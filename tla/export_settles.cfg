SPECIFICATION FairSpec
CONSTANTS
  w1 = w1
  w2 = w2
  c1 = c1
  r1 = r1
  Web <- OneWeb
  Consumers <- OneConsumer
  Passes <- OnePass
  Lease = 2
  RetryDelay = 1
  Life = 2
  MaxRun = 1
  MaxJobs = 1
  MaxClaims = 4
  MaxClock = 5
  MaxFaults = 1
  MaxRestores = 1
  LastFault = 3
INVARIANTS FencedIsNotRepeated
PROPERTIES ExportSettles LapsedIsCleanedUp
CHECK_DEADLOCK FALSE
