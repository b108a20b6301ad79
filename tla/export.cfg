SPECIFICATION Spec
CONSTANTS
  w1 = w1
  w2 = w2
  c1 = c1
  r1 = r1
  Web <- TwoWeb
  Consumers <- OneConsumer
  Passes <- OnePass
  Lease = 2
  RetryDelay = 1
  Life = 3
  MaxRun = 2
  MaxJobs = 2
  MaxClaims = 3
  MaxClock = 4
  MaxFaults = 1
  MaxRestores = 0
  LastFault = 4
INVARIANTS OneOpenExport ArchiveIsTheClaims CursorOutlivesBytes
SYMMETRY WebSymmetry
CHECK_DEADLOCK FALSE
