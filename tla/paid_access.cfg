SPECIFICATION FairSpec
CONSTANTS
  None = None
  s1 = s1
  s2 = s2
  w = w
  p1 = p1
  Subs <- TwoSubs
  Hooks <- Invocation
  Passes <- OnePass
  Operators <- Invocation
  Changes = {"cancel","keep","dispute","renewal"}
  MaxChanges = 4
  MaxFaults = 1
PROPERTIES EndStands OnlyOwnEndLapses AccessFollowsPayment RefundEndsSubscription DisputeStopsRenewal DunningEnds
