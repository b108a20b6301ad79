SPECIFICATION Spec
CONSTANTS
  None = None
  p1 = p1
  p2 = p2
  x1 = x1
  h1 = h1
  i1 = i1
  i2 = i2
  i3 = i3
  Person <- People
  Address <- Addresses
  Household <- OneHousehold
  Invitation <- Links
  SeatLimit = 3
  Ttl = 2
  MaxTime = 2
  MaxCalls = 2
  MaxSecret = 1
INVARIANTS Governed NothingOutlivesStanding SeatsHold
PROPERTIES TerminalStands AdmittedByLiveLink PromotedByConsent EndedByItsOwners
SYMMETRY Symmetric
VIEW Seen
CHECK_DEADLOCK FALSE
