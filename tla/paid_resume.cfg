SPECIFICATION Spec
CONSTANTS
  None = None
  s1 = s1
  s2 = s2
  w = w
  p1 = p1
  Subs <- OneSub
  Hooks <- Invocation
  Passes <- OnePass
  Operators <- Invocation
  Changes = {"cancel","dispute"}
  MaxChanges = 5
  MaxFaults = 1
PROPERTIES CustomerCancellationStands
