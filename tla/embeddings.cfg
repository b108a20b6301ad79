SPECIFICATION FairSpec
CONSTANTS
  None = None
  o1 = o1
  w1 = w1
  c1 = c1
  ta = ta
  tb = tb
  Texts <- TwoTexts
  Owners <- OneOwner
  Workers <- OneWorker
  Crons <- OneCron
  Records <- Edits
  Rejected <- RefusesB
  Overlap = TRUE
  MaxAttempts = 2
  MaxTransientAttempts = 3
  MaxEdits = 2
  MaxFaults = 1
INVARIANTS IndexMatchesRecord DeadLetterIsEarned
PROPERTIES ImplementsIndex EventuallySettled
