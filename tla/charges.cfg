SPECIFICATION FairSpec
CONSTANTS
  c1 = c1  c2 = c2
  w1 = w1  w2 = w2
  Charges = {c1, c2}
  Workers = {w1}
  Loop = Loop
  Tasks <- PaidTasks
  NoTask = NoTask
  Opening = 1
  MaxDebits = 1
  MaxFailures = 1
  MaxCredits = 2
INVARIANTS
  CreditsArePaid
PROPERTIES
  PaidIsCredited
CHECK_DEADLOCK FALSE
