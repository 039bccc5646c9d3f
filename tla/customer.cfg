SPECIFICATION CustomerSpec
CONSTANTS
  w1 = w1  w2 = w2
  NoDeque = NoDeque
  Sessions = {w1, w2}
  NoTask = NoTask
  Price = 2
  Days = 2
  TrialDays = 1
  Opening = 2
  MaxTime = 4
  MaxMoves = 1
  ResendWait = 1
  LinkLife = 2
  MaxDate = 3
  MaxSecrets = 3
  Threads = {w1, w2}
  MaxReq = 1
  Window = 1
  MaxClock = 3
  MaxCalls = 4
  Values = {1, 30000, 30001, 49937, 50000, 50031, 50063, 56125, 100000, 100001, 6000000}
  Hours = {0, 5, 6, 12, 21, 22, 23}
  Attempts = {0, 3, 4, 30, 31}
  Users = {1, 3, 4, 10}
  Steps = {0, 1, 3, 7}
  Ids <- MCIds
  Amounts <- MCAmounts
  Crcs <- MCCrcs
INVARIANTS
  AllTypesOK
  OpenAsPromised OverdrawnOnce
  VerifiedByLiveLink OneAccount
  LimitHolds
  FeesAgree RiskDecides
  TyposAreCaught CodesAreRead
PROPERTIES
  RenewalsAreDue SpentIsRefused RefusedOnlyIfFull
CHECK_DEADLOCK FALSE
