SPECIFICATION FairSpec
CONSTANTS
  c1 = c1
  c2 = c2
  k1 = k1
  Calls = {c1, c2}
  Keys = {k1}
  KeyOf <- MCKeyOf
  QrCodes <- MCQrCodes
  Given <- MCGiven
  MaxAttempts = 3
  MaxCrashes = 1
PROPERTIES ImplementsGateway CallEnds
CHECK_DEADLOCK FALSE
