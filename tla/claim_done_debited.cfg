SPECIFICATION Spec
CONSTANTS
  r1 = r1  r2 = r2  r3 = r3  r4 = r4  r5 = r5
  k1 = k1  k2 = k2  k3 = k3  k4 = k4
  p1 = p1  p2 = p2
  Requests = {r1, r2, r3}
  Keys = {k1, k2, k3}
  Payloads = {p1}
  NoPayload = NoPayload
  NoTransfer = NoTransfer
  KeyOf <- MCKeyOf
  PayloadOf <- MCPayloadOf
  Scheduled = {r3}
  Dynamic = {r1}
  Total <- MCTotal
  Deposit = 6
  MaxInFlight = 2
  MaxCrashes = 0
INVARIANTS
  DoneMeansDebited
CHECK_DEADLOCK FALSE
