SPECIFICATION CompanySpec
CONSTANTS
  r1 = r1  r2 = r2  r3 = r3  r4 = r4  r5 = r5
  k1 = k1  k2 = k2  k3 = k3  k4 = k4
  p1 = p1  p2 = p2
  Requests = {r1, r2, r3, r4, r5}
  Keys = {k1, k2, k3, k4}
  Payloads = {p1, p2}
  NoPayload = NoPayload
  NoTransfer = NoTransfer
  KeyOf <- MCRepeatedKey
  PayloadOf <- MCRepeatedPayload
  Scheduled = {r4}
  Dynamic = {r1, r5}
  Total <- MCDear
  Deposit = 6
  MaxInFlight = 3
  MaxCrashes = 1
INVARIANTS
  DebitMatchesLedger
  SettledOnlyIfPaid
  OneDebitPerTransfer
  SpendableNonNegative
PROPERTIES
  ImplementsSettlement
  AdmittedIsAnswered
CHECK_DEADLOCK FALSE
