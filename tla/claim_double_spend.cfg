SPECIFICATION Spec
CONSTANTS
  alice = alice  bob = bob  matrix = matrix
  pix = pix  again = again  charge = charge  own = own
  admin = admin  done = done  deposit = deposit  back = back
  k1 = k1  k2 = k2  k3 = k3  k4 = k4  k5 = k5  k6 = k6  k7 = k7
  Accounts = {alice, bob, matrix}
  Matrix = matrix
  Opening <- MCOpening
  Requests = {pix, again, charge, own, admin, done, deposit, back}
  Route <- MCRoute
  Caller <- MCCaller
  Payer <- MCPayer
  Payee <- MCPayee
  Value <- MCValue
  Fee = 1
  IndexEntries = {k1, k2, k3, k4, k5, k6, k7}
  KeyOf <- MCKeyOf
  OtherOf <- MCOtherOf
  MaxInFlight = 2
INVARIANT SpentOnlyOnce
CHECK_DEADLOCK FALSE
