SPECIFICATION FairSpec
CONSTANTS
  Deposits = {3, 6}
  Transfers = {2}
  Boletos = {2}
  Costs = {0, 2}
  NetworkFee = 3
  MaintenanceFee = 1
  BoletoFee = 2
  SubscriptionAmount = 5
  Cap = 4
  OpeningMatrix = 3
  OpeningCustomers = 12
  MaxEvents = 3
INVARIANTS
  MatrixNonNegative
PROPERTIES
  Converges
