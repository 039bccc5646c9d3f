SPECIFICATION PromptSpec
CONSTANTS
  ana = ana  bia = bia
  d1 = d1  d2 = d2  d3 = d3
  s1 = s1  s2 = s2
  Users = {ana, bia}
  NoUser = NoUser
  Deposits = {d1, d2, d3}
  Senders <- MCSenders
  Resolved <- MCResolved
  Linked = {d1}
  Referenced = {d2}
  Sessions = {s1, s2}
  WebhookOn = TRUE
  MaxFailures = 1
INVARIANTS
  OneCreditPerDeposit
  CreditsMatchRows
  BalanceIsAccounted
