----------------------------- MODULE BalanceAudit -----------------------------
(***************************************************************************)
(* The balance audit: the worker that compares, every minute, the sum of   *)
(* all accounts with the balance of the platform's account at Asaas, and   *)
(* corrects the Matrix account (the platform's own) by the difference.     *)
(*                                                                         *)
(* An audit reads the accounts in one session, asks Asaas, and writes the  *)
(* Matrix account in another.  It runs on the event loop without awaiting  *)
(* anything until it has corrected, so that webhooks and administrators'   *)
(* endpoints wait for it; the endpoints on worker threads do not, and      *)
(* neither does the money at Asaas.                                        *)
(***************************************************************************)
EXTENDS Integers

CONSTANTS
  Deposits,       \* values of PIX received, in cents
  Transfers,      \* values of PIX sent, in cents
  Boletos,        \* values of boletos paid, in cents
  Costs,          \* what Asaas may charge for a PIX, in cents
  NetworkFee,     \* "taxa de rede" of a PIX sent
  MaintenanceFee, \* "taxa de manutencao" of a PIX sent
  BoletoFee,      \* fee of a boleto
  SubscriptionAmount, \* SUBSCRIPTION_AMOUNT, the price of a month
  Cap,            \* _AUTO_CORRECTION_MAX, in cents
  OpeningMatrix, OpeningCustomers, \* balances at the start
  MaxEvents       \* bound: movements of money

ASSUME AuditAssumption ==
  /\ Deposits \subseteq Nat /\ Transfers \subseteq Nat /\ Boletos \subseteq Nat
  /\ Costs \subseteq Nat
  /\ NetworkFee \in Nat /\ MaintenanceFee \in Nat /\ BoletoFee \in Nat
  /\ SubscriptionAmount \in Nat
  /\ Cap \in Nat
  /\ OpeningMatrix \in Nat /\ OpeningCustomers \in Nat
  /\ MaxEvents \in Nat

VARIABLES
  customers,  \* sum of the customers' balances
  matrix,     \* balance of the Matrix account
  asaas,      \* balance of the platform at Asaas
  arriving,   \* deposits at Asaas not credited yet, [value, cost]
  leaving,    \* transfers Asaas has paid and not debited yet, [value, cost]
  events,     \* movements of money so far
  paying,     \* a payment that has read the Matrix account for its fee, or none
  sending,    \* a transfer from the Matrix account that awaits Asaas, or none
  auditor,    \* who is auditing: the worker, an administrator or nobody
  step,       \* how far the audit has come
  total,      \* the sum of all accounts it read
  bank,       \* the balance at Asaas it was told
  live        \* the balance of the Matrix account it will write

money == <<customers, matrix, asaas, arriving, leaving>>
audit == <<auditor, step, total, bank, live>>
vars == <<money, events, paying, sending, audit>>

Movements(values) == [value : values, cost : Costs]
NoPayment == [value |-> 0, fee |-> 0, matrix |-> -1]
NoTransfer == [value |-> 0, matrix |-> -1]

TypeOK ==
  /\ customers \in Int /\ matrix \in Int /\ asaas \in Int
  /\ arriving \subseteq Movements(Deposits)
  /\ leaving \subseteq Movements(Transfers)
  /\ events \in 0 .. MaxEvents
  /\ paying \in [value : Boletos \cup {0}, fee : {BoletoFee, MaintenanceFee}, matrix : Int]
               \cup {NoPayment}
  /\ sending \in [value : Deposits, matrix : Int] \cup {NoTransfer}
  /\ auditor \in {"nobody", "worker", "admin"}
  /\ step \in {"idle", "read", "asked", "reread"}
  /\ total \in Int /\ bank \in Int /\ live \in Int

Init ==
  /\ customers = OpeningCustomers
  /\ matrix = OpeningMatrix
  /\ asaas = OpeningCustomers + OpeningMatrix
  /\ arriving = {} /\ leaving = {}
  /\ events = 0
  /\ paying = NoPayment /\ sending = NoTransfer
  /\ auditor = "nobody" /\ step = "idle"
  /\ total = 0 /\ bank = 0 /\ live = 0

-----------------------------------------------------------------------------
(* The money.                                                              *)

\* No handler of the event loop is half way.
LoopFree == auditor = "nobody" /\ sending = NoTransfer

Move == events < MaxEvents /\ events' = events + 1

\* External: a PIX arrives at Asaas, which keeps its fee.
DepositArrives(d) ==
  /\ Move
  /\ d \notin arriving
  /\ arriving' = arriving \cup {d}
  /\ asaas' = asaas + d.value - d.cost
  /\ UNCHANGED <<customers, matrix, leaving, paying, sending, audit>>

\* A webhook or a verification credits it without a fee (credit_pix_receipt).
DepositCredited(d) ==
  /\ d \in arriving
  /\ arriving' = arriving \ {d}
  /\ customers' = customers + d.value
  /\ UNCHANGED <<matrix, asaas, leaving, events, paying, sending, audit>>

\* External: Asaas carries a transfer out, and charges its cost.
TransferSent(t) ==
  /\ Move
  /\ t \notin leaving
  /\ leaving' = leaving \cup {t}
  /\ asaas' = asaas - t.value - t.cost
  /\ UNCHANGED <<customers, matrix, arriving, paying, sending, audit>>

\* TRANSFER_DONE debits value and fee, and credits the maintenance fee to the
\* Matrix account.
TransferDone(t) ==
  /\ LoopFree
  /\ t \in leaving
  /\ leaving' = leaving \ {t}
  /\ customers' = customers - t.value - NetworkFee - MaintenanceFee
  /\ matrix' = matrix + MaintenanceFee
  /\ UNCHANGED <<asaas, arriving, events, paying, sending, audit>>

\* A boleto is paid on a worker thread: credit_fee reads the Matrix account, and
\* the commit writes the sum.  Nothing is paid at Asaas.
BoletoReads(v) ==
  /\ Move
  /\ paying = NoPayment
  /\ paying' = [value |-> v, fee |-> BoletoFee, matrix |-> matrix]
  /\ UNCHANGED <<money, sending, audit>>

\* So is a charge inside the platform: its value stays with the customers, and
\* the payer's maintenance fee goes to the Matrix account.
InternalChargeReads ==
  /\ Move
  /\ paying = NoPayment
  /\ paying' = [value |-> 0, fee |-> MaintenanceFee, matrix |-> matrix]
  /\ UNCHANGED <<money, sending, audit>>

PaymentCommits ==
  /\ paying # NoPayment
  /\ customers' = customers - paying.value - paying.fee
  /\ matrix' = paying.matrix + paying.fee
  /\ paying' = NoPayment
  /\ UNCHANGED <<asaas, arriving, leaving, events, sending, audit>>

\* POST /auth/deposit credits an account with money that is not at Asaas.
DepositSimulated(amount) ==
  /\ Move
  /\ customers' = customers + amount
  /\ UNCHANGED <<matrix, asaas, arriving, leaving, paying, sending, audit>>

\* A month of the subscription, bought or renewed: the account is debited and
\* nobody is credited; the next audit sweeps the money as a surplus.
SubscriptionPaid ==
  /\ LoopFree
  /\ Move
  /\ customers' = customers - SubscriptionAmount
  /\ UNCHANGED <<matrix, asaas, arriving, leaving, paying, sending, audit>>

\* DELETE /admin/users: the balance goes with the account, whatever it was.
UserDeleted(amount) ==
  /\ LoopFree
  /\ Move
  /\ customers' = customers - amount
  /\ UNCHANGED <<matrix, asaas, arriving, leaving, paying, sending, audit>>

\* POST /admin/matrix/to-owner.
MatrixToOwner(amount) ==
  /\ LoopFree
  /\ Move
  /\ matrix >= amount
  /\ matrix' = matrix - amount
  /\ customers' = customers + amount
  /\ UNCHANGED <<asaas, arriving, leaving, paying, sending, audit>>

\* POST /admin/matrix/to-asaas: an accounting debit, no money moves.
MatrixToAsaas(amount) ==
  /\ LoopFree
  /\ Move
  /\ matrix >= amount
  /\ matrix' = matrix - amount
  /\ UNCHANGED <<customers, asaas, arriving, leaving, paying, sending, audit>>

\* POST /admin/matrix/transfer to an external key: the balance is read and
\* checked, Asaas is asked while the event loop waits, and the difference to the
\* balance read is written.
MatrixTransferAsks(amount) ==
  /\ LoopFree
  /\ Move
  /\ matrix >= amount
  /\ sending' = [value |-> amount, matrix |-> matrix]
  /\ UNCHANGED <<money, paying, audit>>

MatrixTransferSent(cost) ==
  /\ sending # NoTransfer
  /\ asaas' = asaas - sending.value - cost
  /\ matrix' = sending.matrix - sending.value
  /\ sending' = NoTransfer
  /\ UNCHANGED <<customers, arriving, leaving, events, paying, audit>>

\* Asaas refuses; or its answer is lost, and it has sent the transfer all the same.
MatrixTransferFails ==
  /\ sending # NoTransfer
  /\ sending' = NoTransfer
  /\ \/ UNCHANGED asaas
     \/ \E cost \in Costs : asaas' = asaas - sending.value - cost
  /\ UNCHANGED <<customers, matrix, arriving, leaving, events, paying, audit>>

\* POST /admin/asaas/transfer to a customer, which credits the account and moves
\* no money, and to an external key, which sends a PIX and books nothing.
AsaasToCustomer(amount) ==
  /\ LoopFree
  /\ Move
  /\ customers' = customers + amount
  /\ UNCHANGED <<matrix, asaas, arriving, leaving, paying, sending, audit>>

AsaasToKey(amount, cost) ==
  /\ LoopFree
  /\ Move
  /\ asaas' = asaas - amount - cost
  /\ UNCHANGED <<customers, matrix, arriving, leaving, paying, sending, audit>>

-----------------------------------------------------------------------------
(* The audit.                                                              *)

\* The first session, and the only one of an administrator's audit, which
\* keeps the Matrix account it loads here.
ReadBalances(who) ==
  /\ LoopFree
  /\ auditor' = who
  /\ step' = "read"
  /\ total' = customers + matrix
  /\ live' = matrix
  /\ UNCHANGED <<money, events, paying, sending, bank>>

AskAsaas ==
  /\ step = "read"
  /\ step' = "asked"
  /\ bank' = asaas
  /\ UNCHANGED <<money, events, paying, sending, auditor, total, live>>

Finish ==
  /\ auditor' = "nobody" /\ step' = "idle"
  /\ total' = 0 /\ bank' = 0 /\ live' = 0
  /\ UNCHANGED <<events, paying, sending>>

\* Asaas does not answer: a partial audit.
AsaasUnavailable ==
  /\ step = "read"
  /\ Finish
  /\ UNCHANGED money

signed_diff == total - bank

\* The accounts exceed Asaas by no more than the cap.  The worker lets one
\* cent pass, the administrator's audit does not.
Shortfall ==
  /\ signed_diff <= Cap
  /\ IF auditor = "worker" THEN signed_diff > 1 ELSE signed_diff > 0

\* Faulty variant of Surplus: limited by the cap.
SurplusCapped == auditor = "worker" /\ signed_diff < -1 /\ -signed_diff <= Cap

\* Asaas exceeds the accounts, by any amount.  An administrator's audit adds a
\* float to a Decimal here, which raises.
Surplus == auditor = "worker" /\ signed_diff < -1

\* Nothing to correct, or nothing the audit corrects.
NoCorrection ==
  /\ step = "asked"
  /\ ~Shortfall /\ ~Surplus
  /\ Finish
  /\ UNCHANGED money

\* The worker's second session loads the Matrix account again.
Reread ==
  /\ step = "asked"
  /\ Shortfall \/ Surplus
  /\ step' = "reread"
  /\ live' = IF auditor = "worker" THEN matrix ELSE live
  /\ UNCHANGED <<money, events, paying, sending, auditor, total, bank>>

\* Faulty variant of matrix_debit: the whole difference.
matrix_debit_unfloored == signed_diff

\* The Matrix account pays what it can.
matrix_debit ==
  CASE live < 0 -> 0
    [] live >= 0 /\ signed_diff <= live -> signed_diff
    [] live >= 0 /\ signed_diff > live -> live

Correct ==
  /\ step = "reread"
  /\ \/ Shortfall /\ matrix' = live - matrix_debit
     \/ Surplus /\ matrix' = live - signed_diff
  /\ Finish
  /\ UNCHANGED <<customers, asaas, arriving, leaving>>

-----------------------------------------------------------------------------
MoneyMoves ==
  \/ \E d \in Movements(Deposits) : DepositArrives(d) \/ DepositCredited(d)
  \/ \E t \in Movements(Transfers) : TransferSent(t) \/ TransferDone(t)
  \/ \E v \in Boletos : BoletoReads(v)
  \/ InternalChargeReads \/ PaymentCommits
  \/ SubscriptionPaid
  \/ \E amount \in Deposits :
       \/ MatrixToOwner(amount) \/ MatrixToAsaas(amount)
       \/ MatrixTransferAsks(amount)
       \/ AsaasToCustomer(amount)
       \/ DepositSimulated(amount) \/ UserDeleted(amount)
       \/ \E cost \in Costs : AsaasToKey(amount, cost)
  \/ \E cost \in Costs : MatrixTransferSent(cost)
  \/ MatrixTransferFails

AuditSteps ==
  \/ \E who \in {"worker", "admin"} : ReadBalances(who)
  \/ AskAsaas \/ AsaasUnavailable
  \/ NoCorrection \/ Reread \/ Correct

Next == MoneyMoves \/ AuditSteps

Spec == Init /\ [][Next]_vars

\* The worker audits for ever, and Asaas answers it again and again.
FairSpec ==
  /\ Spec
  /\ SF_vars(ReadBalances("worker"))
  /\ SF_vars(AskAsaas /\ auditor = "worker")
  /\ WF_vars(NoCorrection \/ Reread \/ Correct)
  /\ WF_vars(AskAsaas \/ AsaasUnavailable)
  /\ WF_vars(\E cost \in Costs : MatrixTransferSent(cost))

-----------------------------------------------------------------------------
(* Properties.                                                             *)

\* No correction takes the Matrix account below zero, stale as the difference
\* it was computed from and the balance it was computed on may be.
MatrixNonNegative == matrix >= 0

\* Once money stops moving the audit settles: accounts and Asaas agree to the
\* cent, or what is left is a shortfall above the cap or beyond the means of the
\* Matrix account, which the audit reports and does not touch.
Imbalance == customers + matrix - asaas
Reconciled == Imbalance \in -1 .. 1 \/ Imbalance > Cap \/ (Imbalance > 0 /\ matrix = 0)
Converges == <>[]Reconciled

=============================================================================
