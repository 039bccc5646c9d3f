-------------------------- MODULE BalanceAuditProofs --------------------------
(* Proofs about BalanceAudit, for any movements of money and any cap. *)
EXTENDS BalanceAudit, TLAPS

\* Whoever holds a copy of the Matrix account, the audit, a boleto payment or a
\* transfer, holds one that was not negative, the transfer one that covers it: what
\* they write later is computed from it.
CopiesNonNegative ==
  /\ live >= 0
  /\ paying # NoPayment => paying.matrix >= 0
  /\ sending # NoTransfer => sending.matrix >= sending.value

IInv == TypeOK /\ MatrixNonNegative /\ CopiesNonNegative

LEMMA IInvInit == Init => IInv
BY AuditAssumption
   DEF Init, IInv, TypeOK, MatrixNonNegative, CopiesNonNegative, NoPayment, NoTransfer

\* A correction is an integer and leaves the Matrix account at zero or above,
\* from a balance of zero or above: a shortfall takes no more than is there, a
\* surplus adds.
LEMMA CorrectionNonNegative ==
  ASSUME IInv, Correct
  PROVE  matrix' \in Int /\ matrix' >= 0
<1>1. signed_diff \in Int /\ live \in Int /\ live >= 0
  BY DEF IInv, TypeOK, CopiesNonNegative, signed_diff
<1>2. CASE Shortfall /\ matrix' = live - matrix_debit
  <2>1. matrix_debit \in Int /\ matrix_debit <= live
    BY <1>1 DEF matrix_debit
  <2>2. QED
    BY <1>1, <1>2, <2>1
<1>3. CASE Surplus /\ matrix' = live - signed_diff
  BY <1>1, <1>3 DEF Surplus
<1>4. QED
  BY <1>2, <1>3 DEF Correct

LEMMA MoneyMovesKeepIInv == IInv /\ MoneyMoves => IInv'
<1> SUFFICES ASSUME IInv, MoneyMoves PROVE IInv'
  OBVIOUS
<1> USE AuditAssumption
        DEF IInv, TypeOK, MatrixNonNegative, CopiesNonNegative, NoPayment, NoTransfer
<1>1. ASSUME NEW d \in Movements(Deposits), DepositArrives(d) PROVE IInv'
  BY <1>1 DEF DepositArrives, Move, audit, Movements
<1>2. ASSUME NEW d \in Movements(Deposits), DepositCredited(d) PROVE IInv'
  BY <1>2 DEF DepositCredited, audit, Movements
<1>3. ASSUME NEW t \in Movements(Transfers), TransferSent(t) PROVE IInv'
  BY <1>3 DEF TransferSent, Move, audit, Movements
<1>4. ASSUME NEW t \in Movements(Transfers), TransferDone(t) PROVE IInv'
  BY <1>4 DEF TransferDone, audit, Movements
<1>5. ASSUME NEW v \in Boletos, BoletoReads(v) PROVE IInv'
  BY <1>5 DEF BoletoReads, Move, money, audit
<1>6. CASE PaymentCommits
  BY <1>6 DEF PaymentCommits, audit
<1>7. ASSUME NEW amount \in Deposits, MatrixToOwner(amount) PROVE IInv'
  BY <1>7 DEF MatrixToOwner, Move, audit
<1>8. ASSUME NEW amount \in Deposits, MatrixToAsaas(amount) PROVE IInv'
  BY <1>8 DEF MatrixToAsaas, Move, audit
<1>9. ASSUME NEW amount \in Deposits, MatrixTransferAsks(amount) PROVE IInv'
  BY <1>9 DEF MatrixTransferAsks, Move, money, audit
<1>10. ASSUME NEW cost \in Costs, MatrixTransferSent(cost) PROVE IInv'
  <2>1. /\ sending.value \in Nat /\ sending.matrix \in Int
        /\ sending.matrix >= sending.value
    BY <1>10 DEF MatrixTransferSent
  <2>2. /\ asaas' \in Int /\ matrix' \in Int /\ matrix' >= 0
    BY <1>10, <2>1 DEF MatrixTransferSent
  <2>3. QED
    BY <1>10, <2>2 DEF MatrixTransferSent, audit
<1>11. CASE MatrixTransferFails
  <2>1. sending.value \in Nat
    BY <1>11 DEF MatrixTransferFails
  <2>2. asaas' \in Int
    BY <1>11, <2>1 DEF MatrixTransferFails
  <2>3. QED
    BY <1>11, <2>2 DEF MatrixTransferFails, audit
<1>12. ASSUME NEW amount \in Deposits, AsaasToCustomer(amount) PROVE IInv'
  BY <1>12 DEF AsaasToCustomer, Move, audit
<1>13. ASSUME NEW amount \in Deposits, NEW cost \in Costs, AsaasToKey(amount, cost)
       PROVE IInv'
  BY <1>13 DEF AsaasToKey, Move, audit
<1>14. CASE InternalChargeReads
  BY <1>14 DEF InternalChargeReads, Move, money, audit
<1>15. ASSUME NEW amount \in Deposits, DepositSimulated(amount) PROVE IInv'
  BY <1>15 DEF DepositSimulated, Move, audit
<1>16. CASE SubscriptionPaid
  BY <1>16 DEF SubscriptionPaid, Move, audit
<1>17. ASSUME NEW amount \in Deposits, UserDeleted(amount) PROVE IInv'
  BY <1>17 DEF UserDeleted, Move, audit
<1>18. QED
  BY <1>1, <1>2, <1>3, <1>4, <1>5, <1>6, <1>7, <1>8, <1>9, <1>10, <1>11, <1>12,
     <1>13, <1>14, <1>15, <1>16, <1>17 DEF MoneyMoves

LEMMA AuditStepsKeepIInv == IInv /\ AuditSteps => IInv'
<1> SUFFICES ASSUME IInv, AuditSteps PROVE IInv'
  OBVIOUS
<1> USE AuditAssumption
        DEF IInv, TypeOK, MatrixNonNegative, CopiesNonNegative
<1>1. ASSUME NEW who \in {"worker", "admin"}, ReadBalances(who) PROVE IInv'
  BY <1>1 DEF ReadBalances, money
<1>2. CASE AskAsaas
  BY <1>2 DEF AskAsaas, money
<1>3. CASE AsaasUnavailable
  BY <1>3 DEF AsaasUnavailable, Finish, money
<1>4. CASE NoCorrection
  BY <1>4 DEF NoCorrection, Finish, money
<1>5. CASE Reread
  BY <1>5 DEF Reread, money
<1>6. CASE Correct
  BY <1>6, CorrectionNonNegative DEF Correct, Finish
<1>7. QED
  BY <1>1, <1>2, <1>3, <1>4, <1>5, <1>6 DEF AuditSteps

LEMMA IInvStep == IInv /\ [Next]_vars => IInv'
<1>1. IInv /\ UNCHANGED vars => IInv'
  BY DEF vars, money, audit, IInv, TypeOK, MatrixNonNegative, CopiesNonNegative
<1>2. QED
  BY <1>1, MoneyMovesKeepIInv, AuditStepsKeepIInv DEF Next

\* The balances stay whole cents and the audit's session well formed, whatever
\* moves while it runs.
THEOREM TypeCorrect == Spec => []TypeOK
<1>1. IInv => TypeOK
  BY DEF IInv
<1>2. QED
  BY IInvInit, IInvStep, <1>1, PTL DEF Spec

\* No correction takes the Matrix account below zero, stale as the difference and
\* the copy of the account may be that it is computed from.
THEOREM MatrixStaysNonNegative == Spec => []MatrixNonNegative
<1>1. IInv => MatrixNonNegative
  BY DEF IInv
<1>2. QED
  BY IInvInit, IInvStep, <1>1, PTL DEF Spec
=============================================================================
