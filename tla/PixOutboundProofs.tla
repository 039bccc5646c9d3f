-------------------------- MODULE PixOutboundProofs --------------------------
(***************************************************************************)
(* Proofs about PixOutbound for any set of requests, keys and payloads:    *)
(* the type invariant, the safety invariants of the deferred debit, and    *)
(* that the handlers implement OutboundSettlement, and that the pending    *)
(* payments are covered as long as sessions do not overlap.                *)
(***************************************************************************)
EXTENDS PixOutbound, FiniteSetTheorems, TLAPS

-----------------------------------------------------------------------------
(* The inductive invariant.                                                *)

\* Until its request is answered a row is not committed: nobody else sees it.
UncommittedUnseen ==
  \A r \in Requests : pc[r] # "answered" =>
    status[r] = "ABSENT" /\ ledger[r] = "NONE" /\ transfer[r] = NoTransfer

\* A row that awaits its webhook has its reservation; one that is scheduled,
\* or that a cancel handler has read as scheduled, has none.
ReservedWhileProcessing ==
  \A r \in Requests :
    /\ status[r] = "PROCESSING" => ledger[r] = "PENDING"
    /\ status[r] = "SCHEDULED" \/ r \in cancelling =>
         status[r] # "ABSENT" /\ ledger[r] = "NONE"

\* The confirm handlers have read rows that exist.
ConfirmingRows == \A r \in confirming : status[r] # "ABSENT"

\* A row carries its own transfer or none, and an entry belongs to a row.
OwnTransfer ==
  \A r \in Requests :
    /\ transfer[r] \in {KeyOf[r], NoTransfer}
    /\ ledger[r] # "NONE" => status[r] # "ABSENT"

\* The rows in the table, committed or not, have different keys.
InTable(r) == status[r] # "ABSENT" \/ pc[r] \in {"flushed", "dispatched"}
KeysDiffer ==
  \A r, q \in Requests :
    InTable(r) /\ InTable(q) /\ KeyOf[r] = KeyOf[q] => r = q

IInv ==
  /\ TypeOK
  /\ UncommittedUnseen
  /\ ReservedWhileProcessing
  /\ ConfirmingRows
  /\ OwnTransfer
  /\ DebitMatchesLedger
  /\ SettledOnlyIfPaid
  /\ KeysDiffer

LEMMA IInvInit == Init => IInv
<1> SUFFICES ASSUME Init PROVE IInv
  OBVIOUS
<1>1. TypeOK
  <2>1. overlapped \in BOOLEAN
    BY DEF Init
  <2>2. QED
    BY <2>1, RequestAssumption DEF Init, TypeOK, Steps, PspStates
<1>2. QED
  BY <1>1, RequestAssumption
  DEF Init, IInv, UncommittedUnseen, ReservedWhileProcessing, ConfirmingRows,
      OwnTransfer, DebitMatchesLedger, SettledOnlyIfPaid, KeysDiffer, InTable

LEMMA IInvStep == IInv /\ [Next]_vars => IInv'
<1> SUFFICES ASSUME IInv, [Next]_vars PROVE IInv'
  OBVIOUS
<1> USE RequestAssumption
    DEF IInv, TypeOK, Steps, PixStatus, LedgerEntryStatus, PspStates,
        UncommittedUnseen, ReservedWhileProcessing, ConfirmingRows, OwnTransfer,
        DebitMatchesLedger, SettledOnlyIfPaid, KeysDiffer, InTable,
        vars, rows, session, Unaffected
<1>1. ASSUME NEW r \in Requests, Authenticate(r) PROVE IInv'
  BY <1>1 DEF Authenticate
<1>2. ASSUME NEW r \in Requests, AnswerWithoutRow(r) PROVE IInv'
  BY <1>2 DEF AnswerWithoutRow, Answer
<1>3. ASSUME NEW r \in Requests, Admit(r) PROVE IInv'
  BY <1>3 DEF Admit, Goto
<1>4. ASSUME NEW r \in Requests, InsertRefused(r) PROVE IInv'
  BY <1>4 DEF InsertRefused, Answer
<1>5. ASSUME NEW r \in Requests, Insert(r) PROVE IInv'
  BY <1>5 DEF Insert, Answer, Goto, Conflict, Rows, Uncommitted
<1>6. ASSUME NEW r \in Requests, Dispatch(r) PROVE IInv'
  BY <1>6 DEF Dispatch, Goto, Accept
<1>7. ASSUME NEW r \in Requests, DispatchRaises(r) PROVE IInv'
  BY <1>7 DEF DispatchRaises, Answer, Accept
<1>8. ASSUME NEW r \in Requests, CommitProcessing(r) PROVE IInv'
  BY <1>8 DEF CommitProcessing, Answer
<1>9. ASSUME NEW r \in Requests, QrShortAfterDispatch(r) PROVE IInv'
  BY <1>9 DEF QrShortAfterDispatch, Answer
<1>10. ASSUME NEW r \in Requests, QrAmountUnknown(r) PROVE IInv'
  BY <1>10 DEF QrAmountUnknown, Answer
<1>11. ASSUME NEW r \in Requests, ConfirmRead(r) PROVE IInv'
  BY <1>11 DEF ConfirmRead, Rows
<1>12. ASSUME NEW r \in Requests, ConfirmWrite(r) PROVE IInv'
  BY <1>12 DEF ConfirmWrite
<1>13. ASSUME NEW r \in Requests, CancelRead(r) PROVE IInv'
  BY <1>13 DEF CancelRead
<1>14. ASSUME NEW r \in Requests, CancelWrite(r) PROVE IInv'
  BY <1>14 DEF CancelWrite
<1>15. ASSUME NEW k \in Keys, PspSettles(k) PROVE IInv'
  BY <1>15 DEF PspSettles
<1>16. ASSUME NEW k \in Keys, TransferDone(k) PROVE IInv'
  BY <1>16 DEF TransferDone, Matches, DoneApplies, settle_ledger_entries, Rows
<1>17. ASSUME NEW k \in Keys, TransferFailed(k) PROVE IInv'
  BY <1>17 DEF TransferFailed, Matches, FailedApplies, reverse_ledger_entries, Rows
<1>18. CASE Crash
  BY <1>18 DEF Crash
<1>19. CASE UNCHANGED vars
  BY <1>19
<1>20. QED
  BY <1>1, <1>2, <1>3, <1>4, <1>5, <1>6, <1>7, <1>8, <1>9, <1>10, <1>11, <1>12, <1>13, <1>14, <1>15, <1>16, <1>17, <1>18, <1>19 DEF Next, Handle

LEMMA IInvAlways == Spec => []IInv
BY IInvInit, IInvStep, PTL DEF Spec

-----------------------------------------------------------------------------
(* The safety invariants.                                                  *)

\* The state of an account's payments is well formed for any requests.
THEOREM TypeCorrect == Spec => []TypeOK
<1>1. IInv => TypeOK
  BY DEF IInv
<1>2. QED
  BY <1>1, IInvAlways, PTL

\* Whatever webhooks are lost, repeated or reordered, whatever the endpoints
\* write in between: one debit for a settled entry, none for any other.
THEOREM DebitsMatchLedger == Spec => []DebitMatchesLedger
<1>1. IInv => DebitMatchesLedger
  BY DEF IInv
<1>2. QED
  BY <1>1, IInvAlways, PTL

\* No entry is settled or reversed without the PSP's verdict on the transfer.
THEOREM SettlementIsPaid == Spec => []SettledOnlyIfPaid
<1>1. IInv => SettledOnlyIfPaid
  BY DEF IInv
<1>2. QED
  BY <1>1, IInvAlways, PTL

\* Two debited rows have a transfer each: a debited row is settled, so it has
\* its own transfer, and the rows of the table have different keys.
THEOREM TransferDebitedOnce == Spec => []OneDebitPerTransfer
<1>1. ASSUME IInv, NEW r \in Requests, NEW q \in Requests,
             debits[r] > 0, debits[q] > 0, transfer[r] = transfer[q]
      PROVE  r = q
  <2>1. ledger[r] = "SETTLED" /\ ledger[q] = "SETTLED"
    BY <1>1 DEF IInv, DebitMatchesLedger
  <2>2. KeyOf[r] = transfer[r] /\ KeyOf[q] = transfer[q]
    BY <1>1, <2>1, RequestAssumption DEF IInv, SettledOnlyIfPaid, OwnTransfer
  <2>3. InTable(r) /\ InTable(q)
    BY <1>1, <2>1 DEF IInv, SettledOnlyIfPaid, InTable
  <2>4. QED
    BY <1>1, <2>2, <2>3 DEF IInv, KeysDiffer
<1>2. IInv => OneDebitPerTransfer
  BY <1>1 DEF OneDebitPerTransfer
<1>3. QED
  BY <1>2, IInvAlways, PTL

-----------------------------------------------------------------------------
(* The handlers implement OutboundSettlement.                              *)

LEMMA SettlementInit == Init => Settlement!Init
BY RequestAssumption DEF Init, Settlement!Init, VerdictsOf, ReservationOf

\* A handler that touches neither the entries nor the verdicts stutters.
LEMMA Stutters ==
  ASSUME UNCHANGED <<ledger, debits>>,
         \A k \in Keys : VerdictsOf(psp'[k]) = VerdictsOf(psp[k])
  PROVE  UNCHANGED Settlement!avars
BY DEF Settlement!avars

\* The PSP that accepts a transfer has given no verdict on it.
LEMMA AcceptGivesNoVerdict ==
  ASSUME TypeOK, NEW k \in Keys, Accept(k)
  PROVE  \A j \in Keys : VerdictsOf(psp'[j]) = VerdictsOf(psp[j])
BY DEF TypeOK, Accept, VerdictsOf, PspStates

LEMMA SettlementStep == IInv /\ [Next]_vars => [Settlement!Next]_(Settlement!avars)
<1> SUFFICES ASSUME IInv, [Next]_vars
             PROVE  Settlement!Next \/ UNCHANGED Settlement!avars
  OBVIOUS
<1> USE RequestAssumption
<1>t. TypeOK
  BY DEF IInv
<1>1. ASSUME NEW r \in Requests, CommitProcessing(r)
      PROVE  Settlement!Reserve(r)
  <2>1. ledger[r] = "NONE"
    BY <1>1 DEF IInv, UncommittedUnseen, CommitProcessing
  <2>2. QED
    BY <1>1, <1>t, <2>1
    DEF Settlement!Reserve, CommitProcessing, Unaffected, TypeOK, ReservationOf
<1>2. ASSUME NEW k \in Keys, PspSettles(k)
      PROVE  Settlement!Next
  <2>1. /\ VerdictsOf("ACCEPTED") = {}
        /\ VerdictsOf("DONE") = {"done"}
        /\ VerdictsOf("FAILED") = {"failed"}
        /\ VerdictsOf("REFUNDED") = {"done"} \cup {"failed"}
    BY DEF VerdictsOf
  <2>2. ledger' = ledger /\ debits' = debits /\ psp \in [Keys -> PspStates]
    BY <1>2, <1>t DEF PspSettles, Unaffected, rows, TypeOK
  <2>3. ASSUME NEW state \in PspStates, NEW v, psp' = [psp EXCEPT ![k] = state],
               v \notin VerdictsOf(psp[k]), v = "done" => VerdictsOf(psp[k]) = {},
               VerdictsOf(state) = VerdictsOf(psp[k]) \cup {v}
        PROVE  Settlement!Rule(k, v)
    <3>1. [j \in Keys |-> VerdictsOf(psp[j])]'
            = [[j \in Keys |-> VerdictsOf(psp[j])]
                 EXCEPT ![k] = VerdictsOf(psp[k]) \cup {v}]
      BY <2>2, <2>3
    <3>2. QED
      BY <2>2, <2>3, <3>1 DEF Settlement!Rule
  <2>4. CASE psp[k] = "ACCEPTED" /\ psp' = [psp EXCEPT ![k] = "DONE"]
    BY <2>1, <2>3, <2>4 DEF Settlement!Next, PspStates
  <2>5. CASE psp[k] = "ACCEPTED" /\ psp' = [psp EXCEPT ![k] = "FAILED"]
    BY <2>1, <2>3, <2>5 DEF Settlement!Next, PspStates
  <2>6. CASE psp[k] = "DONE" /\ psp' = [psp EXCEPT ![k] = "REFUNDED"]
    BY <2>1, <2>3, <2>6 DEF Settlement!Next, PspStates
  <2>7. QED
    BY <1>2, <2>4, <2>5, <2>6 DEF PspSettles
<1>3. ASSUME NEW k \in Keys, NEW r \in Requests, Matches(r, k), status[r] = "PROCESSING"
      PROVE  ledger[r] = "PENDING" /\ KeyOf[r] = k
  BY <1>3 DEF IInv, ReservedWhileProcessing, OwnTransfer, Matches
<1>4. ASSUME NEW k \in Keys, TransferDone(k)
      PROVE  Settlement!Next \/ UNCHANGED Settlement!avars
  <2>1. ASSUME NEW r \in Requests, Matches(r, k), DoneApplies(r),
               ledger' = [ledger EXCEPT ![r] = settle_ledger_entries(@)],
               debits' = [debits EXCEPT ![r] = @ + 1]
        PROVE  Settlement!Settle(r)
    <3>1. ledger[r] = "PENDING" /\ KeyOf[r] = k
      BY <1>3, <2>1 DEF DoneApplies
    <3>2. "done" \in VerdictsOf(psp[k]) /\ psp' = psp
      BY <1>4 DEF TransferDone, VerdictsOf
    <3>3. QED
      BY <2>1, <3>1, <3>2, <1>t
      DEF Settlement!Settle, settle_ledger_entries, ReservationOf, TypeOK
  <2>2. CASE UNCHANGED <<ledger, debits>>
    BY <1>4, <2>2, Stutters DEF TransferDone
  <2>3. QED
    BY <1>4, <2>1, <2>2 DEF TransferDone, Settlement!Next
<1>5. ASSUME NEW k \in Keys, TransferFailed(k)
      PROVE  Settlement!Next
  <2>1. PICK r \in Requests :
          /\ Matches(r, k) /\ FailedApplies(r)
          /\ ledger' = [ledger EXCEPT ![r] = reverse_ledger_entries(@)]
    BY <1>5 DEF TransferFailed
  <2>2. ledger[r] = "PENDING" /\ KeyOf[r] = k
    BY <1>3, <2>1 DEF FailedApplies
  <2>3. "failed" \in VerdictsOf(psp[k]) /\ psp' = psp /\ debits' = debits
    BY <1>5 DEF TransferFailed, VerdictsOf, Unaffected
  <2>4. Settlement!Reverse(r)
    BY <2>1, <2>2, <2>3, <1>t
    DEF Settlement!Reverse, reverse_ledger_entries, ReservationOf, TypeOK
  <2>5. QED
    BY <2>4 DEF Settlement!Next
<1>6. ASSUME NEW r \in Requests, Dispatch(r) \/ DispatchRaises(r)
      PROVE  UNCHANGED Settlement!avars
  <2>1. UNCHANGED <<ledger, debits>>
    BY <1>6 DEF Dispatch, DispatchRaises, rows, Unaffected
  <2>2. Accept(KeyOf[r]) \/ UNCHANGED psp
    BY <1>6 DEF Dispatch, DispatchRaises
  <2>3. QED
    BY <1>t, <2>1, <2>2, Stutters, AcceptGivesNoVerdict
<1>7. ASSUME NEW r \in Requests,
             \/ Authenticate(r) \/ AnswerWithoutRow(r) \/ Admit(r) \/ InsertRefused(r)
             \/ Insert(r) \/ QrShortAfterDispatch(r) \/ QrAmountUnknown(r)
             \/ ConfirmRead(r) \/ ConfirmWrite(r) \/ CancelRead(r) \/ CancelWrite(r)
      PROVE  UNCHANGED Settlement!avars
  <2>1. UNCHANGED <<ledger, debits, psp>>
    BY <1>7
    DEF Authenticate, AnswerWithoutRow, Admit, InsertRefused, Insert,
        QrShortAfterDispatch, QrAmountUnknown, ConfirmRead, ConfirmWrite,
        CancelRead, CancelWrite, rows, Unaffected
  <2>2. QED
    BY <2>1, Stutters
<1>8. ASSUME Crash \/ UNCHANGED vars
      PROVE  UNCHANGED Settlement!avars
  <2>1. UNCHANGED <<ledger, debits, psp>>
    BY <1>8 DEF Crash, vars, rows
  <2>2. QED
    BY <2>1, Stutters
<1>9. QED
  BY <1>1, <1>2, <1>4, <1>5, <1>6, <1>7, <1>8 DEF Next, Handle, Settlement!Next

\* Deferred debit is exactly-once settlement on the PSP's verdict.
THEOREM OutboundImplementsSettlement == Spec => ImplementsSettlement
BY SettlementInit, SettlementStep, IInvAlways, PTL
DEF Spec, ImplementsSettlement, Settlement!Spec
-----------------------------------------------------------------------------
(* Reserved money.  A sum over a finite set is the number of its units, each   *)
(* with the payment it belongs to: what FiniteSetTheorems says of             *)
(* cardinalities it then says of sums.  Induction over finite sets is the     *)
(* existence of a smallest counterexample.                                    *)

\* A family of subsets of a finite set has a smallest member.
LEMMA SmallestSubset ==
  ASSUME NEW S, IsFiniteSet(S), NEW Family, Family \subseteq SUBSET S, Family # {}
  PROVE  \E T \in Family : \A U \in Family : U \subseteq T => U = T
<1>1. IsWellFoundedOn(StrictSubsetOrdering(S), SUBSET S)
  BY FS_StrictSubsetOrderingWellFounded, FS_FiniteSubsetsOfFinite
<1>2. PICK T \in Family : \A U \in Family : <<U, T>> \notin StrictSubsetOrdering(S)
  BY <1>1, WFMin
<1>3. QED
  BY <1>2 DEF StrictSubsetOrdering

\* The units reserved by the payments in S.
Units(S) == {u \in S \X Nat : u[2] < Total[u[1]]}

\* One payment has as many units as its total.
LEMMA UnitsOfOne ==
  ASSUME NEW x \in Requests
  PROVE  /\ IsFiniteSet({x} \X (0 .. Total[x] - 1))
         /\ Cardinality({x} \X (0 .. Total[x] - 1)) = Total[x]
<1>1. Total[x] \in Nat
  BY RequestAssumption
<1>2. IsFiniteSet({x}) /\ Cardinality({x}) = 1
  BY FS_Singleton
<1>3. /\ IsFiniteSet(0 .. Total[x] - 1)
      /\ Cardinality(0 .. Total[x] - 1) = Total[x]
  BY <1>1, FS_Interval, SMTT(30)
<1>4. QED
  BY <1>1, <1>2, <1>3, FS_Product, SMTT(30)

\* The units of a payment are not those of another.
LEMMA UnitsSplit ==
  ASSUME NEW T \in SUBSET Requests, NEW x \in T, IsFiniteSet(Units(T \ {x}))
  PROVE  /\ IsFiniteSet(Units(T))
         /\ Cardinality(Units(T)) = Total[x] + Cardinality(Units(T \ {x}))
<1> DEFINE one == {x} \X (0 .. Total[x] - 1)
<1>1. Total[x] \in Nat
  BY RequestAssumption
<1>2. Units(T) = Units(T \ {x}) \cup one
  BY <1>1 DEF Units
<1>3. Units(T \ {x}) \cap one = {}
  BY DEF Units
<1>4. IsFiniteSet(one) /\ Cardinality(one) = Total[x]
  BY UnitsOfOne
<1>5. Cardinality(Units(T \ {x})) \in Nat
  BY FS_CardinalityType
<1>6. Cardinality({}) = 0
  BY FS_EmptySet
<1> HIDE DEF one
<1>7. /\ IsFiniteSet(Units(T \ {x}) \cup one)
      /\ Cardinality(Units(T \ {x}) \cup one)
           = Cardinality(Units(T \ {x})) + Cardinality(one)
               - Cardinality(Units(T \ {x}) \cap one)
  BY <1>4, FS_Union
<1>8. Cardinality(Units(T \ {x}) \cap one) = 0
  BY <1>3, <1>6
<1> HIDE DEF Units
<1>9. QED
  BY <1>1, <1>2, <1>4, <1>5, <1>7, <1>8

\* Finitely many payments have finitely many units.
LEMMA UnitsFinite ==
  ASSUME NEW S \in SUBSET Requests, IsFiniteSet(S)
  PROVE  IsFiniteSet(Units(S))
<1> DEFINE Infinite == {T \in SUBSET S : ~ IsFiniteSet(Units(T))}
<1> SUFFICES ASSUME Infinite # {} PROVE FALSE
  OBVIOUS
<1>1. PICK T \in Infinite : \A U \in Infinite : U \subseteq T => U = T
  <2>1. Infinite \subseteq SUBSET S
    OBVIOUS
  <2> HIDE DEF Infinite
  <2>2. QED
    BY <2>1, SmallestSubset
<1>2. T # {}
  <2>1. Units({}) = {}
    BY DEF Units
  <2>2. QED
    BY <2>1, FS_EmptySet
<1>3. PICK x \in T : TRUE
  BY <1>2
<1>4. IsFiniteSet(Units(T \ {x}))
  BY <1>1
<1>5. QED
  BY <1>4, UnitsSplit

\* The sum that get_available_balance subtracts.
Reserved(S) == MapThenSumSet(LAMBDA r : Total[r], S)

\* The fold over S is well defined, and counts the units.
LEMMA ReservedIsUnits ==
  ASSUME NEW S \in SUBSET Requests, IsFiniteSet(S)
  PROVE  Reserved(S) = Cardinality(Units(S))
<1> DEFINE one(T) == CHOOSE x \in T : TRUE
           Sums(f) == f = [T \in SUBSET S |->
                             IF T = {} THEN 0 ELSE Total[one(T)] + f[T \ {one(T)}]]
           sum == CHOOSE f : Sums(f)
           count == [T \in SUBSET S |-> Cardinality(Units(T))]
<1>1. Reserved(S) = sum[S]
  BY DEF Reserved, MapThenSumSet, MapThenFoldSet
<1>2. \A T \in SUBSET S : T # {} => one(T) \in T
  OBVIOUS
<1>3. \A T \in SUBSET S : IsFiniteSet(Units(T))
  BY UnitsFinite, FS_Subset
<1>4. Cardinality(Units({})) = 0
  BY FS_EmptySet DEF Units
<1>5. ASSUME NEW T \in SUBSET S, T # {}
      PROVE  count[T] = Total[one(T)] + count[T \ {one(T)}]
  <2> HIDE DEF one
  <2>1. one(T) \in T
    BY <1>2, <1>5
  <2>2. Cardinality(Units(T)) = Total[one(T)] + Cardinality(Units(T \ {one(T)}))
    BY <2>1, <1>3, UnitsSplit
  <2>3. QED
    BY <2>2
<1>6. Sums(count)
  <2> HIDE DEF one
  <2>1. count[{}] = 0
    BY <1>4
  <2>2. QED
    BY <2>1, <1>5
<1>7. Sums(sum)
  <2> HIDE DEF Sums, count
  <2>1. QED
    BY <1>6
<1> HIDE DEF one, sum
<1> DEFINE Wrong == {T \in SUBSET S : sum[T] # count[T]}
<1>8. Wrong = {}
  <2> SUFFICES ASSUME Wrong # {} PROVE FALSE
    OBVIOUS
  <2>1. PICK T \in Wrong : \A U \in Wrong : U \subseteq T => U = T
    <3>1. Wrong \subseteq SUBSET S
      OBVIOUS
    <3> HIDE DEF Wrong
    <3>2. QED
      BY <3>1, SmallestSubset
  <2>2. T # {}
    <3>1. count[{}] = 0 /\ sum[{}] = 0
      BY <1>4, <1>7
    <3>2. QED
      BY <2>1, <3>1
  <2>3. sum[T \ {one(T)}] = count[T \ {one(T)}]
    <3>1. one(T) \in T
      BY <1>2, <2>2
    <3>2. T \ {one(T)} # T /\ T \ {one(T)} \in SUBSET S
      BY <3>1
    <3>3. T \ {one(T)} \notin Wrong
      BY <2>1, <3>2
    <3>4. QED
      BY <3>2, <3>3
  <2>4. QED
    BY <1>5, <1>7, <2>2, <2>3
<1>9. QED
  BY <1>1, <1>8

\* What finitely many payments reserve is a number.
LEMMA ReservedType ==
  ASSUME NEW S \in SUBSET Requests, IsFiniteSet(S)
  PROVE  Reserved(S) \in Nat
BY UnitsFinite, ReservedIsUnits, FS_CardinalityType

\* More payments reserve no less.
LEMMA ReservedGrows ==
  ASSUME NEW S \in SUBSET Requests, IsFiniteSet(S), NEW T \in SUBSET S
  PROVE  Reserved(T) <= Reserved(S)
<1>1. Units(T) \subseteq Units(S)
  BY DEF Units
<1>2. IsFiniteSet(T)
  BY FS_Subset
<1>3. QED
  BY <1>1, <1>2, UnitsFinite, ReservedIsUnits, FS_Subset

\* Each payment contributes its total.
LEMMA ReservedSplit ==
  ASSUME NEW S \in SUBSET Requests, IsFiniteSet(S), NEW x \in S
  PROVE  Reserved(S) = Total[x] + Reserved(S \ {x})
<1>1. IsFiniteSet(S \ {x})
  BY FS_Subset
<1>2. QED
  BY <1>1, UnitsFinite, UnitsSplit, ReservedIsUnits

-----------------------------------------------------------------------------
(* The reservation, when requests do not overlap.                            *)

\* The payments that await their webhook.
Pending == {r \in Rows : status[r] = "PROCESSING"}

\* The available balance is what the pending payments leave, before a step.
LEMMA AvailableBalance ==
  ASSUME NEW saldo
  PROVE  get_available_balance(saldo) = saldo - Reserved(Pending)
BY DEF get_available_balance, Reserved, Pending

\* And after it.
LEMMA AvailableBalanceNext ==
  get_available_balance(balance)' = balance' - Reserved(Pending')
<1>1. get_available_balance(balance) = balance - Reserved(Pending)
  BY AvailableBalance
<1>2. (get_available_balance(balance) = balance - Reserved(Pending))'
  BY <1>1, PTL
<1>3. QED
  BY <1>2

\* Between the check of the funds and the commit.
Deciding(r) == pc[r] \in {"checked", "flushed", "dispatched"}

\* While no session overlapped another, the one that is open has the balance
\* of now, and a transfer to a key that was admitted is still affordable.
Afforded ==
  /\ \A r, q \in InFlight : r = q
  /\ \A r \in InFlight : seen[r] = balance
  /\ \A r \in Requests :
       Deciding(r) /\ ~IsQr(r) /\ r \notin Scheduled
         => get_available_balance(balance) >= Total[r]
  /\ get_available_balance(balance) >= 0

\* Scheduled requests are answered when they are inserted.
SInv ==
  /\ IsFiniteSet(Pending)
  /\ \A r \in Scheduled : pc[r] \notin {"flushed", "dispatched"}
  /\ ~overlapped => Afforded

\* Nothing is reserved at the start.
LEMMA SInvInit ==
  ASSUME Deposit >= 0
  PROVE  Init => SInv
<1> SUFFICES ASSUME Init PROVE SInv
  OBVIOUS
<1>1. Pending = {} /\ InFlight = {}
  BY DEF Init, Pending, Rows, InFlight
<1>2. IsFiniteSet({}) /\ Reserved({}) = 0
  <2>1. Units({}) = {}
    BY DEF Units
  <2>2. QED
    BY <2>1, FS_EmptySet, ReservedIsUnits
<1>3. get_available_balance(balance) >= 0
  BY <1>1, <1>2, AvailableBalance, RequestAssumption DEF Init
<1>4. QED
  BY <1>1, <1>2, <1>3, RequestAssumption DEF SInv, Afforded, Init, Deciding

\* A step that adds no pending payment leaves at least as much to spend.
LEMMA NothingReserved ==
  ASSUME IInv, SInv, Pending' \subseteq Pending, balance' = balance
  PROVE  /\ IsFiniteSet(Pending')
         /\ get_available_balance(balance)' >= get_available_balance(balance)
         /\ get_available_balance(balance) \in Int
         /\ get_available_balance(balance)' \in Int
<1>1. Pending \subseteq Requests /\ IsFiniteSet(Pending)
  BY DEF SInv, Pending, Rows
<1>2. IsFiniteSet(Pending')
  BY <1>1, FS_Subset
<1>3. Reserved(Pending') <= Reserved(Pending)
  BY <1>1, ReservedGrows
<1>4. Reserved(Pending) \in Nat /\ Reserved(Pending') \in Nat
  BY <1>1, <1>2, ReservedType
<1>5. balance \in Int
  BY DEF IInv, TypeOK
<1>6. QED
  BY <1>2, <1>3, <1>4, <1>5, AvailableBalance, AvailableBalanceNext

\* Between two requests, and in the one that is open, what was checked holds.
LEMMA SInvStep == IInv /\ IInv' /\ SInv /\ [Next]_vars => SInv'
<1> SUFFICES ASSUME IInv, IInv', SInv, [Next]_vars PROVE SInv'
  OBVIOUS
<1> USE RequestAssumption
<1>t. TypeOK /\ TypeOK' /\ balance \in Int
  BY DEF IInv, TypeOK
<1>a. ASSUME Pending' \subseteq Pending, balance' = balance,
             \A r \in InFlight' : r \in InFlight /\ seen'[r] = seen[r],
             \A r \in Requests : pc'[r] \in {"flushed", "dispatched"} =>
               \/ pc[r] \in {"flushed", "dispatched"}
               \/ pc[r] = "checked" /\ r \notin Scheduled,
             ~overlapped' => ~overlapped,
             \A r \in Requests : Deciding(r)' /\ ~IsQr(r) /\ r \notin Scheduled =>
               Deciding(r) \/ get_available_balance(balance) >= Total[r]
      PROVE  SInv'
  <2>1. /\ IsFiniteSet(Pending')
        /\ get_available_balance(balance)' >= get_available_balance(balance)
        /\ get_available_balance(balance) \in Int
        /\ get_available_balance(balance)' \in Int
    BY <1>a, NothingReserved
  <2>2. \A r \in Scheduled : pc'[r] \notin {"flushed", "dispatched"}
    BY <1>a DEF SInv
  <2>3. ASSUME ~overlapped' PROVE Afforded'
    <3>1. Afforded
      BY <1>a, <2>3 DEF SInv
    <3>2. \A r \in Requests : Total[r] \in Int
      OBVIOUS
    <3>3. \A r \in Requests : Deciding(r)' /\ ~IsQr(r) /\ r \notin Scheduled =>
            get_available_balance(balance)' >= Total[r]
      BY <1>a, <2>1, <3>1, <3>2 DEF Afforded
    <3>4. QED
      BY <1>a, <2>1, <3>1, <3>3 DEF Afforded, IsQr
  <2>4. QED
    BY <2>1, <2>2, <2>3 DEF SInv
<1>1. ASSUME NEW r \in Requests, Authenticate(r) PROVE SInv'
  <2>1. Pending' = Pending /\ balance' = balance
    BY <1>1 DEF Authenticate, Pending, Rows, rows
  <2>2. get_available_balance(balance)' = get_available_balance(balance)
    BY <2>1, AvailableBalance, AvailableBalanceNext
  <2>3. \A q \in Requests : Deciding(q)' <=> Deciding(q)
    BY <1>1, <1>t DEF Authenticate, Deciding, TypeOK
  <2>4. ASSUME ~overlapped' PROVE Afforded'
    <3>1. InFlight = {} /\ Afforded
      BY <1>1, <2>4 DEF Authenticate, SInv
    <3>2. InFlight' = {r}
      BY <1>1, <1>t, <3>1 DEF Authenticate, InFlight, TypeOK
    <3>3. seen'[r] = balance'
      BY <1>1, <1>t DEF Authenticate, TypeOK
    <3>4. QED
      BY <2>1, <2>2, <2>3, <3>1, <3>2, <3>3 DEF Afforded, IsQr
  <2>5. QED
    BY <1>1, <1>t, <2>1, <2>4 DEF SInv, Authenticate, TypeOK
<1>2. ASSUME NEW r \in Requests, AnswerWithoutRow(r) PROVE SInv'
  BY <1>2, <1>a, <1>t
  DEF AnswerWithoutRow, Answer, Unaffected, rows, Pending, Rows, InFlight, Deciding, TypeOK
<1>3. ASSUME NEW r \in Requests, Admit(r) PROVE SInv'
  <2>1. r \in InFlight
    BY <1>3 DEF Admit, InFlight
  <2>2. Pending' = Pending /\ balance' = balance /\ overlapped' = overlapped /\ seen' = seen
    BY <1>3 DEF Admit, Goto, Unaffected, Pending, Rows, rows
  <2>3. InFlight' = InFlight
    BY <1>3, <1>t DEF Admit, Goto, InFlight, TypeOK
  <2>4. get_available_balance(balance)' = get_available_balance(balance)
    BY <2>2, AvailableBalance, AvailableBalanceNext
  <2>5. \A q \in Requests \ {r} : Deciding(q)' <=> Deciding(q)
    BY <1>3, <1>t DEF Admit, Goto, Deciding, TypeOK
  <2>6. ~IsQr(r) /\ r \notin Scheduled => get_available_balance(seen[r]) >= Total[r]
    BY <1>3 DEF Admit, HasFunds, IsQr
  <2>7. ASSUME ~overlapped' PROVE Afforded'
    <3>1. Afforded /\ seen[r] = balance
      BY <2>1, <2>2, <2>7 DEF SInv, Afforded
    <3>2. QED
      BY <2>2, <2>3, <2>4, <2>5, <2>6, <3>1 DEF Afforded, IsQr
  <2>8. QED
    BY <1>3, <1>t, <2>2, <2>7 DEF SInv, Admit, Goto, TypeOK
<1>4. ASSUME NEW r \in Requests, InsertRefused(r) PROVE SInv'
  BY <1>4, <1>a, <1>t
  DEF InsertRefused, Answer, Unaffected, rows, Pending, Rows, InFlight, Deciding, TypeOK
<1>5. ASSUME NEW r \in Requests, Insert(r) PROVE SInv'
  BY <1>5, <1>a, <1>t
  DEF Insert, Answer, Goto, Unaffected, rows, Pending, Rows, InFlight, Deciding, TypeOK
<1>6. ASSUME NEW r \in Requests, Dispatch(r) PROVE SInv'
  BY <1>6, <1>a, <1>t
  DEF Dispatch, Goto, Unaffected, rows, Pending, Rows, InFlight, Deciding, TypeOK
<1>7. ASSUME NEW r \in Requests, DispatchRaises(r) PROVE SInv'
  BY <1>7, <1>a, <1>t
  DEF DispatchRaises, Answer, Unaffected, rows, Pending, Rows, InFlight, Deciding, TypeOK
<1>8. ASSUME NEW r \in Requests, CommitProcessing(r) PROVE SInv'
  <2>1. r \in InFlight /\ r \notin Pending /\ Deciding(r) /\ r \notin Scheduled
    BY <1>8 DEF CommitProcessing, InFlight, Pending, Deciding, SInv, IInv, UncommittedUnseen
  <2>2. /\ Pending' = Pending \cup {r} /\ balance' = balance
        /\ overlapped' = overlapped
    BY <1>8, <1>t DEF CommitProcessing, Unaffected, Pending, Rows, TypeOK
  <2>3. IsFiniteSet(Pending) /\ IsFiniteSet(Pending')
    BY <2>2, FS_AddElement DEF SInv
  <2>4. Reserved(Pending') = Total[r] + Reserved(Pending)
    <3>1. Pending' \ {r} = Pending /\ Pending' \subseteq Requests /\ r \in Pending'
      BY <2>1, <2>2 DEF Pending, Rows
    <3>2. QED
      BY <2>3, <3>1, ReservedSplit
  <2>5. Reserved(Pending) \in Nat
    BY <2>3, ReservedType DEF Pending, Rows
  <2>6. \A q \in Requests : pc'[q] = IF q = r THEN "answered" ELSE pc[q]
    BY <1>8, <1>t DEF CommitProcessing, Answer, TypeOK
  <2>7. ASSUME ~overlapped' PROVE Afforded'
    <3>1. Afforded /\ InFlight = {r} /\ seen[r] = balance
      BY <2>1, <2>2, <2>7 DEF SInv, Afforded
    <3>2. get_available_balance(balance) >= Total[r]
      BY <1>8, <2>1, <3>1 DEF CommitProcessing, HasFunds, Afforded
    <3>3. get_available_balance(balance)' >= 0
      BY <1>t, <2>2, <2>4, <2>5, <3>2, AvailableBalance, AvailableBalanceNext
    <3>4. InFlight' = {} /\ \A q \in Requests : ~Deciding(q)'
      BY <2>6, <3>1 DEF InFlight, Deciding
    <3>5. QED
      BY <3>3, <3>4 DEF Afforded
  <2>8. QED
    BY <2>3, <2>6, <2>7 DEF SInv
<1>9. ASSUME NEW r \in Requests, QrShortAfterDispatch(r) PROVE SInv'
  BY <1>9, <1>a, <1>t
  DEF QrShortAfterDispatch, Answer, Unaffected, rows, Pending, Rows, InFlight, Deciding, TypeOK
<1>10. ASSUME NEW r \in Requests, QrAmountUnknown(r) PROVE SInv'
  BY <1>10, <1>a, <1>t
  DEF QrAmountUnknown, Answer, Unaffected, rows, Pending, Rows, InFlight, Deciding, TypeOK
<1>11. ASSUME NEW r \in Requests, ConfirmRead(r) PROVE SInv'
  BY <1>11, <1>a, <1>t
  DEF ConfirmRead, session, rows, Pending, Rows, InFlight, Deciding, TypeOK
<1>12. ASSUME NEW r \in Requests, ConfirmWrite(r) PROVE SInv'
  BY <1>12, <1>a, <1>t
  DEF ConfirmWrite, session, rows, Pending, Rows, InFlight, Deciding, TypeOK
<1>13. ASSUME NEW r \in Requests, CancelRead(r) PROVE SInv'
  BY <1>13, <1>a, <1>t
  DEF CancelRead, session, rows, Pending, Rows, InFlight, Deciding, TypeOK
<1>14. ASSUME NEW r \in Requests, CancelWrite(r) PROVE SInv'
  BY <1>14, <1>a, <1>t
  DEF CancelWrite, session, rows, Pending, Rows, InFlight, Deciding, TypeOK
<1>15. ASSUME NEW k \in Keys, PspSettles(k) PROVE SInv'
  BY <1>15, <1>a, <1>t
  DEF PspSettles, Unaffected, session, rows, Pending, Rows, InFlight, Deciding, TypeOK
<1>16. ASSUME NEW k \in Keys, TransferDone(k) PROVE SInv'
  <2>1. CASE UNCHANGED <<status, balance>>
    BY <1>16, <2>1, <1>a, <1>t
    DEF TransferDone, session, Pending, Rows, InFlight, Deciding, TypeOK
  <2>2. ASSUME NEW r \in Requests, Matches(r, k), DoneApplies(r),
               status' = [status EXCEPT ![r] = "CONFIRMED"], balance' = balance - Total[r]
        PROVE  SInv'
    <3>1. r \in Pending /\ Pending' = Pending \ {r} /\ Pending \subseteq Requests
      BY <2>2, <1>t DEF Matches, DoneApplies, Pending, Rows, TypeOK
    <3>2. IsFiniteSet(Pending) /\ IsFiniteSet(Pending')
      BY <3>1, FS_Subset DEF SInv
    <3>3. Reserved(Pending) = Total[r] + Reserved(Pending')
      BY <3>1, <3>2, ReservedSplit
    <3>4. Reserved(Pending) \in Nat /\ Reserved(Pending') \in Nat
      BY <3>1, <3>2, ReservedType
    <3>5. get_available_balance(balance)' = get_available_balance(balance)
      BY <1>t, <2>2, <3>3, <3>4, AvailableBalance, AvailableBalanceNext
    <3>6. pc' = pc /\ seen' = seen
      BY <1>16 DEF TransferDone, session
    <3>7. ASSUME ~overlapped' PROVE Afforded'
      <4>1. Afforded /\ (InFlight = {} \/ balance' = balance)
        BY <1>16, <3>7 DEF TransferDone, SInv
      <4>2. QED
        BY <3>5, <3>6, <4>1 DEF Afforded, InFlight, Deciding, IsQr
    <3>8. QED
      BY <3>2, <3>6, <3>7 DEF SInv
  <2>3. QED
    BY <1>16, <2>1, <2>2 DEF TransferDone
<1>17. ASSUME NEW k \in Keys, TransferFailed(k) PROVE SInv'
  BY <1>17, <1>a, <1>t
  DEF TransferFailed, Unaffected, session, Pending, Rows, InFlight, Deciding, TypeOK
<1>18. CASE Crash
  BY <1>18, <1>a, <1>t DEF Crash, rows, Pending, Rows, InFlight, Deciding, TypeOK
<1>19. CASE UNCHANGED vars
  BY <1>19, <1>a DEF vars, session, rows, Pending, Rows, InFlight, Deciding
<1>20. QED
  BY <1>1, <1>2, <1>3, <1>4, <1>5, <1>6, <1>7, <1>8, <1>9, <1>10, <1>11, <1>12,
     <1>13, <1>14, <1>15, <1>16, <1>17, <1>18, <1>19 DEF Next, Handle

\* For any requests, totals and deposits, any number of crashes, lost answers and
\* refunds: as long as no session overlaps another and no webhook debits under an
\* open one, the pending payments never reserve more than the account has.
THEOREM ReservedIsThere ==
  ASSUME Deposit >= 0
  PROVE  Spec => []SpendableNonNegative
<1>1. SInv => SpendableNonNegative
  BY DEF SInv, Afforded, SpendableNonNegative
<1>2. Init => SInv
  BY SInvInit
<1>3. QED
  BY <1>1, <1>2, IInvAlways, SInvStep, PTL DEF Spec
=============================================================================
