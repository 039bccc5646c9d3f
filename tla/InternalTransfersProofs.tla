------------------------ MODULE InternalTransfersProofs ------------------------
(***************************************************************************)
(* Proofs about InternalTransfers, for any accounts, requests and values.  *)
(*                                                                         *)
(* A commit writes sums of the copies in its session, so what is to hold   *)
(* of balances must hold of every copy that may be written: CopiesBounded. *)
(* The bounds only widen (debited, credited and drawn never shrink), which *)
(* is why a copy stays within them however long the session keeps it.      *)
(***************************************************************************)
EXTENDS InternalTransfers, TLAPS

\* A session has the copies that its commit will write.
Holds(r, a) ==
  \/ pc[r] = "loaded" /\ a \in Touched(r)
  \/ pc[r] = "authenticated" /\ Authenticated(r, a)

CopyBounded(r, a) ==
  /\ copy[r][a] <= Opening[a] + credited[a]
  /\ copy[r][a] >= Opening[a] - debited[a]
  /\ copy[r][a] >= -drawn[a]

CopiesBounded ==
  \A r \in Requests, a \in Accounts : Holds(r, a) => CopyBounded(r, a)

\* Whoever will be debited was found to have the money, in the copy that the
\* commit writes.
FundsChecked == \A r \in Requests : pc[r] = "loaded" => HasFunds(r, copy[r])

IInv ==
  /\ TypeOK
  /\ BalanceWithinHistory
  /\ OverdrawnByWebhooksOnly
  /\ CopiesBounded
  /\ FundsChecked
  /\ OneTransferPerKey

-----------------------------------------------------------------------------
\* What a request takes from an account and gives to it is not negative.
LEMMA AmountsType ==
  ASSUME NEW r \in Requests, NEW a \in Accounts
  PROVE  /\ FeeOf(r) \in Nat
         /\ Debit(r, a) \in Nat
         /\ Credit(r, a) \in Nat
  BY TransferAssumption DEF FeeOf, Debit, Credit

\* The sum a commit writes keeps the bounds, widened by what it books; only a
\* webhook debits more than it found.
LEMMA WrittenBounded ==
  ASSUME IInv, NEW r \in Requests, NEW a \in Accounts,
         pc[r] = "loaded", a \in Touched(r)
  PROVE  /\ Written(r, a) \in Int
         /\ Written(r, a) <= Opening[a] + credited[a] + Credit(r, a)
         /\ Written(r, a) >= Opening[a] - debited[a] - Debit(r, a)
         /\ Route[r] = "webhook" => Written(r, a) >= -drawn[a] - Debit(r, a)
         /\ Route[r] # "webhook" => Written(r, a) >= -drawn[a]
<1>1. /\ copy[r][a] \in Int /\ Opening[a] \in Nat
      /\ credited[a] \in Nat /\ debited[a] \in Nat /\ drawn[a] \in Nat
  BY TransferAssumption DEF IInv, TypeOK
<1>2. CopyBounded(r, a)
  BY DEF IInv, CopiesBounded, Holds
<1>3. Debit(r, a) \in Nat /\ Credit(r, a) \in Nat
  BY AmountsType
<1>4. ASSUME Route[r] # "webhook", Debit(r, a) > 0
      PROVE  copy[r][a] >= Debit(r, a)
  <2>1. a = Payer[r] /\ Route[r] # "deposit" /\ ~SelfDeposit(r)
    BY <1>4 DEF Debit
  <2>2. Route[r] \in {"key", "charge", "matrix"}
    BY <1>4, <2>1, TransferAssumption DEF Routes
  <2>3. HasFunds(r, copy[r])
    BY DEF IInv, FundsChecked
  <2> QED
    BY <2>1, <2>2, <2>3 DEF HasFunds, Debit
<1> QED
  BY <1>1, <1>2, <1>3, <1>4 DEF Written, CopyBounded

LEMMA InitIInv == Init => IInv
<1> SUFFICES ASSUME Init PROVE IInv
  OBVIOUS
<1>1. \A a \in Accounts : Opening[a] \in Nat
  BY TransferAssumption
<1>2. TypeOK
  BY TransferAssumption DEF Init, TypeOK, Closed
<1>3. BalanceWithinHistory /\ OverdrawnByWebhooksOnly
  BY <1>1 DEF Init, Closed, BalanceWithinHistory, OverdrawnByWebhooksOnly
<1>4. CopiesBounded /\ FundsChecked /\ OneTransferPerKey
  BY DEF Init, CopiesBounded, Holds, FundsChecked, OneTransferPerKey, Done
<1> QED
  BY <1>2, <1>3, <1>4 DEF IInv

-----------------------------------------------------------------------------
\* A step that changes one session only, and the copies of that session to
\* bounded ones, keeps the invariant.
LEMMA SessionStep ==
  ASSUME IInv, NEW r \in Requests,
         UNCHANGED <<balance, history>>,
         TypeOK',
         Done' = Done,
         \A s \in Requests \ {r} : pc'[s] = pc[s] /\ copy'[s] = copy[s],
         \A a \in Accounts : Holds(r, a)' => CopyBounded(r, a)',
         pc'[r] = "loaded" => HasFunds(r, copy'[r])
  PROVE  IInv'
<1>1. BalanceWithinHistory' /\ OverdrawnByWebhooksOnly'
  BY DEF IInv, BalanceWithinHistory, OverdrawnByWebhooksOnly, history
<1>2. CopiesBounded'
  <2> SUFFICES ASSUME NEW s \in Requests, NEW a \in Accounts, Holds(s, a)'
               PROVE  CopyBounded(s, a)'
    BY DEF CopiesBounded
  <2>1. CASE s = r
    BY <2>1
  <2>2. CASE s # r
    <3>1. pc'[s] = pc[s] /\ copy'[s] = copy[s]
      BY <2>2
    <3>2. Holds(s, a)
      BY <3>1 DEF Holds, Touched, Authenticated, Debit, Credit, FeeOf, SelfDeposit
    <3>3. CopyBounded(s, a)
      BY <3>2 DEF IInv, CopiesBounded
    <3> QED
      BY <3>1, <3>3 DEF CopyBounded, history
  <2> QED
    BY <2>1, <2>2
<1>3. FundsChecked'
  <2> SUFFICES ASSUME NEW s \in Requests, pc'[s] = "loaded"
               PROVE  HasFunds(s, copy'[s])
    BY DEF FundsChecked, HasFunds, FeeOf, SelfDeposit
  <2> QED
    BY DEF IInv, FundsChecked
<1>4. OneTransferPerKey'
  BY DEF IInv, OneTransferPerKey, Entries, SelfDeposit
<1> QED
  BY <1>1, <1>2, <1>3, <1>4 DEF IInv

\* Ending a request without a commit.
LEMMA CloseKeepsIInv ==
  ASSUME IInv, NEW r \in Requests, pc[r] # "done",
         CloseSession(r, "idle"), UNCHANGED <<balance, history>>
  PROVE  IInv'
<1> USE DEF CloseSession
<1>1. pc \in [Requests -> {"idle", "authenticated", "loaded", "done"}]
      /\ copy \in [Requests -> [Accounts -> Int]]
  BY DEF IInv, TypeOK
<1>2. pc'[r] = "idle" /\ copy'[r] = Closed
  BY <1>1
<1>3. \A s \in Requests \ {r} : pc'[s] = pc[s] /\ copy'[s] = copy[s]
  BY <1>1
<1>4. TypeOK'
  <2>1. Closed \in [Accounts -> Int]
    BY DEF Closed
  <2> QED
    BY <1>2, <1>3, <2>1 DEF IInv, TypeOK, history
<1>5. Done' = Done
  BY <1>2, <1>3 DEF Done
<1>6. \A a \in Accounts : ~Holds(r, a)'
  BY <1>2 DEF Holds
<1> QED
  BY <1>2, <1>3, <1>4, <1>5, <1>6, SessionStep

\* A commit writes every account it touches within the widened bounds, and
\* widens them for all copies of other sessions.
LEMMA CommitKeepsIInv ==
  ASSUME IInv, NEW r \in Requests, Commit(r)
  PROVE  IInv'
<1>1. /\ balance \in [Accounts -> Int]
      /\ pc \in [Requests -> {"idle", "authenticated", "loaded", "done"}]
      /\ copy \in [Requests -> [Accounts -> Int]]
      /\ debited \in [Accounts -> Nat] /\ credited \in [Accounts -> Nat]
      /\ drawn \in [Accounts -> Nat]
  BY DEF IInv, TypeOK
<1>2. pc[r] = "loaded" /\ ~IndexRefuses(r)
  BY DEF Commit
<1>3. /\ pc' = [pc EXCEPT ![r] = "done"]
      /\ copy' = [copy EXCEPT ![r] = Closed]
  BY DEF Commit, CloseSession
<1>4. /\ pc'[r] = "done" /\ copy'[r] = Closed
      /\ \A s \in Requests \ {r} : pc'[s] = pc[s] /\ copy'[s] = copy[s]
  BY <1>1, <1>3
<1>5. ASSUME NEW a \in Accounts
      PROVE  /\ Debit(r, a) \in Nat /\ Credit(r, a) \in Nat
             /\ balance'[a] = IF a \in Touched(r) THEN Written(r, a) ELSE balance[a]
             /\ debited'[a] = debited[a] + Debit(r, a)
             /\ credited'[a] = credited[a] + Credit(r, a)
             /\ drawn'[a] = IF Route[r] = "webhook" THEN drawn[a] + Debit(r, a) ELSE drawn[a]
  BY AmountsType DEF Commit
<1>6. TypeOK'
  <2>1. \A a \in Accounts : a \in Touched(r) => Written(r, a) \in Int
    BY <1>2, WrittenBounded
  <2>2. balance' \in [Accounts -> Int]
    BY <1>1, <2>1 DEF Commit
  <2>3. /\ debited' \in [Accounts -> Nat] /\ credited' \in [Accounts -> Nat]
        /\ drawn' \in [Accounts -> Nat]
    BY <1>1, AmountsType DEF Commit
  <2>4. Closed \in [Accounts -> Int]
    BY DEF Closed
  <2>5. pc' \in [Requests -> {"idle", "authenticated", "loaded", "done"}]
        /\ copy' \in [Requests -> [Accounts -> Int]]
    BY <1>1, <1>3, <2>4
  <2>6. \A s \in Requests : pc'[s] \notin {"authenticated", "loaded"} => copy'[s] = Closed
    BY <1>4 DEF IInv, TypeOK
  <2> QED
    BY <2>2, <2>3, <2>5, <2>6 DEF TypeOK
<1>7. BalanceWithinHistory'
  <2> SUFFICES ASSUME NEW a \in Accounts
               PROVE  /\ balance'[a] <= Opening[a] + credited'[a]
                      /\ balance'[a] >= Opening[a] - debited'[a]
    BY DEF BalanceWithinHistory
  <2>1. CASE a \in Touched(r)
    BY <1>1, <1>2, <1>5, <2>1, WrittenBounded, TransferAssumption
  <2>2. CASE a \notin Touched(r)
    BY <1>1, <1>5, <2>2, TransferAssumption DEF IInv, BalanceWithinHistory
  <2> QED
    BY <2>1, <2>2
<1>8. OverdrawnByWebhooksOnly'
  <2> SUFFICES ASSUME NEW a \in Accounts PROVE balance'[a] >= -drawn'[a]
    BY DEF OverdrawnByWebhooksOnly
  <2>1. CASE a \in Touched(r)
    BY <1>1, <1>2, <1>5, <2>1, WrittenBounded
  <2>2. CASE a \notin Touched(r)
    BY <1>1, <1>5, <2>2 DEF IInv, OverdrawnByWebhooksOnly
  <2> QED
    BY <2>1, <2>2
<1>9. CopiesBounded'
  <2> SUFFICES ASSUME NEW s \in Requests, NEW a \in Accounts, Holds(s, a)'
               PROVE  CopyBounded(s, a)'
    BY DEF CopiesBounded
  <2>1. s # r
    BY <1>4 DEF Holds
  <2>2. pc'[s] = pc[s] /\ copy'[s] = copy[s]
    BY <1>4, <2>1
  <2>3. Holds(s, a)
    BY <2>2 DEF Holds, Touched, Authenticated, Debit, Credit, FeeOf, SelfDeposit
  <2>4. CopyBounded(s, a)
    BY <2>3 DEF IInv, CopiesBounded
  <2> QED
    BY <1>1, <1>5, <2>2, <2>4, TransferAssumption DEF CopyBounded
<1>10. FundsChecked'
  <2> SUFFICES ASSUME NEW s \in Requests, pc'[s] = "loaded"
               PROVE  HasFunds(s, copy'[s])
    BY DEF FundsChecked, HasFunds, FeeOf, SelfDeposit
  <2>1. pc[s] = "loaded" /\ copy'[s] = copy[s]
    BY <1>4
  <2> QED
    BY <2>1 DEF IInv, FundsChecked
<1>11. OneTransferPerKey'
  <2>1. Done' = Done \cup {r}
    BY <1>2, <1>4 DEF Done
  <2>2. \A s \in Done : Entries(r) \cap Entries(s) = {}
    BY <1>2 DEF IndexRefuses, Index
  <2>3. \A s, t \in Done' : s # t => Entries(s) \cap Entries(t) = {}
    BY <2>1, <2>2 DEF IInv, OneTransferPerKey
  <2> QED
    BY <2>3 DEF OneTransferPerKey, Entries, SelfDeposit
<1> QED
  BY <1>6, <1>7, <1>8, <1>9, <1>10, <1>11 DEF IInv

LEMMA NextIInv == IInv /\ [Next]_vars => IInv'
<1> SUFFICES ASSUME IInv, [Next]_vars PROVE IInv'
  OBVIOUS
<1>1. /\ balance \in [Accounts -> Int]
      /\ pc \in [Requests -> {"idle", "authenticated", "loaded", "done"}]
      /\ copy \in [Requests -> [Accounts -> Int]]
  BY DEF IInv, TypeOK
<1>2. ASSUME NEW r \in Requests, NEW a \in Accounts
      PROVE  /\ balance[a] <= Opening[a] + credited[a]
             /\ balance[a] >= Opening[a] - debited[a]
             /\ balance[a] >= -drawn[a]
  BY DEF IInv, BalanceWithinHistory, OverdrawnByWebhooksOnly
<1>3. ASSUME NEW r \in Requests, Authenticate(r) PROVE IInv'
  <2>1. /\ pc[r] = "idle"
        /\ pc' = [pc EXCEPT ![r] = "authenticated"]
        /\ copy' = [copy EXCEPT ![r] =
                      [a \in Accounts |-> IF Authenticated(r, a) THEN balance[a] ELSE 0]]
        /\ UNCHANGED <<balance, history>>
    BY <1>3 DEF Authenticate
  <2>2. /\ pc'[r] = "authenticated"
        /\ copy'[r] = [a \in Accounts |-> IF Authenticated(r, a) THEN balance[a] ELSE 0]
        /\ \A s \in Requests \ {r} : pc'[s] = pc[s] /\ copy'[s] = copy[s]
    BY <1>1, <2>1
  <2>3. TypeOK'
    BY <1>1, <2>1, <2>2 DEF IInv, TypeOK, history
  <2>4. Done' = Done
    BY <2>1, <2>2 DEF Done
  <2>5. ASSUME NEW a \in Accounts, Holds(r, a)' PROVE CopyBounded(r, a)'
    <3>1. copy'[r][a] = balance[a]
      BY <2>2, <2>5 DEF Holds, Authenticated
    <3> QED
      BY <1>2, <2>1, <3>1 DEF CopyBounded, history
  <2> QED
    BY <2>1, <2>2, <2>3, <2>4, <2>5, SessionStep
<1>4. ASSUME NEW r \in Requests, Load(r) PROVE IInv'
  <2>1. /\ pc[r] = "authenticated"
        /\ HasFunds(r, Loaded(r))
        /\ pc' = [pc EXCEPT ![r] = "loaded"]
        /\ copy' = [copy EXCEPT ![r] = Loaded(r)]
        /\ UNCHANGED <<balance, history>>
    BY <1>4 DEF Load
  <2>2. /\ pc'[r] = "loaded" /\ copy'[r] = Loaded(r)
        /\ \A s \in Requests \ {r} : pc'[s] = pc[s] /\ copy'[s] = copy[s]
    BY <1>1, <2>1
  <2>3. Loaded(r) \in [Accounts -> Int]
    BY <1>1 DEF Loaded
  <2>4. TypeOK'
    BY <1>1, <2>1, <2>2, <2>3 DEF IInv, TypeOK, history
  <2>5. Done' = Done
    BY <2>1, <2>2 DEF Done
  <2>6. ASSUME NEW a \in Accounts, Holds(r, a)' PROVE CopyBounded(r, a)'
    <3>1. a \in Touched(r)
      BY <2>2, <2>6 DEF Holds, Touched, Debit, Credit, FeeOf, SelfDeposit
    <3>2. CASE Authenticated(r, a)
      <4>1. copy'[r][a] = copy[r][a]
        BY <2>2, <3>1, <3>2 DEF Loaded
      <4>2. CopyBounded(r, a)
        BY <2>1, <3>2 DEF IInv, CopiesBounded, Holds
      <4> QED
        BY <2>1, <4>1, <4>2 DEF CopyBounded, history
    <3>3. CASE ~Authenticated(r, a)
      <4>1. copy'[r][a] = balance[a]
        BY <2>2, <3>1, <3>3 DEF Loaded
      <4> QED
        BY <1>2, <2>1, <4>1 DEF CopyBounded, history
    <3> QED
      BY <3>2, <3>3
  <2> QED
    BY <2>1, <2>2, <2>4, <2>5, <2>6, SessionStep
<1>5. ASSUME NEW r \in Requests, Refuse(r) PROVE IInv'
  BY <1>5, CloseKeepsIInv DEF Refuse
<1>6. ASSUME NEW r \in Requests, Commit(r) PROVE IInv'
  BY <1>6, CommitKeepsIInv
<1>7. ASSUME NEW r \in Requests, Fails(r) PROVE IInv'
  BY <1>7, CloseKeepsIInv DEF Fails
<1>8. CASE UNCHANGED vars
  <2>1. IInv /\ UNCHANGED vars => IInv'
    <3> SUFFICES ASSUME IInv, UNCHANGED vars
                 PROVE  IInv'
      OBVIOUS
    <3>1. TypeOK' /\ BalanceWithinHistory' /\ OverdrawnByWebhooksOnly'
      BY DEF IInv, TypeOK, BalanceWithinHistory, OverdrawnByWebhooksOnly, vars, history
    <3>2. CopiesBounded'
      BY DEF IInv, CopiesBounded, CopyBounded, Holds, Touched, Authenticated, Debit, Credit,
             FeeOf, SelfDeposit, vars, history
    <3>3. FundsChecked' /\ OneTransferPerKey'
      BY DEF IInv, FundsChecked, HasFunds, Debit, FeeOf, SelfDeposit, OneTransferPerKey,
             Entries, Done, vars
    <3>4. QED
      BY <3>1, <3>2, <3>3 DEF IInv
  <2> QED
    BY <1>8, <2>1
<1> QED
  BY <1>3, <1>4, <1>5, <1>6, <1>7, <1>8 DEF Next

THEOREM IInvHolds == Spec => []IInv
  BY InitIInv, NextIInv, PTL DEF Spec

-----------------------------------------------------------------------------
\* Every variable of the transfers keeps its type, and no closed session holds
\* a copy of a balance.
THEOREM TypeCorrect == Spec => []TypeOK
<1>1. IInv => TypeOK
  BY DEF IInv
<1> QED
  BY <1>1, IInvHolds, PTL

\* Whatever updates are lost, a balance stays within what its account was given
\* and charged.
THEOREM BalancesWithinHistory == Spec => []BalanceWithinHistory
<1>1. IInv => BalanceWithinHistory
  BY DEF IInv
<1> QED
  BY <1>1, IInvHolds, PTL

\* Transfers inside the platform never overdraw an account.
THEOREM TransfersNeverOverdraw == Spec => []OverdrawnByWebhooksOnly
<1>1. IInv => OverdrawnByWebhooksOnly
  BY DEF IInv
<1> QED
  BY <1>1, IInvHolds, PTL

\* Money moves once per key.
THEOREM KeysMoveMoneyOnce == Spec => []OneTransferPerKey
<1>1. IInv => OneTransferPerKey
  BY DEF IInv
<1> QED
  BY <1>1, IInvHolds, PTL
=============================================================================
