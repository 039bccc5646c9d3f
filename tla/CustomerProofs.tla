---------------------------- MODULE CustomerProofs ----------------------------
(***************************************************************************)
(* What stands between a customer and the payments, for any number of      *)
(* sessions and threads, any price, any limits and any values.  Each       *)
(* component has its inductive invariant; none of the properties is one    *)
(* by itself.                                                              *)
(***************************************************************************)
EXTENDS Customer, FiniteSetTheorems, SequenceTheorems, WellFoundedInduction, TLAPS

-----------------------------------------------------------------------------
(* The subscription.  That the chat is open exactly as promised needs the  *)
(* row to agree with the promise, and the promise not to reach further     *)
(* than the next payment would; that renewals are due needs auto_renew of  *)
(* an active plan to be the customer's last word; and that the account is  *)
(* overdrawn once needs it not to be before there is a row.                *)

RowAgrees ==
  /\ status = "ACTIVE" => expires = covered
  /\ status # "ACTIVE" => covered < today
  /\ covered <= today + Days

LastWord == status = "ACTIVE" /\ autoRenew => agreed

OverdrawnByPlan ==
  /\ balance >= -Price
  /\ status = "ABSENT" => balance >= 0

IInv == TypeOK /\ RowAgrees /\ LastWord /\ OverdrawnByPlan

-----------------------------------------------------------------------------
\* The initial states satisfy the invariant.
LEMMA InitIInv == Init => IInv
<1> SUFFICES ASSUME Init PROVE IInv
  OBVIOUS
<1>1. TypeOK
  <2>1. /\ today \in 1 .. MaxTime + 1 /\ balance \in Int /\ moves \in 0 .. MaxMoves
        /\ expires \in 0 .. MaxTime + 1 + Days /\ covered \in 0 .. MaxTime + 1 + Days
        /\ renewals \in Nat
    BY SubscriptionAssumption DEF Init
  <2>2. /\ task \in [Sessions -> Tasks \cup {NoTask}] /\ saw \in [Sessions -> Int]
        /\ \A s \in Sessions : task[s] = NoTask => saw[s] = 0
    BY DEF Init
  <2>3. /\ status \in {"ABSENT", "INACTIVE", "ACTIVE", "EXPIRED"}
        /\ autoRenew \in BOOLEAN /\ trialUsed \in BOOLEAN /\ agreed \in BOOLEAN
    BY DEF Init
  <2> QED
    BY <2>1, <2>2, <2>3 DEF TypeOK
<1>2. RowAgrees /\ LastWord /\ OverdrawnByPlan
  BY SubscriptionAssumption DEF Init, RowAgrees, LastWord, OverdrawnByPlan
<1> QED
  BY <1>1, <1>2 DEF IInv

\* The session that is answered is idle and holds no copy.
LEMMA AnswerType ==
  ASSUME TypeOK, NEW s \in Sessions, Answer(s)
  PROVE  /\ task' \in [Sessions -> Tasks \cup {NoTask}]
         /\ saw' \in [Sessions -> Int]
         /\ \A r \in Sessions : task'[r] = NoTask => saw'[r] = 0
         /\ today' = today /\ moves' = moves
BY DEF TypeOK, Answer

\* What the world does to the account preserves the invariant.
LEMMA WorldIInv ==
  ASSUME IInv, NextDay \/ OtherMovement
  PROVE  IInv'
<1>1. CASE NextDay
  BY <1>1, SubscriptionAssumption
  DEF IInv, TypeOK, RowAgrees, LastWord, OverdrawnByPlan, NextDay, rowFields, history
<1>2. CASE OtherMovement
  BY <1>2, SubscriptionAssumption
  DEF IInv, TypeOK, RowAgrees, LastWord, OverdrawnByPlan, OtherMovement, rowFields, history
<1> QED
  BY <1>1, <1>2

\* So does a request that comes.
LEMMA AuthenticateIInv ==
  ASSUME IInv, NEW s \in Sessions, NEW t \in Tasks, Authenticate(s, t)
  PROVE  IInv'
<1>1. TypeOK'
  BY NoTaskAssumption DEF IInv, TypeOK, Authenticate, rowFields, history
<1>2. RowAgrees' /\ LastWord' /\ OverdrawnByPlan'
  BY DEF IInv, RowAgrees, LastWord, OverdrawnByPlan, Authenticate, rowFields, history
<1> QED
  BY <1>1, <1>2 DEF IInv

\* So does a plan that begins, when no more was promised than it gives.
LEMMA ActivateIInv ==
  ASSUME IInv, NEW s \in Sessions, Answer(s),
         NEW days \in Nat, NEW renew \in BOOLEAN, Activate(days, renew),
         days <= Days, covered <= today + days,
         balance' \in Int, balance' >= -Price,
         trialUsed' \in BOOLEAN, renewals' \in Nat
  PROVE  IInv'
<1>1. TypeOK'
  BY AnswerType, SubscriptionAssumption DEF IInv, TypeOK, Activate, Larger
<1>2. RowAgrees'
  BY AnswerType, SubscriptionAssumption
  DEF IInv, TypeOK, RowAgrees, Activate, Larger
<1>3. LastWord' /\ OverdrawnByPlan'
  BY DEF LastWord, OverdrawnByPlan, Activate
<1> QED
  BY <1>1, <1>2, <1>3 DEF IInv

\* So does a request that changes the status of a row at most, when no promise
\* that still holds is taken back.
LEMMA StatusIInv ==
  ASSUME IInv, NEW s \in Sessions, Answer(s),
         UNCHANGED <<balance, expires, autoRenew, trialUsed, history>>,
         \/ status' = status
         \/ status = "ABSENT" /\ status' = "INACTIVE"
         \/ Over /\ status' = "EXPIRED"
  PROVE  IInv'
<1>1. TypeOK'
  BY AnswerType DEF IInv, TypeOK, history
<1>2. RowAgrees'
  BY AnswerType DEF IInv, TypeOK, RowAgrees, Over, history
<1>3. LastWord' /\ OverdrawnByPlan'
  BY DEF IInv, LastWord, OverdrawnByPlan, history
<1> QED
  BY <1>1, <1>2, <1>3 DEF IInv

\* A refusal is such a request.
LEMMA RefuseIInv ==
  ASSUME IInv, NEW s \in Sessions, Refuse(s)
  PROVE  IInv'
BY StatusIInv DEF Refuse, Found

\* What is paid from the balance overdraws it by the price at most.
LEMMA Payable ==
  ASSUME IInv, NEW s \in Sessions, Affords(s)
  PROVE  /\ BalanceCopy(s) - Price \in Int
         /\ BalanceCopy(s) - Price >= -Price
BY SubscriptionAssumption DEF IInv, TypeOK, OverdrawnByPlan, Affords, BalanceCopy

-----------------------------------------------------------------------------
\* Every handler preserves the invariant.
LEMMA HandleIInv ==
  ASSUME IInv, NEW s \in Sessions, Handle(s)
  PROVE  IInv'
<1> USE SubscriptionAssumption
<1>0. Days \in Nat /\ Days <= Days /\ TRUE \in BOOLEAN
  OBVIOUS
<1>1. CASE Renew(s)
  <2>1. /\ today' = today /\ covered <= today + Days
        /\ balance' \in Int /\ balance' >= -Price
    BY <1>1, AnswerType, Payable DEF Renew, IInv, RowAgrees
  <2>2. TypeOK'
    BY <1>1, <2>1, AnswerType DEF Renew, IInv, TypeOK, Larger
  <2>3. RowAgrees'
    BY <1>1, <2>1 DEF Renew, IInv, TypeOK, RowAgrees, Larger, Over
  <2>4. LastWord' /\ OverdrawnByPlan'
    BY <1>1, <2>1 DEF Renew, IInv, LastWord, OverdrawnByPlan, Over
  <2> QED
    BY <2>2, <2>3, <2>4 DEF IInv
<1>2. CASE Lapse(s)
  BY <1>2, StatusIInv DEF Lapse
<1>3. CASE ShowPage(s)
  BY <1>3, RefuseIInv DEF ShowPage
<1>4. CASE subscribe_with_balance(s)
  <2>1. CASE Affords(s)
    <3>1. balance' \in Int /\ balance' >= -Price
      BY <1>4, <2>1, Payable DEF subscribe_with_balance
    <3>2. trialUsed' \in BOOLEAN /\ renewals' \in Nat /\ covered <= today + Days
      BY <1>4, <2>1 DEF subscribe_with_balance, IInv, TypeOK, RowAgrees
    <3> QED
      BY <1>0, <1>4, <2>1, <3>1, <3>2, ActivateIInv DEF subscribe_with_balance
  <2>2. CASE ~Affords(s)
    BY <1>4, <2>2, StatusIInv DEF subscribe_with_balance, rowFields
  <2> QED
    BY <2>1, <2>2
<1>5. CASE subscribe_with_card(s)
  <2>1. CASE Activate(Days, TRUE) /\ UNCHANGED <<trialUsed, renewals>>
    <3>1. /\ balance' \in Int /\ balance' >= -Price /\ trialUsed' \in BOOLEAN
          /\ renewals' \in Nat /\ covered <= today + Days
      BY <1>5, <2>1
      DEF subscribe_with_card, IInv, TypeOK, RowAgrees, OverdrawnByPlan
    <3> QED
      BY <1>0, <1>5, <2>1, <3>1, ActivateIInv DEF subscribe_with_card
  <2>2. CASE UNCHANGED <<rowFields, history>>
    BY <1>5, <2>2, StatusIInv DEF subscribe_with_card, rowFields
  <2> QED
    BY <1>5, <2>1, <2>2 DEF subscribe_with_card
<1>6. CASE cancel_subscription(s)
  <2>1. CASE Found = "ACTIVE"
    <3>1. TypeOK'
      BY <1>6, <2>1, AnswerType DEF cancel_subscription, IInv, TypeOK
    <3>2. RowAgrees'
      BY <1>6, <2>1, AnswerType DEF cancel_subscription, IInv, RowAgrees
    <3>3. LastWord' /\ OverdrawnByPlan'
      BY <1>6, <2>1 DEF cancel_subscription, IInv, LastWord, OverdrawnByPlan
    <3> QED
      BY <3>1, <3>2, <3>3 DEF IInv
  <2>2. CASE Found # "ACTIVE"
    BY <1>6, <2>2, RefuseIInv DEF cancel_subscription
  <2> QED
    BY <2>1, <2>2
<1>7. CASE activate_trial(s)
  <2>1. CASE TrialRefused
    BY <1>7, <2>1, RefuseIInv DEF activate_trial
  <2>2. CASE ~TrialRefused
    <3>1. /\ balance' \in Int /\ balance' >= -Price /\ trialUsed' \in BOOLEAN
          /\ renewals' \in Nat /\ covered <= today + TrialDays
      BY <1>7, <2>2
      DEF activate_trial, IInv, TypeOK, RowAgrees, OverdrawnByPlan, TrialRefused, Found
    <3> QED
      BY <1>7, <2>2, <3>1, ActivateIInv DEF activate_trial
  <2> QED
    BY <2>1, <2>2
<1>8. CASE admin_grant_subscription(s)
  <2>1. /\ balance' \in Int /\ balance' >= -Price /\ trialUsed' \in BOOLEAN
        /\ renewals' \in Nat /\ covered <= today + Days
    BY <1>8
    DEF admin_grant_subscription, IInv, TypeOK, RowAgrees, OverdrawnByPlan
  <2> QED
    BY <1>0, <1>8, <2>1, ActivateIInv DEF admin_grant_subscription
<1>9. CASE ChatGate(s)
  BY <1>9, StatusIInv DEF ChatGate
<1> QED
  BY <1>1, <1>2, <1>3, <1>4, <1>5, <1>6, <1>7, <1>8, <1>9 DEF Handle

\* The invariant is inductive.
LEMMA NextIInv == IInv /\ [Next]_vars => IInv'
<1> SUFFICES ASSUME IInv, [Next]_vars PROVE IInv'
  OBVIOUS
<1>1. CASE Next
  BY <1>1, WorldIInv, AuthenticateIInv, HandleIInv DEF Next
<1>2. CASE UNCHANGED vars
  BY <1>2
  DEF IInv, TypeOK, RowAgrees, LastWord, OverdrawnByPlan, vars, rowFields, history
<1> QED
  BY <1>1, <1>2

\* A renewal finds the plan wanted and everything promised over.
LEMMA RenewalIsDue ==
  ASSUME IInv, Next, renewals' > renewals
  PROVE  agreed /\ covered < today
<1>1. renewals' # renewals
  BY DEF IInv, TypeOK
<1>2. ~NextDay /\ ~OtherMovement
  BY <1>1 DEF NextDay, OtherMovement, history
<1>3. PICK s \in Sessions : Handle(s)
  BY <1>1, <1>2 DEF Next, Authenticate, history
<1>4. ~Refuse(s) /\ ~Lapse(s) /\ ~ShowPage(s) /\ ~ChatGate(s)
  BY <1>1 DEF Refuse, Lapse, ShowPage, ChatGate, history
<1>5. ~subscribe_with_balance(s) /\ ~subscribe_with_card(s)
  BY <1>1 DEF subscribe_with_balance, subscribe_with_card, history
<1>6. ~cancel_subscription(s) /\ ~activate_trial(s) /\ ~admin_grant_subscription(s)
  BY <1>1, <1>4 DEF cancel_subscription, activate_trial, admin_grant_subscription
<1>7. Renew(s)
  BY <1>3, <1>4, <1>5, <1>6 DEF Handle
<1> QED
  BY <1>7 DEF Renew, Over, IInv, RowAgrees, LastWord

-----------------------------------------------------------------------------
\* The invariant holds of every behaviour.
THEOREM Invariance == Spec => []IInv
BY InitIInv, NextIInv, PTL DEF Spec

\* Every variable keeps its type.
THEOREM TypeCorrect == Spec => []TypeOK
BY Invariance, PTL DEF IInv

\* The chat is open exactly as long as was promised.
THEOREM ChatIsOpenAsPromised == Spec => []OpenAsPromised
<1>1. IInv => OpenAsPromised
  BY DEF IInv, TypeOK, RowAgrees, OpenAsPromised, Admits, Over
<1> QED
  BY <1>1, Invariance, PTL

\* The plan overdraws the account by its price at most.
THEOREM PlanOverdrawsOnce == Spec => []OverdrawnOnce
<1>1. IInv => OverdrawnOnce
  BY DEF IInv, OverdrawnByPlan, OverdrawnOnce
<1> QED
  BY <1>1, Invariance, PTL

\* Every renewal is wanted and due.
THEOREM EveryRenewalIsDue == Spec => RenewalsAreDue
<1>1. IInv /\ [Next]_vars => [renewals' > renewals => agreed /\ covered < today]_vars
  BY RenewalIsDue
<1> QED
  BY <1>1, Invariance, PTL DEF Spec, RenewalsAreDue

-----------------------------------------------------------------------------
(* The account.                                                            *)

\* Who writes a secret of its own, and who sets a password with one.
Generating(s) == step[s] = "loaded" /\ kind[s] \in {"register", "resend", "request"}
Confirming(s) == step[s] = "loaded" /\ kind[s] = "confirm"

IsWritten(n) == n \in 1 .. Len(born) /\ born[n] >= 1

\* Nothing is done to an account that is not there.
RowFirst ==
  /\ accepted = (IF exists THEN 1 ELSE 0)
  /\ ~exists => ~verified /\ link = 0 /\ code = 0
  /\ \A s \in Sessions : step[s] = "loaded" /\ kind[s] # "register" => exists

\* The link of the row is as old as the row says; whatever is in use was written,
\* and what a handler is about to write was not and is its own.
SecretsApart ==
  /\ link # 0 => IsWritten(link) /\ born[link] = linkAt /\ linkAt <= date
  /\ code # 0 => IsWritten(code)
  /\ \A n \in spent : IsWritten(n)
  /\ \A s \in Sessions :
       /\ Confirming(s) => IsWritten(secret[s])
       /\ Generating(s) => secret[s] \in 1 .. Len(born) /\ born[secret[s]] = 0
       /\ step[s] = "mailing" => secret[s] \in 1 .. Len(born)
       /\ \A r \in Sessions \ {s} : Generating(s) /\ Generating(r) => secret[s] # secret[r]

\* The code of the row has not set a password yet.
CodeUnspent == code \notin spent

AccountInv ==
  /\ A!TypeOK
  /\ usedAge <= LinkLife
  /\ A!SignedInIsVerified /\ CodeUnspent
  /\ RowFirst /\ SecretsApart

\* The constants of the account are numbers.
LEMMA AccountFacts ==
  ResendWait \in Nat /\ LinkLife \in Nat /\ MaxDate \in Nat /\ MaxSecrets \in Nat
BY CustomerAssumption DEF A!AccountsAssumption

\* The initial states satisfy the invariant of the account.
LEMMA AccountInvInit == A!Init => AccountInv
<1> SUFFICES ASSUME A!Init PROVE AccountInv
  OBVIOUS
<1>1. /\ date \in 1 .. MaxDate + 1 /\ linkAt \in 0 .. MaxDate + 1
      /\ codeAt \in 0 .. MaxDate + 1
  BY AccountFacts DEF A!Init
<1>2. born \in Seq(0 .. MaxDate + 1) /\ Len(born) <= MaxSecrets
  BY AccountFacts, EmptySeq DEF A!Init
<1>3. A!TypeOK
  BY <1>1, <1>2 DEF A!Init, A!TypeOK
<1>4. RowFirst /\ SecretsApart
  BY DEF A!Init, RowFirst, SecretsApart, Generating, Confirming
<1>5. usedAge <= LinkLife /\ A!SignedInIsVerified /\ CodeUnspent
  BY AccountFacts DEF A!Init, A!SignedInIsVerified, CodeUnspent
<1>6. QED
  BY <1>3, <1>4, <1>5 DEF AccountInv

\* Secrets are numbered as they are generated.
LEMMA BornFacts ==
  ASSUME AccountInv
  PROVE  /\ Len(born) \in Nat /\ Len(born) <= MaxSecrets
         /\ \A n \in 1 .. Len(born) : n \in A!Secrets /\ born[n] \in 0 .. MaxDate + 1
         /\ 0 \notin A!Secrets
         /\ \A n : IsWritten(n) => n \in A!Secrets
<1>1. born \in Seq(0 .. MaxDate + 1) /\ Len(born) <= MaxSecrets
  BY DEF AccountInv, A!TypeOK
<1>2. Len(born) \in Nat /\ \A n \in 1 .. Len(born) : born[n] \in 0 .. MaxDate + 1
  BY <1>1, LenProperties, ElementOfSeq
<1>3. QED
  BY <1>1, <1>2, AccountFacts DEF A!Secrets, IsWritten

\* A secret that is generated is a new one.
LEMMA Generated ==
  ASSUME AccountInv, NEW s \in Sessions, NEW k \in A!Kinds, A!Generate(s, k)
  PROVE  /\ born' \in Seq(0 .. MaxDate + 1) /\ Len(born') = Len(born) + 1
         /\ Len(born') <= MaxSecrets
         /\ \A n \in 1 .. Len(born) : born'[n] = born[n]
         /\ born'[Len(born) + 1] = 0
         /\ \A n : IsWritten(n) => IsWritten(n)'
         /\ secret'[s] = Len(born) + 1 /\ secret'[s] \in A!Secrets
         /\ step' \in [Sessions -> {"idle", "loaded", "mailing"}]
         /\ kind' \in [Sessions -> A!Kinds \cup {"none"}]
         /\ secret' \in [Sessions -> {0} \cup A!Secrets]
         /\ copy' \in [Sessions -> BOOLEAN]
         /\ step'[s] = "loaded" /\ kind'[s] = k
         /\ \A r \in Sessions \ {s} :
              step'[r] = step[r] /\ kind'[r] = kind[r] /\ secret'[r] = secret[r]
<1>1. born \in Seq(0 .. MaxDate + 1) /\ 0 \in 0 .. MaxDate + 1 /\ Len(born) \in Nat
  BY AccountFacts DEF AccountInv, A!TypeOK
<1>2. born' = Append(born, 0) /\ Len(born) < MaxSecrets
  BY DEF A!Generate
<1>3. /\ born' \in Seq(0 .. MaxDate + 1) /\ Len(born') = Len(born) + 1
      /\ \A n \in 1 .. Len(born) : born'[n] = born[n]
      /\ born'[Len(born) + 1] = 0
  BY <1>1, <1>2, AppendProperties
<1>4. Len(born) + 1 \in A!Secrets
  BY <1>1, <1>2, AccountFacts DEF A!Secrets
<1>5. \A n : IsWritten(n) => IsWritten(n)'
  BY <1>1, <1>3 DEF IsWritten
<1>6. A!Load(s, k, Len(born) + 1)
  BY DEF A!Generate
<1>7. QED
  BY <1>1, <1>2, <1>3, <1>4, <1>5, <1>6, AccountFacts DEF AccountInv, A!TypeOK, A!Load

\* So the invariant holds after it, when the handler may be where it is.
LEMMA GenerateAccountInv ==
  ASSUME AccountInv, NEW s \in Sessions, NEW k \in {"register", "resend", "request"},
         A!Generate(s, k), k # "register" => exists,
         UNCHANGED <<date, A!row, mailed, accepted, usedAge, spent, signedIn>>
  PROVE  AccountInv'
<1> USE DEF AccountInv
<1>1. k \in A!Kinds
  BY DEF A!Kinds
<1>2. A!TypeOK'
  BY <1>1, Generated DEF A!TypeOK, A!row, A!Secrets
<1>3. RowFirst'
  BY <1>1, Generated DEF RowFirst, A!row
<1>4. SecretsApart'
  <2>1. Len(born) \in Nat
    BY BornFacts
  <2>2. /\ link # 0 => IsWritten(link)' /\ born'[link] = linkAt /\ linkAt <= date
        /\ code # 0 => IsWritten(code)'
        /\ \A n \in spent : IsWritten(n)'
    <3>1. \A n : IsWritten(n) => IsWritten(n)' /\ born'[n] = born[n]
      BY <1>1, Generated DEF IsWritten
    <3>2. link' = link /\ linkAt' = linkAt /\ code' = code
      BY DEF A!row
    <3>3. link # 0 => IsWritten(link) /\ born[link] = linkAt /\ linkAt <= date
      BY DEF SecretsApart
    <3>4. link # 0 => IsWritten(link)'
      BY <3>1, <3>2, <3>3 DEF IsWritten
    <3>5. code # 0 => IsWritten(code)'
      BY <3>1, <3>2 DEF SecretsApart, IsWritten
    <3>6. \A n \in spent : IsWritten(n)'
      BY <3>1 DEF SecretsApart
    <3>7. QED
      BY <3>1, <3>3, <3>4, <3>5, <3>6
  <2>3. ASSUME NEW r \in Sessions
        PROVE  /\ Confirming(r)' => IsWritten(secret[r])' /\ r # s
               /\ Generating(r)' => secret'[r] \in 1 .. Len(born') /\ born'[secret'[r]] = 0
               /\ step'[r] = "mailing" => secret'[r] \in 1 .. Len(born')
    <3>1. CASE r = s
      BY <1>1, <2>1, <3>1, Generated DEF Confirming, Generating
    <3>2. CASE r # s
      BY <1>1, <2>1, <3>2, Generated DEF SecretsApart, Confirming, Generating
    <3>3. QED
      BY <3>1, <3>2
  <2>4. ASSUME NEW r \in Sessions, NEW q \in Sessions \ {r}, Generating(r)', Generating(q)'
        PROVE  secret'[r] # secret'[q]
    <3>1. \A p \in Sessions \ {s} : Generating(p)' => Generating(p) /\ secret'[p] = secret[p]
                                                     /\ secret[p] \in 1 .. Len(born)
      BY <1>1, Generated DEF SecretsApart, Generating
    <3>2. secret'[s] = Len(born) + 1
      BY <1>1, Generated
    <3>3. QED
      BY <2>1, <2>4, <3>1, <3>2 DEF SecretsApart
  <2>5. QED
    BY <2>2, <2>3, <2>4 DEF SecretsApart, A!row
<1>5. (usedAge <= LinkLife)' /\ A!SignedInIsVerified' /\ CodeUnspent'
  BY DEF A!SignedInIsVerified, CodeUnspent, A!row
<1>6. QED
  BY <1>2, <1>3, <1>4, <1>5

\* A secret is written with the row: it was nobody else's.
LEMMA Written ==
  ASSUME AccountInv, NEW s \in Sessions, Generating(s), A!ThenMail(s)
  PROVE  /\ born' \in Seq(0 .. MaxDate + 1) /\ Len(born') = Len(born)
         /\ secret[s] \in 1 .. Len(born) /\ born'[secret[s]] = date /\ date >= 1
         /\ \A n \in 1 .. Len(born) : n # secret[s] => born'[n] = born[n]
         /\ IsWritten(secret[s])'
         /\ \A n : IsWritten(n) => IsWritten(n)' /\ born'[n] = born[n] /\ n # secret[s]
         /\ step' = [step EXCEPT ![s] = "mailing"]
         /\ kind' = kind /\ secret' = secret /\ copy' = copy
<1>1. born \in Seq(0 .. MaxDate + 1) /\ date \in 1 .. MaxDate + 1
  BY DEF AccountInv, A!TypeOK
<1>2. secret[s] \in 1 .. Len(born) /\ born[secret[s]] = 0
  BY DEF AccountInv, SecretsApart
<1>3. born' = [born EXCEPT ![secret[s]] = date] /\ date \in 0 .. MaxDate + 1
  BY <1>1, AccountFacts DEF A!ThenMail
<1>4. /\ born' \in Seq(0 .. MaxDate + 1) /\ Len(born') = Len(born)
      /\ \A n \in 1 .. Len(born) : born'[n] = IF n = secret[s] THEN date ELSE born[n]
  BY <1>1, <1>2, <1>3, ExceptSeq
<1>5. born'[secret[s]] = date /\ date >= 1
  BY <1>1, <1>2, <1>4, AccountFacts
<1>6. ASSUME NEW n, IsWritten(n)
      PROVE  IsWritten(n)' /\ born'[n] = born[n] /\ n # secret[s]
  BY <1>2, <1>4, <1>6 DEF IsWritten
<1>7. (secret[s] \in 1 .. Len(born'))  /\ born'[secret[s]] >= 1
  BY <1>2, <1>4, <1>5
<1>8. QED
  BY <1>2, <1>4, <1>5, <1>6, <1>7 DEF A!ThenMail, IsWritten

\* What is said of sessions and secrets survives when the row takes the secret
\* that is written, or leaves link and code as they are.
LEMMA WriteSecretsApart ==
  ASSUME AccountInv, NEW s \in Sessions, Generating(s), A!ThenMail(s),
         \/ link' = secret[s] /\ linkAt' = date
         \/ link' = link /\ linkAt' = linkAt,
         code' \in {0, code, secret[s]},
         spent' = spent, date' = date
  PROVE  SecretsApart' /\ CodeUnspent'
<1> USE DEF AccountInv
<1>1. date \in Nat
  BY AccountFacts DEF A!TypeOK
<1>2. link' # 0 => IsWritten(link)' /\ born'[link'] = linkAt' /\ linkAt' <= date
  BY <1>1, Written DEF SecretsApart, IsWritten
<1>3. code' # 0 => IsWritten(code)'
  BY Written DEF SecretsApart, IsWritten
<1>4. \A n \in spent : IsWritten(n)' /\ n # secret[s]
  BY Written DEF SecretsApart
<1>5. ASSUME NEW r \in Sessions
      PROVE  /\ Generating(r)' => Generating(r) /\ r # s
             /\ Confirming(r)' => Confirming(r)
             /\ step'[r] = "mailing" => r = s \/ step[r] = "mailing"
  BY Written DEF Generating, Confirming, A!TypeOK
<1>6. ASSUME NEW r \in Sessions
      PROVE  /\ Confirming(r)' => IsWritten(secret[r])'
             /\ Generating(r)' => secret[r] \in 1 .. Len(born') /\ born'[secret[r]] = 0
             /\ step'[r] = "mailing" => secret[r] \in 1 .. Len(born')
             /\ \A q \in Sessions \ {r} :
                  Generating(r)' /\ Generating(q)' => secret[r] # secret[q]
  <2>1. Confirming(r)' => IsWritten(secret[r])'
    <3>1. Confirming(r)' => IsWritten(secret[r])
      BY <1>5 DEF SecretsApart
    <3>2. QED
      BY <3>1, Written DEF IsWritten
  <2>2. Generating(r)' => secret[r] \in 1 .. Len(born') /\ born'[secret[r]] = 0
    BY <1>5, Written DEF SecretsApart
  <2>3. step'[r] = "mailing" => secret[r] \in 1 .. Len(born')
    BY <1>5, Written DEF SecretsApart
  <2>4. \A q \in Sessions \ {r} : Generating(r)' /\ Generating(q)' => secret[r] # secret[q]
    BY <1>5 DEF SecretsApart
  <2>5. QED
    BY <2>1, <2>2, <2>3, <2>4
<1>7. SecretsApart'
  BY <1>2, <1>3, <1>4, <1>6, Written DEF SecretsApart, IsWritten
<1>8. CodeUnspent'
  <2>1. 0 \notin spent
    BY BornFacts DEF A!TypeOK
  <2>2. QED
    BY <1>4, <2>1 DEF CodeUnspent
<1>9. QED
  BY <1>7, <1>8

\* A handler that ends.
LEMMA Left ==
  ASSUME AccountInv, NEW s \in Sessions, A!Leave(s), born' = born
  PROVE  /\ step' \in [Sessions -> {"idle", "loaded", "mailing"}]
         /\ kind' \in [Sessions -> A!Kinds \cup {"none"}]
         /\ secret' \in [Sessions -> {0} \cup A!Secrets]
         /\ copy' \in [Sessions -> BOOLEAN]
         /\ step'[s] = "idle" /\ ~Generating(s)' /\ ~Confirming(s)'
         /\ \A r \in Sessions \ {s} :
              /\ step'[r] = step[r] /\ kind'[r] = kind[r] /\ secret'[r] = secret[r]
              /\ Generating(r)' = Generating(r) /\ Confirming(r)' = Confirming(r)
BY DEF AccountInv, A!TypeOK, A!Leave, Generating, Confirming

\* A handler that leaves takes no secret from another.
LEMMA LeaveSecretsApart ==
  ASSUME AccountInv, NEW s \in Sessions, A!Leave(s), born' = born, date' = date,
         link' = 0 \/ (link' = link /\ linkAt' = linkAt),
         code' \in {0, code}, \A n \in spent' : IsWritten(n)
  PROVE  SecretsApart'
<1>1. \A n : IsWritten(n)' <=> IsWritten(n)
  BY DEF IsWritten
<1>2. /\ link' # 0 => IsWritten(link)' /\ born'[link'] = linkAt' /\ linkAt' <= date'
      /\ code' # 0 => IsWritten(code)'
      /\ \A n \in spent' : IsWritten(n)'
  BY DEF AccountInv, SecretsApart, IsWritten
<1>3. ASSUME NEW r \in Sessions
      PROVE  /\ Confirming(r)' => IsWritten(secret[r])'
             /\ Generating(r)' => secret'[r] \in 1 .. Len(born') /\ born'[secret'[r]] = 0
             /\ step'[r] = "mailing" => secret'[r] \in 1 .. Len(born')
             /\ \A q \in Sessions \ {r} :
                  Generating(r)' /\ Generating(q)' => secret'[r] # secret'[q]
  <2>1. CASE r = s
    BY <2>1, Left
  <2>2. CASE r # s
    <3>1. Confirming(r)' => IsWritten(secret[r]) /\ secret'[r] = secret[r]
      BY <2>2, Left DEF AccountInv, SecretsApart
    <3>2. QED
      BY <2>2, <3>1, Left DEF AccountInv, SecretsApart, IsWritten
  <2>3. QED
    BY <2>1, <2>2
<1>4. QED
  BY <1>2, <1>3 DEF SecretsApart

\* Every step of a handler preserves it.
LEMMA AccountInvStep == AccountInv /\ [A!Next]_account => AccountInv'
<1> SUFFICES ASSUME AccountInv, [A!Next]_account PROVE AccountInv'
  OBVIOUS
<1>i. /\ A!TypeOK /\ usedAge <= LinkLife /\ A!SignedInIsVerified /\ CodeUnspent
      /\ RowFirst /\ SecretsApart
  BY DEF AccountInv
<1>t. date \in Nat /\ linkAt \in Nat /\ usedAge \in Nat /\ LinkLife \in Nat
  BY <1>i, AccountFacts DEF A!TypeOK
<1>1. CASE UNCHANGED account
  BY <1>1, <1>i
     DEF account, AccountInv, A!TypeOK, A!SignedInIsVerified, CodeUnspent,
         RowFirst, SecretsApart, IsWritten, Generating, Confirming
<1>2. CASE A!Tick
  <2>1. A!TypeOK'
    BY <1>2, <1>i, AccountFacts DEF A!Tick, A!row, A!session, A!history, A!TypeOK
  <2>2. RowFirst' /\ A!SignedInIsVerified' /\ CodeUnspent' /\ (usedAge <= LinkLife)'
    BY <1>2, <1>i DEF A!Tick, A!row, A!session, A!history, RowFirst,
                      A!SignedInIsVerified, CodeUnspent
  <2>3. SecretsApart'
    BY <1>2, <1>i, <1>t DEF A!Tick, A!row, A!session, A!history, SecretsApart, IsWritten,
                            Generating, Confirming
  <2>4. QED
    BY <2>1, <2>2, <2>3 DEF AccountInv
<1>3. CASE A!Login \/ A!logout
  <2>1. /\ UNCHANGED <<date, A!row, A!session, born, mailed, accepted, usedAge, spent>>
        /\ signedIn' \in BOOLEAN /\ (signedIn' => verified)
    BY <1>3 DEF A!Login, A!logout
  <2>2. A!TypeOK'
    BY <1>i, <2>1 DEF A!row, A!session, A!TypeOK
  <2>3. RowFirst' /\ A!SignedInIsVerified' /\ CodeUnspent' /\ (usedAge <= LinkLife)'
    BY <1>i, <2>1 DEF A!row, A!session, RowFirst, A!SignedInIsVerified, CodeUnspent
  <2>4. SecretsApart'
    BY <1>i, <2>1 DEF A!row, A!session, SecretsApart, IsWritten, Generating, Confirming
  <2>5. QED
    BY <2>2, <2>3, <2>4 DEF AccountInv
<1>4. ASSUME NEW s \in Sessions, A!Register(s) \/ A!Resend(s) \/ A!RequestReset(s)
      PROVE  AccountInv'
  BY <1>4, GenerateAccountInv DEF A!Register, A!Resend, A!RequestReset
<1>5. ASSUME NEW s \in Sessions, A!RegisterCommit(s) PROVE AccountInv'
  <2>1. CASE exists
    <3>1. A!Leave(s) /\ born' = born /\ UNCHANGED <<A!row, date, mailed, accepted, usedAge,
                                                    spent, signedIn>>
      BY <1>5, <2>1 DEF A!RegisterCommit, A!Duplicate
    <3>2. A!TypeOK'
      BY <1>i, <3>1, Left DEF A!TypeOK, A!row, A!Secrets
    <3>3. SecretsApart'
      BY <1>i, <3>1, LeaveSecretsApart DEF A!row, SecretsApart
    <3>4. RowFirst'
      BY <1>i, <2>1, <3>1 DEF RowFirst, A!row
    <3>5. QED
      BY <1>i, <3>1, <3>2, <3>3, <3>4
         DEF AccountInv, A!row, A!SignedInIsVerified, CodeUnspent
  <2>2. CASE ~exists
    <3>1. /\ Generating(s) /\ A!ThenMail(s) /\ exists' = TRUE /\ verified' = FALSE
          /\ link' = secret[s] /\ linkAt' = date /\ code' = 0 /\ codeAt' = 0
          /\ password' = 0 /\ accepted' = accepted + 1
          /\ UNCHANGED <<date, mailed, usedAge, spent, signedIn>>
      BY <1>5, <2>2 DEF A!RegisterCommit, A!Duplicate, A!Committing, Generating
    <3>2. secret[s] \in A!Secrets
      BY <3>1, BornFacts, Written
    <3>3. A!TypeOK'
      <4>1. /\ date \in 1 .. MaxDate + 1 /\ date \in 0 .. MaxDate + 1 /\ 0 \in 0 .. MaxDate + 1
            /\ accepted + 1 \in Nat
        BY <1>i, AccountFacts DEF A!TypeOK
      <4>2. born' \in Seq(0 .. MaxDate + 1) /\ Len(born') <= MaxSecrets
        BY <1>i, <3>1, Written DEF A!TypeOK
      <4>3. /\ step' \in [Sessions -> {"idle", "loaded", "mailing"}]
            /\ kind' = kind /\ secret' = secret /\ copy' = copy
        BY <1>i, <3>1, Written DEF A!TypeOK
      <4>4. QED
        BY <1>i, <3>1, <3>2, <4>1, <4>2, <4>3 DEF A!TypeOK, A!Secrets
    <3>4. RowFirst'
      BY <1>i, <2>2, <3>1 DEF RowFirst
    <3>5. SecretsApart' /\ CodeUnspent'
      BY <3>1, WriteSecretsApart
    <3>6. A!SignedInIsVerified'
      BY <1>i, <2>2, <3>1 DEF A!SignedInIsVerified, RowFirst
    <3>7. QED
      BY <1>i, <3>1, <3>3, <3>4, <3>5, <3>6 DEF AccountInv
  <2>3. QED
    BY <2>1, <2>2
<1>6. ASSUME NEW s \in Sessions, NEW n \in A!Secrets, NEW k \in {"verify", "confirm"},
             A!Load(s, k, n), exists, k = "confirm" => IsWritten(n),
             UNCHANGED <<date, A!row, born, mailed, accepted, spent, signedIn>>
      PROVE  /\ A!TypeOK' <=> usedAge' \in Nat
             /\ RowFirst' /\ SecretsApart' /\ A!SignedInIsVerified' /\ CodeUnspent'
  <2>1. A!TypeOK' <=> usedAge' \in Nat
    BY <1>6, <1>i DEF A!TypeOK, A!Load, A!row, A!Kinds, A!Secrets
  <2>2. RowFirst'
    BY <1>6, <1>i DEF RowFirst, A!Load, A!row, A!TypeOK
  <2>3. ASSUME NEW r \in Sessions
        PROVE  /\ Generating(r)' => Generating(r) /\ r # s
               /\ Confirming(r)' => (r = s /\ k = "confirm") \/ (r # s /\ Confirming(r))
               /\ step'[r] = "mailing" => step[r] = "mailing" /\ r # s
               /\ secret'[r] = IF r = s THEN n ELSE secret[r]
    <3>1. /\ step'[s] = "loaded" /\ kind'[s] = k /\ secret'[s] = n
          /\ r # s => step'[r] = step[r] /\ kind'[r] = kind[r] /\ secret'[r] = secret[r]
      BY <1>6, <1>i DEF A!Load, A!TypeOK
    <3>2. CASE r = s
      <4>1. step'[r] = "loaded" /\ kind'[r] = k /\ secret'[r] = n
        BY <3>1, <3>2
      <4>2. ~Generating(r)' /\ (Confirming(r)' => k = "confirm")
        BY <4>1 DEF Generating, Confirming
      <4>3. QED
        BY <3>2, <4>1, <4>2
    <3>3. CASE r # s
      BY <3>1, <3>3 DEF Generating, Confirming
    <3>4. QED
      BY <3>2, <3>3
  <2>4. \A m : IsWritten(m)' <=> IsWritten(m)
    BY <1>6 DEF IsWritten
  <2>5. SecretsApart'
    <3>1. \A r \in Sessions : Confirming(r)' => IsWritten(secret'[r])
      BY <1>6, <1>i, <2>3 DEF SecretsApart
    <3>2. ASSUME NEW r \in Sessions
          PROVE  /\ Confirming(r)' => IsWritten(secret[r])'
                 /\ Generating(r)' => secret'[r] \in 1 .. Len(born') /\ born'[secret'[r]] = 0
                 /\ step'[r] = "mailing" => secret'[r] \in 1 .. Len(born')
                 /\ \A q \in Sessions \ {r} :
                      Generating(r)' /\ Generating(q)' => secret'[r] # secret'[q]
      BY <1>6, <1>i, <2>3, <2>4, <3>1 DEF SecretsApart, IsWritten
    <3>3. /\ link' # 0 => IsWritten(link)' /\ born'[link'] = linkAt' /\ linkAt' <= date'
          /\ code' # 0 => IsWritten(code)'
          /\ \A m \in spent' : IsWritten(m)'
      BY <1>6, <1>i, <2>4 DEF SecretsApart, A!row, IsWritten
    <3>4. QED
      BY <3>2, <3>3 DEF SecretsApart
  <2>6. A!SignedInIsVerified' /\ CodeUnspent'
    BY <1>6, <1>i DEF A!SignedInIsVerified, CodeUnspent, A!row
  <2>7. QED
    BY <2>1, <2>2, <2>5, <2>6
<1>7. ASSUME NEW s \in Sessions, NEW n \in A!Secrets, A!VerifyEmail(s, n) PROVE AccountInv'
  <2>1. n # 0 /\ link = n
    BY <1>7, BornFacts DEF A!VerifyEmail
  <2>2. exists /\ born[n] = linkAt /\ linkAt <= date
    BY <1>i, <2>1 DEF RowFirst, SecretsApart
  <2>3. usedAge' \in Nat /\ usedAge' <= LinkLife
    BY <1>7, <1>i, <1>t, <2>1, <2>2 DEF A!VerifyEmail
  <2>4. /\ A!Load(s, "verify", n)
        /\ UNCHANGED <<date, A!row, born, mailed, accepted, spent, signedIn>>
    BY <1>7 DEF A!VerifyEmail
  <2>5. QED
    BY <1>6, <2>2, <2>3, <2>4 DEF AccountInv
<1>8. ASSUME NEW s \in Sessions, NEW n \in A!Secrets, A!ConfirmReset(s, n) PROVE AccountInv'
  <2>1. n # 0 /\ code = n
    BY <1>8, BornFacts DEF A!ConfirmReset
  <2>2. exists /\ IsWritten(n)
    BY <1>i, <2>1 DEF RowFirst, SecretsApart
  <2>3. /\ A!Load(s, "confirm", n) /\ usedAge' = usedAge
        /\ UNCHANGED <<date, A!row, born, mailed, accepted, spent, signedIn>>
    BY <1>8 DEF A!ConfirmReset, A!history
  <2>4. QED
    BY <1>6, <1>i, <1>t, <2>2, <2>3 DEF AccountInv
<1>9. ASSUME NEW s \in Sessions, A!VerifyCommit(s) PROVE AccountInv'
  <2>1. /\ A!Leave(s) /\ born' = born /\ date' = date /\ spent' = spent /\ link' = 0 /\ code' = code
        /\ verified' = TRUE /\ exists
    BY <1>9, <1>i DEF A!VerifyCommit, A!Committing, RowFirst
  <2>2. A!TypeOK'
    BY <1>9, <1>i, <2>1, Left DEF A!VerifyCommit, A!TypeOK
  <2>3. SecretsApart'
    BY <1>i, <2>1, LeaveSecretsApart DEF SecretsApart
  <2>4. RowFirst'
    <3>1. \A r \in Sessions : step'[r] = "loaded" /\ kind'[r] # "register" => exists'
      BY <1>9, <2>1 DEF A!VerifyCommit
    <3>2. QED
      BY <1>9, <1>i, <2>1, <3>1 DEF A!VerifyCommit, RowFirst
  <2>5. QED
    BY <1>9, <1>i, <2>1, <2>2, <2>3, <2>4
       DEF A!VerifyCommit, AccountInv, A!SignedInIsVerified, CodeUnspent
<1>10. ASSUME NEW s \in Sessions, A!ResendCommit(s) \/ A!RequestCommit(s) PROVE AccountInv'
  <2>1. /\ Generating(s) /\ A!ThenMail(s) /\ exists /\ exists' = exists /\ verified' = verified
        /\ UNCHANGED <<date, password, mailed, accepted, usedAge, spent, signedIn>>
        /\ \/ link' = secret[s] /\ linkAt' = date
           \/ link' = link /\ linkAt' = linkAt
        /\ code' \in {code, secret[s]} /\ codeAt' \in {codeAt, date}
    BY <1>10, <1>i
       DEF A!ResendCommit, A!RequestCommit, A!Committing, Generating, RowFirst,
           A!VerifiedWritten, A!NewLink
  <2>2. secret[s] \in A!Secrets
    BY <2>1, BornFacts, Written
  <2>3. A!TypeOK'
    <3>1. date \in 1 .. MaxDate + 1 /\ date \in 0 .. MaxDate + 1
      BY <1>i, AccountFacts DEF A!TypeOK
    <3>2. born' \in Seq(0 .. MaxDate + 1) /\ Len(born') <= MaxSecrets
      BY <1>i, <2>1, Written DEF A!TypeOK
    <3>3. /\ step' \in [Sessions -> {"idle", "loaded", "mailing"}]
          /\ kind' = kind /\ secret' = secret /\ copy' = copy
      BY <1>i, <2>1, Written DEF A!TypeOK
    <3>4. QED
      BY <1>i, <2>1, <2>2, <3>1, <3>2, <3>3 DEF A!TypeOK, A!Secrets
  <2>4. RowFirst'
    BY <1>i, <2>1 DEF RowFirst
  <2>5. SecretsApart' /\ CodeUnspent'
    BY <2>1, WriteSecretsApart
  <2>6. QED
    BY <1>i, <2>1, <2>3, <2>4, <2>5 DEF AccountInv, A!SignedInIsVerified
<1>11. ASSUME NEW s \in Sessions, A!ConfirmCommit(s) PROVE AccountInv'
  <2>1. /\ A!Leave(s) /\ born' = born /\ date' = date /\ UNCHANGED <<link, linkAt, exists>>
        /\ code' = 0 /\ codeAt' = 0 /\ spent' = spent \cup {secret[s]} /\ verified' = verified
        /\ password' = secret[s] /\ UNCHANGED <<mailed, accepted, usedAge, signedIn>>
        /\ exists /\ IsWritten(secret[s])
    BY <1>11, <1>i
       DEF A!ConfirmCommit, A!Committing, A!CodeLeft, A!VerifiedWritten, RowFirst,
           SecretsApart, Confirming
  <2>2. secret[s] \in A!Secrets /\ 0 \notin spent'
    BY <1>i, <2>1, BornFacts DEF A!TypeOK
  <2>3. A!TypeOK'
    <3>1. 0 \in 0 .. MaxDate + 1
      BY AccountFacts
    <3>2. QED
      BY <1>i, <2>1, <2>2, <3>1, Left DEF A!TypeOK, A!Secrets
  <2>4. SecretsApart'
    BY <1>i, <2>1, LeaveSecretsApart DEF SecretsApart
  <2>5. RowFirst'
    BY <1>i, <2>1 DEF RowFirst
  <2>6. QED
    BY <1>i, <2>1, <2>2, <2>3, <2>4, <2>5
       DEF AccountInv, A!SignedInIsVerified, CodeUnspent
<1>12. ASSUME NEW s \in Sessions, A!Mail(s) \/ A!Fail(s) PROVE AccountInv'
  <2>1. /\ A!Leave(s) /\ mailed' \in {mailed, mailed \cup {secret[s]}}
        /\ step[s] # "mailing" => mailed' = mailed
        /\ UNCHANGED <<date, A!row, born, accepted, usedAge, spent, signedIn>>
    BY <1>12 DEF A!Mail, A!Fail, A!history
  <2>2. mailed' \subseteq A!Secrets
    <3>1. step[s] = "mailing" => secret[s] \in A!Secrets
      BY <1>i, BornFacts DEF SecretsApart
    <3>2. QED
      BY <1>i, <2>1, <3>1 DEF A!TypeOK
  <2>3. A!TypeOK'
    BY <1>i, <2>1, <2>2, Left DEF A!TypeOK, A!row, A!Secrets
  <2>4. SecretsApart'
    BY <1>i, <2>1, LeaveSecretsApart DEF SecretsApart, A!row
  <2>5. RowFirst'
    <3>1. ASSUME NEW r \in Sessions, step'[r] = "loaded", kind'[r] # "register"
          PROVE  r # s /\ step[r] = "loaded" /\ kind[r] # "register"
      BY <2>1, <3>1, Left DEF Generating, Confirming
    <3>2. QED
      BY <1>i, <2>1, <3>1 DEF RowFirst, A!row
  <2>6. QED
    BY <1>i, <2>1, <2>3, <2>4, <2>5
       DEF AccountInv, A!row, A!SignedInIsVerified, CodeUnspent
<1>13. QED
  BY <1>1, <1>2, <1>3, <1>4, <1>5, <1>7, <1>8, <1>9, <1>10, <1>11, <1>12 DEF A!Next

\* So it holds of every behaviour.
LEMMA AccountInvAlways == A!Spec => []AccountInv
<1>1. AccountInv /\ [A!Next]_(A!vars) => AccountInv'
  BY AccountInvStep DEF account, A!vars, A!row, A!session, A!history
<1>2. QED
  BY AccountInvInit, <1>1, PTL DEF A!Spec

\* Whoever is signed in has an address that was verified by a link in its life,
\* for any number of handlers that overlap and whatever they load, commit or
\* lose.
THEOREM SignedInIsVerifiedInTime == A!Spec => []VerifiedByLiveLink
<1>1. AccountInv => VerifiedByLiveLink
  BY DEF AccountInv, VerifiedByLiveLink, A!VerifiedInTime
<1>2. QED
  BY AccountInvAlways, <1>1, PTL

\* However many registrations overlap, one is accepted.
THEOREM OneRegistration == A!Spec => []OneAccount
<1>1. AccountInv => OneAccount
  BY DEF AccountInv, RowFirst, OneAccount, A!OneAccount
<1>2. QED
  BY AccountInvAlways, <1>1, PTL

\* The code a handler that starts has compared is that of the row.
LEMMA StartsWithTheCode ==
  ASSUME AccountInv, A!Next,
         NEW s \in Sessions, step[s] = "idle", step'[s] = "loaded", kind'[s] = "confirm"
  PROVE  secret'[s] = code
<1>i. /\ step \in [Sessions -> {"idle", "loaded", "mailing"}]
      /\ kind \in [Sessions -> A!Kinds \cup {"none"}]
      /\ secret \in [Sessions -> {0} \cup A!Secrets]
  BY DEF AccountInv, A!TypeOK
<1>1. CASE A!Tick \/ A!Login \/ A!logout
  BY <1>1 DEF A!Tick, A!Login, A!logout, A!session
<1>2. ASSUME NEW r \in Sessions, NEW k, NEW n, A!Load(r, k, n), k # "confirm" PROVE FALSE
  BY <1>2, <1>i DEF A!Load
<1>3. ASSUME NEW r \in Sessions, A!Register(r) \/ A!Resend(r) \/ A!RequestReset(r)
      PROVE  FALSE
  BY <1>2, <1>3 DEF A!Register, A!Resend, A!RequestReset, A!Generate
<1>4. ASSUME NEW r \in Sessions, NEW n \in A!Secrets, A!VerifyEmail(r, n) PROVE FALSE
  BY <1>2, <1>4 DEF A!VerifyEmail
<1>5. ASSUME NEW r \in Sessions, NEW n \in A!Secrets, A!ConfirmReset(r, n)
      PROVE  secret'[s] = code
  BY <1>5, <1>i DEF A!ConfirmReset, A!Load
<1>6. ASSUME NEW r \in Sessions, A!Leave(r) \/ A!ThenMail(r) PROVE FALSE
  BY <1>6, <1>i DEF A!Leave, A!ThenMail
<1>7. ASSUME NEW r \in Sessions,
             \/ A!RegisterCommit(r) \/ A!VerifyCommit(r) \/ A!ResendCommit(r)
             \/ A!RequestCommit(r) \/ A!ConfirmCommit(r) \/ A!Mail(r) \/ A!Fail(r)
      PROVE  FALSE
  BY <1>6, <1>7
     DEF A!RegisterCommit, A!VerifyCommit, A!ResendCommit, A!RequestCommit,
         A!ConfirmCommit, A!Mail, A!Fail
<1>8. QED
  BY <1>1, <1>3, <1>4, <1>5, <1>7 DEF A!Next

\* From the step in which a code set a password on, every confirmation that
\* compares it is refused.
THEOREM SpentCodesAreRefused == A!Spec => SpentIsRefused
<1>1. ASSUME AccountInv, [A!Next]_(A!vars)
      PROVE  [\A s \in Sessions :
                step[s] = "idle" /\ step'[s] = "loaded" /\ kind'[s] = "confirm"
                  => secret'[s] \notin spent]_(A!vars)
  BY <1>1, StartsWithTheCode DEF AccountInv, CodeUnspent
<1>2. QED
  BY <1>1, AccountInvAlways, PTL DEF A!Spec, SpentIsRefused, A!SpentIsRefused

-----------------------------------------------------------------------------
(* The rate limiter.                                                       *)

Working == {"purge", "pop", "check", "append"}
Uses(t, d) == at[t] \in Working /\ ts[t] = d
Appending(d) == {t \in Threads : at[t] = "append" /\ ts[t] = d}
Pending(t) == at[t] = "create"

\* What is in the deques, and a request's place in passed once it has left them.
Slots == {p \in Threads \X (Nat \ {0}) : p[2] <= Len(deque[p[1]])}
Gone == Len(passed) - Len(deque[store])

\* A deque is used after it was created, and created once.
Created ==
  /\ store = NoDeque =>
       /\ passed = <<>>
       /\ \A t \in Threads : /\ deque[t] = <<>> /\ ts[t] = NoDeque
                             /\ at[t] \in {"out", "create"}
  /\ \A t \in Threads :
       /\ now[t] <= clock
       /\ at[t] \in Working => ts[t] # NoDeque
       /\ Pending(t) => deque[t] = <<>> /\ store # t /\ \A r \in Threads : ts[r] # t

\* While nobody is stale, nobody is forgotten.
NobodyForgotten ==
  clock <= Window =>
    /\ IsFiniteSet(Slots) /\ Cardinality(Slots) = Len(passed)
    /\ \A t \in Threads : at[t] # "pop"

\* All threads, one after the other.
Lines(order, n) ==
  /\ order \in [1 .. n -> Threads]
  /\ \A i, j \in 1 .. n : order[i] = order[j] => i = j
  /\ \A t \in Threads : \E i \in 1 .. n : order[i] = t

\* The threads in the order in which they create their deques, the first of them
\* without creating one: a deque is used by nobody who is after its creator, and
\* holds no more than the limit and those who were let in at the same time.
InOrder(order, q) ==
  LET n == Cardinality(Threads) IN
  /\ Lines(order, n)
  /\ \A i \in 1 .. n : Pending(order[i]) <=> i > q
  /\ store # NoDeque => q \in 1 .. n /\ order[q] = store
  /\ \A i, j \in 1 .. n : Uses(order[i], order[j]) => i <= j
  /\ \A i \in 1 .. n :
       Len(deque[order[i]]) + Cardinality(Appending(order[i])) <= MaxReq - 1 + i

SomeOrder ==
  \E order \in [1 .. Cardinality(Threads) -> Threads],
     q \in 0 .. Cardinality(Threads) : InOrder(order, q)

\* One at a time: what passed is in order and spread, the deque is the end of it,
\* what left the deque is out of the window, and the thread inside has seen to it.
Spread ==
  /\ \A i, j \in DOMAIN passed : i <= j => passed[i] <= passed[j]
  /\ \A i, j \in DOMAIN passed : i + MaxReq <= j => passed[i] + Window < passed[j]
  /\ \A i \in DOMAIN passed :
       passed[i] <= clock /\ \A t \in L!Inside : passed[i] <= now[t]

EndOfPassed ==
  store # NoDeque =>
    /\ Len(deque[store]) <= MaxReq /\ Len(deque[store]) <= Len(passed)
    /\ \A j \in DOMAIN deque[store] : deque[store][j] = passed[Gone + j]
    /\ \A i \in 1 .. Gone :
         /\ passed[i] + Window < clock
         /\ \A t \in L!Inside : passed[i] + Window < now[t]

Progress ==
  store # NoDeque =>
    \A t \in L!Inside :
      /\ ~Pending(t)
      /\ at[t] \in Working => ts[t] = store
      /\ at[t] = "pop" => deque[store] # <<>> /\ L!Stale(t, Head(deque[store]))
      /\ at[t] \in {"check", "append"} =>
           deque[store] = <<>> \/ ~L!Stale(t, Head(deque[store]))
      /\ at[t] = "append" => Len(deque[store]) < MaxReq

OneAtATime ==
  ~raced =>
    /\ \A r, t \in L!Inside : r = t
    /\ Spread /\ EndOfPassed /\ Progress

LimiterInv == L!TypeOK /\ Created /\ NobodyForgotten /\ SomeOrder /\ OneAtATime

\* The constants of the limiter are numbers, and its threads are finitely many.
LEMMA LimiterFacts ==
  /\ MaxReq \in Nat \ {0} /\ Window \in Nat
  /\ MaxClock \in Nat /\ MaxCalls \in Nat
  /\ NoDeque \notin Threads /\ IsFiniteSet(Threads)
<1>1. L!IsFiniteSet(Threads) <=> IsFiniteSet(Threads)
  BY DEF L!IsFiniteSet, IsFiniteSet
<1>2. QED
  BY <1>1, CustomerAssumption DEF L!LimiterAssumption

\* What a thread does, tick by tick.
Acts(t) ==
  \/ L!Enter(t) \/ L!Create(t) \/ L!Fetch(t) \/ L!Purge(t) \/ L!Pop(t)
  \/ L!Check(t) \/ L!Let(t)

\* A step is one of the clock or of one thread.
LEMMA LimiterSteps ==
  ASSUME [L!Next]_limiter
  PROVE  L!Tick \/ (\E t \in Threads : Acts(t)) \/ UNCHANGED limiter
BY DEF L!Next, Acts

\* The initial states satisfy what does not count anything.
LEMMA LimiterInit ==
  ASSUME L!Init
  PROVE  L!TypeOK /\ Created /\ OneAtATime
<1> USE LimiterFacts
<1>1. <<>> \in Seq(0 .. MaxClock)
  BY EmptySeq
<1>2. L!TypeOK
  <2>1. /\ clock \in 0 .. MaxClock /\ calls \in 0 .. MaxCalls
        /\ passed \in Seq(0 .. MaxClock)
    BY <1>1 DEF L!Init
  <2>2. /\ deque \in [Threads -> Seq(0 .. MaxClock)]
        /\ now \in [Threads -> 0 .. MaxClock]
    BY <1>1 DEF L!Init
  <2>3. QED
    BY <2>1, <2>2 DEF L!Init, L!TypeOK
<1>3. Created
  BY DEF L!Init, Created, Working, Pending
<1>4. OneAtATime
  BY DEF L!Init, OneAtATime, L!Inside, Spread, EndOfPassed, Progress
<1>5. QED
  BY <1>2, <1>3, <1>4

\* Where a thread works, its deque is one of the deques.
LEMMA DequeInUse ==
  ASSUME L!TypeOK, Created, NEW t \in Threads, at[t] \in Working
  PROVE  /\ ts[t] \in Threads /\ L!Times(t) = deque[ts[t]]
         /\ L!Times(t) \in Seq(0 .. MaxClock)
BY DEF L!TypeOK, Created, L!Times

\* Every step keeps the types.
LEMMA LimiterTypes ==
  ASSUME L!TypeOK, Created, [L!Next]_limiter
  PROVE  L!TypeOK'
<1> USE LimiterFacts
<1>1. CASE L!Tick
  BY <1>1 DEF L!Tick, L!TypeOK
<1>2. ASSUME NEW t \in Threads, L!Enter(t) PROVE L!TypeOK'
  BY <1>2 DEF L!Enter, L!Goto, L!TypeOK
<1>3. ASSUME NEW t \in Threads, L!Create(t) PROVE L!TypeOK'
  <2>1. <<>> \in Seq(0 .. MaxClock)
    BY EmptySeq
  <2>2. QED
    BY <1>3, <2>1 DEF L!Create, L!Goto, L!TypeOK
<1>4. ASSUME NEW t \in Threads, L!Fetch(t) \/ L!Purge(t) \/ L!Check(t)
      PROVE  L!TypeOK'
  <2>1. CASE L!Fetch(t)
    BY <2>1 DEF L!Fetch, L!Goto, L!TypeOK
  <2>2. CASE L!Purge(t)
    BY <2>2 DEF L!Purge, L!Goto, L!TypeOK
  <2>3. CASE L!Check(t)
    BY <2>3 DEF L!Check, L!Goto, L!TypeOK
  <2>4. QED
    BY <1>4, <2>1, <2>2, <2>3
<1>5. ASSUME NEW t \in Threads, L!Pop(t) PROVE L!TypeOK'
  <2>1. CASE L!Times(t) = <<>>
    BY <1>5, <2>1 DEF L!Pop, L!Goto, L!TypeOK
  <2>2. CASE L!Times(t) # <<>>
    <3>1. Tail(deque[ts[t]]) \in Seq(0 .. MaxClock)
      BY <1>5, <2>2, DequeInUse, HeadTailProperties DEF L!Pop, Working
    <3>2. deque' \in [Threads -> Seq(0 .. MaxClock)]
      BY <1>5, <2>2, <3>1 DEF L!Pop, L!TypeOK
    <3>3. QED
      BY <1>5, <2>2, <3>2 DEF L!Pop, L!Goto, L!TypeOK
  <2>3. QED
    BY <2>1, <2>2
<1>6. ASSUME NEW t \in Threads, L!Let(t) PROVE L!TypeOK'
  <2>1. Append(deque[ts[t]], now[t]) \in Seq(0 .. MaxClock)
    BY <1>6, DequeInUse, AppendProperties DEF L!Let, Working, L!TypeOK
  <2>2. passed' \in Seq(0 .. MaxClock)
    BY <1>6, AppendProperties DEF L!Let, L!TypeOK
  <2>3. deque' \in [Threads -> Seq(0 .. MaxClock)]
    BY <1>6, <2>1 DEF L!Let, L!TypeOK
  <2>4. QED
    BY <1>6, <2>2, <2>3 DEF L!Let, L!Goto, L!TypeOK
<1>7. CASE UNCHANGED limiter
  BY <1>7 DEF limiter, L!TypeOK
<1>8. QED
  BY <1>1, <1>2, <1>3, <1>4, <1>5, <1>6, <1>7, LimiterSteps DEF Acts

\* A deque is created before it is used.
LEMMA CreatedKept ==
  ASSUME L!TypeOK, Created, [L!Next]_limiter
  PROVE  Created'
<1> USE LimiterFacts
<1>1. CASE L!Tick
  BY <1>1 DEF L!Tick, L!TypeOK, Created, Pending
<1>2. ASSUME NEW t \in Threads, L!Enter(t) PROVE Created'
  BY <1>2 DEF L!Enter, L!Goto, L!TypeOK, Created, Pending, Working
<1>3. ASSUME NEW t \in Threads, L!Create(t) PROVE Created'
  BY <1>3 DEF L!Create, L!Goto, L!TypeOK, Created, Pending, Working
<1>4. ASSUME NEW t \in Threads, L!Fetch(t) PROVE Created'
  BY <1>4 DEF L!Fetch, L!Goto, L!TypeOK, Created, Pending, Working
<1>5. ASSUME NEW t \in Threads, L!Purge(t) \/ L!Check(t) PROVE Created'
  BY <1>5, SMTT(30) DEF L!Purge, L!Check, L!Goto, L!TypeOK, Created, Pending, Working
<1>6. ASSUME NEW t \in Threads, L!Pop(t) \/ L!Let(t) PROVE Created'
  <2>1. /\ at[t] \in Working /\ at' \in {[at EXCEPT ![t] = "out"], [at EXCEPT ![t] = "purge"]}
        /\ \A r \in Threads \ {ts[t]} : deque'[r] = deque[r]
        /\ UNCHANGED <<clock, store, now, ts>>
    BY <1>6 DEF L!Pop, L!Let, L!Goto, L!TypeOK, Working
  <2>2. \A r \in Threads : Pending(r)' => Pending(r) /\ r # ts[t]
    BY <2>1 DEF Pending, Created, L!TypeOK
  <2>3. store # NoDeque
    BY <2>1 DEF Created, Working
  <2>4. QED
    BY <2>1, <2>2, <2>3 DEF Created, L!TypeOK, Pending, Working
<1>7. CASE UNCHANGED limiter
  BY <1>7 DEF limiter, Created, Pending
<1>8. QED
  BY <1>1, <1>2, <1>3, <1>4, <1>5, <1>6, <1>7, LimiterSteps DEF Acts

\* While requests come one at a time, what passed stays spread.
LEMMA OneAtATimeKept ==
  ASSUME L!TypeOK, L!TypeOK', Created, OneAtATime, [L!Next]_limiter
  PROVE  OneAtATime'
<1> USE LimiterFacts
<1> SUFFICES ASSUME ~raced' PROVE OneAtATime'
  BY DEF OneAtATime
<1>i. ~raced /\ (\A r, t \in L!Inside : r = t) /\ Spread /\ EndOfPassed /\ Progress
  <2>1. L!Tick => raced' = raced
    BY DEF L!Tick
  <2>2. \A t \in Threads : Acts(t) => raced' = raced \/ raced' = (raced \/ L!Inside # {})
    BY DEF Acts, L!Enter, L!Create, L!Fetch, L!Purge, L!Pop, L!Check, L!Let
  <2>3. ~raced
    BY <2>1, <2>2, LimiterSteps DEF limiter
  <2>4. QED
    BY <2>3 DEF OneAtATime
<1>b. /\ passed \in Seq(0 .. MaxClock) /\ Len(passed) \in Nat
      /\ DOMAIN passed = 1 .. Len(passed)
      /\ \A i \in 1 .. Len(passed) : passed[i] \in 0 .. MaxClock /\ passed[i] \in Int
      /\ clock \in 0 .. MaxClock /\ clock \in Int
      /\ \A t \in Threads : /\ now[t] \in 0 .. MaxClock /\ now[t] \in Int
                            /\ now[t] <= clock
  <2>1. /\ passed \in Seq(0 .. MaxClock) /\ clock \in 0 .. MaxClock
        /\ \A t \in Threads : now[t] \in 0 .. MaxClock
    BY DEF L!TypeOK
  <2>2. \A t \in Threads : now[t] <= clock
    BY DEF Created
  <2>3. /\ Len(passed) \in Nat /\ DOMAIN passed = 1 .. Len(passed)
        /\ \A i \in 1 .. Len(passed) : passed[i] \in 0 .. MaxClock
    BY <2>1
  <2>4. 0 .. MaxClock \subseteq Int
    OBVIOUS
  <2>5. QED
    BY <2>1, <2>2, <2>3, <2>4
<1>c. store # NoDeque =>
        /\ store \in Threads /\ deque[store] \in Seq(0 .. MaxClock)
        /\ Len(deque[store]) \in Nat /\ DOMAIN deque[store] = 1 .. Len(deque[store])
        /\ Len(deque[store]) <= Len(passed) /\ Len(deque[store]) <= MaxReq
        /\ Gone \in Nat /\ Gone = Len(passed) - Len(deque[store])
  <2>1. ASSUME store # NoDeque
        PROVE  /\ store \in Threads /\ deque[store] \in Seq(0 .. MaxClock)
               /\ Len(deque[store]) \in Nat /\ DOMAIN deque[store] = 1 .. Len(deque[store])
               /\ Len(deque[store]) <= Len(passed) /\ Len(deque[store]) <= MaxReq
    BY <1>i, <2>1 DEF L!TypeOK, EndOfPassed
  <2>2. QED
    BY <1>b, <2>1 DEF Gone
<1>1. CASE L!Tick
  <2>1. L!Inside' = L!Inside /\ Gone' = Gone
    BY <1>1 DEF L!Tick, L!Inside, Gone
  <2>2. Spread'
    BY <1>i, <1>1, <2>1 DEF L!Tick, Spread, L!TypeOK
  <2>3. EndOfPassed'
    <3>1. /\ clock' = clock + 1
          /\ UNCHANGED <<store, deque, now, passed>>
      BY <1>1 DEF L!Tick
    <3>2. ASSUME store # NoDeque, NEW i \in 1 .. Gone
          PROVE  passed[i] + Window < clock + 1
      <4>1. passed[i] + Window < clock /\ passed[i] \in Int
        BY <1>i, <1>b, <1>c, <3>2 DEF EndOfPassed
      <4>2. QED
        BY <1>b, <4>1
    <3>3. QED
      BY <1>i, <2>1, <3>1, <3>2 DEF EndOfPassed
  <2>4. Progress'
    BY <1>i, <1>1, <2>1 DEF L!Tick, Progress, L!Stale, Pending
  <2>5. QED
    BY <1>i, <2>1, <2>2, <2>3, <2>4 DEF OneAtATime
<1>2. ASSUME NEW t \in Threads, L!Enter(t) PROVE OneAtATime'
  <2>1. L!Inside = {} /\ L!Inside' = {t} /\ now'[t] = clock /\ Gone' = Gone
    <3>1. L!Inside = {}
      BY <1>2 DEF L!Enter
    <3>2. at'[t] # "out" /\ \A r \in Threads \ {t} : at'[r] = at[r]
      BY <1>2 DEF L!Enter, L!Goto, L!TypeOK
    <3>3. now'[t] = clock /\ Gone' = Gone
      BY <1>2 DEF L!Enter, L!TypeOK, Gone
    <3>4. QED
      BY <3>1, <3>2, <3>3 DEF L!Inside
  <2>2. UNCHANGED <<clock, store, deque, passed>>
    BY <1>2 DEF L!Enter
  <2>3. Spread'
    BY <1>i, <2>1, <2>2 DEF Spread
  <2>4. EndOfPassed'
    BY <1>i, <2>1, <2>2 DEF EndOfPassed
  <2>5. Progress'
    BY <1>2, <2>1, <2>2 DEF Progress, L!Enter, L!Goto, L!TypeOK, Pending, Working
  <2>6. QED
    BY <2>1, <2>3, <2>4, <2>5 DEF OneAtATime
<1> DEFINE Inner(t) == at[t] # "out" /\ L!Inside = {t} /\ L!Inside' \subseteq {t}
<1>a. ASSUME NEW t \in Threads, at[t] # "out",
             \E place : at' = [at EXCEPT ![t] = place]
      PROVE  Inner(t)
  BY <1>i, <1>a, SMTT(30) DEF L!Inside, L!TypeOK
<1>3. ASSUME NEW t \in Threads, L!Create(t) PROVE OneAtATime'
  <2>1. Inner(t)
    BY <1>3, <1>a DEF L!Create, L!Goto
  <2>2. store = NoDeque
    BY <1>i, <1>3, <2>1 DEF Progress, L!Create, Pending
  <2>3. passed = <<>> /\ passed' = <<>> /\ deque'[t] = <<>> /\ store' = t
    BY <1>3, <2>2 DEF Created, L!Create, L!TypeOK
  <2>4. Spread'
    BY <2>3 DEF Spread
  <2>5. EndOfPassed'
    BY <2>3 DEF EndOfPassed, Gone
  <2>6. Progress'
    BY <1>3, <2>1 DEF Progress, L!Create, L!Goto, L!TypeOK, Pending, Working
  <2>7. QED
    BY <2>1, <2>4, <2>5, <2>6 DEF OneAtATime
<1>4. ASSUME NEW t \in Threads, L!Fetch(t) \/ L!Purge(t) \/ L!Check(t)
      PROVE  OneAtATime'
  <2>1. Inner(t) /\ Gone' = Gone
    BY <1>4, <1>a DEF L!Fetch, L!Purge, L!Check, L!Goto, Gone
  <2>2. UNCHANGED <<clock, store, deque, now, passed>>
    BY <1>4 DEF L!Fetch, L!Purge, L!Check
  <2>3. Spread'
    BY <1>i, <2>1, <2>2 DEF Spread
  <2>4. EndOfPassed'
    BY <1>i, <2>1, <2>2 DEF EndOfPassed
  <2>5. CASE L!Fetch(t)
    <3>1. Progress'
      BY <2>1, <2>5 DEF Progress, L!Fetch, L!Goto, L!TypeOK, Pending, Working
    <3>2. QED
      BY <2>1, <2>3, <2>4, <3>1 DEF OneAtATime
  <2>6. CASE L!Purge(t) \/ L!Check(t)
    <3>1. store # NoDeque /\ ts' = ts
      BY <2>6 DEF Created, L!Purge, L!Check, Working
    <3>2. at[t] \in Working /\ ts[t] = store
      BY <1>i, <2>1, <2>6, <3>1 DEF Progress, L!Purge, L!Check, Working
    <3>3. Progress'
      <4>1. CASE L!Purge(t)
        BY <2>1, <2>2, <3>1, <3>2, <4>1
           DEF Progress, L!Purge, L!Goto, L!TypeOK, Pending, Working, L!Times, L!Stale
      <4>2. CASE L!Check(t)
        <5>1. Len(deque[store]) \in Nat
          BY <3>1 DEF L!TypeOK
        <5>2. deque[store] = <<>> \/ ~L!Stale(t, Head(deque[store]))
          BY <1>i, <2>1, <3>1, <4>2 DEF Progress, L!Check
        <5>3. at'[t] = "append" => Len(deque[store]) < MaxReq
          BY <3>2, <4>2, <5>1 DEF L!Check, L!Goto, L!TypeOK, L!Times
        <5>4. at'[t] \in {"out", "append"}
          BY <4>2 DEF L!Check, L!Goto, L!TypeOK
        <5>5. QED
          BY <2>1, <2>2, <3>1, <3>2, <5>2, <5>3, <5>4
             DEF Progress, Pending, Working, L!Stale
      <4>3. QED
        BY <2>6, <4>1, <4>2
    <3>4. QED
      BY <2>1, <2>3, <2>4, <3>3 DEF OneAtATime
  <2>7. QED
    BY <1>4, <2>5, <2>6
<1>5. ASSUME NEW t \in Threads, L!Pop(t) PROVE OneAtATime'
  <2>1. Inner(t)
    BY <1>5, <1>a DEF L!Pop, L!Goto
  <2>2. store # NoDeque /\ at[t] \in Working
    BY <1>5 DEF Created, L!Pop, Working
  <2>3. /\ ts[t] = store /\ store \in Threads
        /\ deque[store] # <<>> /\ L!Stale(t, Head(deque[store]))
    BY <1>i, <1>5, <2>1, <2>2 DEF Progress, L!Pop, Working, L!TypeOK
  <2>4. /\ deque'[store] = Tail(deque[store]) /\ at'[t] = "purge"
        /\ UNCHANGED <<clock, store, now, ts, passed>>
    BY <1>5, <2>3 DEF L!Pop, L!Times, L!Goto, L!TypeOK
  <2>5. /\ deque[store] \in Seq(0 .. MaxClock)
        /\ Len(deque'[store]) = Len(deque[store]) - 1 /\ Len(deque[store]) \in Nat \ {0}
        /\ \A j \in DOMAIN deque'[store] : deque'[store][j] = deque[store][j + 1]
        /\ Head(deque[store]) = deque[store][1]
    BY <2>3, <2>4, HeadTailProperties DEF L!TypeOK
  <2>6. passed \in Seq(0 .. MaxClock) /\ Len(passed) \in Nat
    BY DEF L!TypeOK
  <2>7. Gone' = Gone + 1 /\ Gone \in Nat
    <3>1. Gone' = Len(passed) - (Len(deque[store]) - 1)
      BY <2>4, <2>5 DEF Gone
    <3>2. /\ Gone = Len(passed) - Len(deque[store]) /\ Gone \in Nat
          /\ Len(deque[store]) \in Int /\ Len(passed) \in Int
      BY <1>c, <2>2, <2>6
    <3>3. QED
      BY <3>1, <3>2
  <2>8. passed[Gone + 1] = Head(deque[store]) /\ Gone + 1 \in DOMAIN passed
    <3>1. 1 \in DOMAIN deque[store]
      BY <2>5
    <3>2. passed[Gone + 1] = deque[store][1]
      BY <1>i, <2>2, <3>1 DEF EndOfPassed
    <3>3. /\ Gone = Len(passed) - Len(deque[store]) /\ Gone \in Nat
          /\ Len(deque[store]) \in Nat \ {0} /\ Len(passed) \in Nat
      BY <1>c, <2>2, <2>5, <2>6
    <3>4. Gone + 1 \in 1 .. Len(passed)
      BY <3>3
    <3>5. QED
      BY <1>b, <2>5, <3>2, <3>4
  <2>9. passed[Gone + 1] + Window < now[t] /\ now[t] <= clock
    <3>1. Head(deque[store]) < now[t] - Window /\ Head(deque[store]) \in Int
      BY <1>b, <2>3, <2>8 DEF L!Stale
    <3>2. QED
      BY <1>b, <2>8, <3>1
  <2>10. Spread'
    BY <1>i, <2>1, <2>4 DEF Spread
  <2>11. EndOfPassed'
    <3>1. /\ Len(deque'[store]) <= MaxReq /\ Len(deque'[store]) <= Len(passed)
      BY <1>i, <2>2, <2>5, <2>6 DEF EndOfPassed
    <3>2. ASSUME NEW j \in DOMAIN deque'[store]
          PROVE  deque'[store][j] = passed[Gone + 1 + j]
      <4>1. DOMAIN deque'[store] = 1 .. Len(deque[store]) - 1
        <5>1. Tail(deque[store]) \in Seq(0 .. MaxClock)
          BY <2>3, <2>5, HeadTailProperties
        <5>2. QED
          BY <2>4, <2>5, <5>1
      <4>2. j + 1 \in DOMAIN deque[store] /\ j \in Nat
        BY <1>c, <2>2, <2>5, <3>2, <4>1, SMTT(30)
      <4>3. deque[store][j + 1] = passed[Gone + (j + 1)]
        BY <1>i, <2>2, <4>2 DEF EndOfPassed
      <4>4. QED
        BY <2>5, <2>7, <4>2, <4>3
    <3>3. ASSUME NEW j \in 1 .. Gone + 1
          PROVE  passed[j] + Window < clock /\ passed[j] + Window < now[t]
      <4>1. CASE j = Gone + 1
        <5>1. passed[j] \in Int
          BY <1>b, <2>8, <4>1
        <5>2. passed[j] + Window < now[t] /\ now[t] <= clock
          BY <2>9, <4>1
        <5>3. QED
          BY <1>b, <5>1, <5>2
      <4>2. CASE j # Gone + 1
        BY <1>i, <2>1, <2>2, <2>7, <4>2 DEF EndOfPassed
      <4>3. QED
        BY <4>1, <4>2
    <3>4. QED
      BY <2>1, <2>4, <2>7, <3>1, <3>2, <3>3 DEF EndOfPassed
  <2>12. Progress'
    BY <2>1, <2>3, <2>4 DEF Progress, Pending, Working
  <2>13. QED
    BY <2>1, <2>10, <2>11, <2>12 DEF OneAtATime
<1>6. ASSUME NEW t \in Threads, L!Let(t) PROVE OneAtATime'
  <2>1. Inner(t) /\ L!Inside' = {}
    <3>1. Inner(t)
      BY <1>6, <1>a DEF L!Let, L!Goto
    <3>2. QED
      BY <1>6, <3>1 DEF L!Let, L!Goto, L!Inside, L!TypeOK
  <2>2. store # NoDeque /\ at[t] \in Working
    BY <1>6 DEF Created, L!Let, Working
  <2>3. ts[t] = store /\ store \in Threads /\ Len(deque[store]) < MaxReq
    BY <1>i, <1>6, <2>1, <2>2 DEF Progress, L!Let, Working, L!TypeOK
  <2>4. /\ deque'[store] = Append(deque[store], now[t])
        /\ passed' = Append(passed, now[t])
        /\ UNCHANGED <<clock, store, now, ts>>
    BY <1>6, <2>3 DEF L!Let, L!TypeOK
  <2>5. /\ deque[store] \in Seq(0 .. MaxClock) /\ Len(deque[store]) \in Nat
        /\ passed \in Seq(0 .. MaxClock) /\ Len(passed) \in Nat
        /\ now[t] \in 0 .. MaxClock /\ now[t] <= clock /\ clock \in 0 .. MaxClock
    BY <1>b, <1>c, <2>2
  <2>6. /\ DOMAIN passed' = 1 .. Len(passed) + 1 /\ passed'[Len(passed) + 1] = now[t]
        /\ \A i \in 1 .. Len(passed) : passed'[i] = passed[i]
    BY <2>4, <2>5, AppendProperties
  <2>7. /\ DOMAIN deque'[store] = 1 .. Len(deque[store]) + 1
        /\ deque'[store][Len(deque[store]) + 1] = now[t]
        /\ \A i \in 1 .. Len(deque[store]) : deque'[store][i] = deque[store][i]
        /\ Len(deque'[store]) = Len(deque[store]) + 1 /\ Len(passed') = Len(passed) + 1
    BY <2>4, <2>5, AppendProperties
  <2>8. Gone' = Gone /\ Gone \in Nat /\ Gone = Len(passed) - Len(deque[store])
    <3>1. Gone' = Len(passed') - Len(deque'[store])
      BY <2>4 DEF Gone
    <3>2. /\ Gone = Len(passed) - Len(deque[store]) /\ Gone \in Nat
          /\ Len(deque[store]) \in Int /\ Len(passed) \in Int
      BY <1>c, <2>2, <2>5
    <3>3. Gone' = (Len(passed) + 1) - (Len(deque[store]) + 1)
      BY <2>7, <3>1
    <3>4. QED
      BY <3>2, <3>3
  <2>9. \A i \in 1 .. Len(passed) : /\ passed[i] \in 0 .. MaxClock
                                     /\ passed[i] <= now[t] /\ passed[i] <= clock
    BY <1>i, <2>1, <2>5 DEF Spread
  <2>10. \A i \in 1 .. Gone : passed[i] + Window < now[t] /\ passed[i] + Window < clock
    BY <1>i, <2>1, <2>2 DEF EndOfPassed
  <2>11. Spread'
    <3>1. ASSUME NEW i \in DOMAIN passed', NEW j \in DOMAIN passed', i <= j
          PROVE  passed'[i] <= passed'[j]
      <4>1. CASE j = Len(passed) + 1
        <5>1. CASE i = Len(passed) + 1
          BY <2>5, <2>6, <4>1, <5>1
        <5>2. CASE i # Len(passed) + 1
          BY <2>5, <2>6, <2>9, <3>1, <4>1, <5>2, SMTT(30)
        <5>3. QED
          BY <5>1, <5>2
      <4>2. CASE j # Len(passed) + 1
        <5>1. i \in 1 .. Len(passed) /\ j \in 1 .. Len(passed)
          <6>1. i \in 1 .. Len(passed) + 1 /\ j \in 1 .. Len(passed) + 1 /\ i <= j
            BY <2>5, <2>6, <3>1
          <6>2. QED
            BY <2>5, <4>2, <6>1
        <5>2. passed[i] <= passed[j]
          BY <1>b, <1>i, <3>1, <5>1 DEF Spread
        <5>3. QED
          BY <2>6, <5>1, <5>2
      <4>3. QED
        BY <4>1, <4>2
    <3>2. ASSUME NEW i \in DOMAIN passed', NEW j \in DOMAIN passed', i + MaxReq <= j
          PROVE  passed'[i] + Window < passed'[j]
      <4>1. CASE j = Len(passed) + 1
        <5>1. i \in 1 .. Gone /\ i \in 1 .. Len(passed)
          <6> DEFINE p == Len(passed)
                     g == Gone
                     h == Len(deque[store])
          <6>1. i \in 1 .. p + 1 /\ i + MaxReq <= p + 1
            BY <2>6, <3>2, <4>1
          <6>2. p \in Nat /\ g \in Nat /\ h \in Nat /\ g = p - h /\ h < MaxReq
            BY <2>3, <2>5, <2>8
          <6> HIDE DEF p, g, h
          <6>3. i \in 1 .. g /\ i \in 1 .. p
            BY <6>1, <6>2
          <6>4. QED
            BY <6>3 DEF p, g
        <5>2. QED
          BY <2>6, <2>10, <4>1, <5>1
      <4>2. CASE j # Len(passed) + 1
        <5>1. i \in 1 .. Len(passed) /\ j \in 1 .. Len(passed)
          <6>1. i \in 1 .. Len(passed) + 1 /\ j \in 1 .. Len(passed) + 1 /\ i < j
            BY <2>5, <2>6, <3>2
          <6>2. QED
            BY <2>5, <4>2, <6>1
        <5>2. passed[i] + Window < passed[j]
          BY <1>b, <1>i, <3>2, <5>1 DEF Spread
        <5>3. QED
          BY <2>6, <5>1, <5>2
      <4>3. QED
        BY <4>1, <4>2
    <3>3. \A i \in DOMAIN passed' : passed'[i] <= clock'
      BY <2>4, <2>5, <2>6, <2>9
    <3>4. QED
      BY <2>1, <3>1, <3>2, <3>3 DEF Spread
  <2>12. EndOfPassed'
    <3>1. Len(deque'[store]) <= MaxReq /\ Len(deque'[store]) <= Len(passed')
      BY <1>i, <2>2, <2>3, <2>5, <2>7 DEF EndOfPassed
    <3>2. ASSUME NEW j \in DOMAIN deque'[store]
          PROVE  deque'[store][j] = passed'[Gone + j]
      <4>1. CASE j = Len(deque[store]) + 1
        BY <2>5, <2>6, <2>7, <2>8, <4>1
      <4>2. CASE j # Len(deque[store]) + 1
        <5>1. j \in DOMAIN deque[store] /\ j \in 1 .. Len(deque[store])
          BY <2>5, <2>7, <3>2, <4>2, SMTT(30)
        <5>2. deque[store][j] = passed[Gone + j]
          BY <1>i, <2>2, <5>1 DEF EndOfPassed
        <5>3. Gone + j \in 1 .. Len(passed) /\ Gone + j = Len(passed) - Len(deque[store]) + j
          <6>1. /\ Gone = Len(passed) - Len(deque[store]) /\ Gone \in Nat
                /\ Len(deque[store]) \in Nat /\ Len(passed) \in Nat
            BY <1>c, <2>2, <2>5
          <6>2. QED
            BY <5>1, <6>1
        <5>4. QED
          BY <2>6, <2>7, <5>1, <5>2, <5>3
      <4>3. QED
        BY <4>1, <4>2
    <3>3. \A i \in 1 .. Gone : passed'[i] + Window < clock
      <4>1. 1 .. Gone \subseteq 1 .. Len(passed)
        BY <1>b, <1>c, <2>2
      <4>2. QED
        BY <2>6, <2>10, <4>1
    <3>4. QED
      BY <2>1, <2>4, <2>8, <3>1, <3>2, <3>3 DEF EndOfPassed
  <2>13. Progress'
    BY <2>1 DEF Progress
  <2>14. QED
    BY <2>1, <2>11, <2>12, <2>13 DEF OneAtATime
<1>7. CASE UNCHANGED limiter
  <2>1. UNCHANGED <<clock, store, deque, at, now, ts, passed, L!Inside, Gone>>
    BY <1>7 DEF limiter, L!Inside, Gone
  <2>2. Spread' /\ EndOfPassed' /\ Progress'
    BY <1>i, <2>1 DEF Spread, EndOfPassed, Progress, Pending, L!Stale
  <2>3. QED
    BY <1>i, <2>1, <2>2 DEF OneAtATime
<1>8. QED
  BY <1>1, <1>2, <1>3, <1>4, <1>5, <1>6, <1>7, LimiterSteps DEF Acts

\* While nobody is stale, what is in the deques is what passed.
LEMMA NobodyForgottenKept ==
  ASSUME L!TypeOK, Created, NobodyForgotten, [L!Next]_limiter
  PROVE  NobodyForgotten'
<1> USE LimiterFacts
<1> SUFFICES ASSUME clock' <= Window PROVE NobodyForgotten'
  BY DEF NobodyForgotten
<1>1. clock' \in {clock, clock + 1} /\ clock \in Nat
  <2>1. \A t \in Threads : Acts(t) => clock' = clock
    BY DEF Acts, L!Enter, L!Create, L!Fetch, L!Purge, L!Pop, L!Check, L!Let
  <2>2. QED
    BY <2>1, LimiterSteps DEF L!Tick, limiter, L!TypeOK
<1>2. /\ IsFiniteSet(Slots) /\ Cardinality(Slots) = Len(passed)
      /\ \A t \in Threads : at[t] # "pop"
  BY <1>1 DEF NobodyForgotten
<1>3. \A t \in Threads : at'[t] # "pop"
  <2>1. ASSUME NEW t \in Threads, L!Purge(t) PROVE at'[t] # "pop"
    <3>1. ASSUME L!Times(t) # <<>>, L!Stale(t, Head(L!Times(t))) PROVE FALSE
      <4>1. Head(L!Times(t)) \in 0 .. MaxClock
        BY <2>1, <3>1, DequeInUse, HeadTailProperties DEF L!Purge, Working
      <4>2. now[t] \in 0 .. MaxClock /\ now[t] <= clock
        BY DEF L!TypeOK, Created
      <4>3. Head(L!Times(t)) < now[t] - Window
        BY <3>1 DEF L!Stale
      <4>4. QED
        BY <1>1, <4>1, <4>2, <4>3
    <3>2. QED
      BY <2>1, <3>1 DEF L!Purge, L!Goto, L!TypeOK
  <2>2. ASSUME NEW t \in Threads, Acts(t) PROVE at'[t] # "pop"
    BY <1>2, <2>1, <2>2
       DEF Acts, L!Enter, L!Create, L!Fetch, L!Pop, L!Check, L!Let, L!Goto, L!TypeOK
  <2>3. ASSUME NEW t \in Threads, Acts(t), NEW r \in Threads \ {t} PROVE at'[r] = at[r]
    BY <2>3 DEF Acts, L!Enter, L!Create, L!Fetch, L!Purge, L!Pop, L!Check, L!Let,
                L!Goto, L!TypeOK
  <2>4. QED
    BY <1>2, <2>2, <2>3, LimiterSteps DEF L!Tick, limiter
<1>4. IsFiniteSet(Slots') /\ Cardinality(Slots') = Len(passed')
  <2>1. CASE deque' = deque /\ passed' = passed
    BY <1>2, <2>1 DEF Slots
  <2>2. ASSUME NEW t \in Threads, L!Create(t) PROVE deque' = deque /\ passed' = passed
    BY <2>2 DEF L!Create, Created, Pending, L!TypeOK
  <2>3. ASSUME NEW t \in Threads, L!Let(t)
        PROVE  IsFiniteSet(Slots') /\ Cardinality(Slots') = Len(passed')
    <3> DEFINE slot == <<ts[t], Len(deque[ts[t]]) + 1>>
    <3>1. ts[t] \in Threads /\ deque[ts[t]] \in Seq(0 .. MaxClock) /\ now[t] \in 0 .. MaxClock
      BY <2>3, DequeInUse DEF L!Let, Working, L!TypeOK
    <3>2. /\ deque' = [deque EXCEPT ![ts[t]] = Append(@, now[t])]
          /\ passed' = Append(passed, now[t]) /\ passed \in Seq(0 .. MaxClock)
      BY <2>3 DEF L!Let, L!TypeOK
    <3>3. /\ \A d \in Threads \ {ts[t]} : deque'[d] = deque[d]
          /\ Len(deque'[ts[t]]) = Len(deque[ts[t]]) + 1 /\ Len(deque[ts[t]]) \in Nat
          /\ Len(passed') = Len(passed) + 1
      BY <3>1, <3>2, AppendProperties DEF L!TypeOK
    <3>4. Slots' = Slots \cup {slot}
      <4>1. slot \in Threads \X (Nat \ {0})
        BY <3>1, <3>3
      <4>2. ASSUME NEW d \in Threads, NEW j \in Nat \ {0}
            PROVE  j <= Len(deque'[d]) <=> j <= Len(deque[d]) \/ <<d, j>> = slot
        <5>1. CASE d = ts[t]
          BY <3>3, <5>1
        <5>2. CASE d # ts[t]
          BY <3>3, <5>2
        <5>3. QED
          BY <5>1, <5>2
      <4>3. QED
        BY <4>1, <4>2 DEF Slots
    <3>5. slot \notin Slots
      BY <3>3 DEF Slots
    <3>6. QED
      <4> HIDE DEF slot
      <4>1. /\ IsFiniteSet(Slots \cup {slot})
            /\ Cardinality(Slots \cup {slot}) = Cardinality(Slots) + 1
        BY <1>2, <3>5, FS_AddElement
      <4>2. QED
        BY <1>2, <3>3, <3>4, <4>1
  <2>4. ASSUME NEW t \in Threads, Acts(t), ~L!Create(t), ~L!Let(t)
        PROVE  deque' = deque /\ passed' = passed
    BY <1>2, <2>4 DEF Acts, L!Enter, L!Fetch, L!Purge, L!Pop, L!Check
  <2>5. QED
    BY <2>1, <2>2, <2>3, <2>4, LimiterSteps DEF L!Tick, limiter
<1>5. QED
  BY <1>3, <1>4 DEF NobodyForgotten

-----------------------------------------------------------------------------
\* The first i of a list are i at most.
LEMMA FirstFew ==
  ASSUME NEW n \in Nat, NEW order \in [1 .. n -> Threads], NEW i \in 1 .. n,
         NEW S, \A t \in S : \E k \in 1 .. i : t = order[k]
  PROVE  IsFiniteSet(S) /\ Cardinality(S) \in Nat /\ Cardinality(S) <= i
<1> DEFINE first == {order[k] : k \in 1 .. i}
           f == [k \in 1 .. i |-> order[k]]
<1>1. f \in Surjection(1 .. i, first)
  BY DEF Surjection
<1>2. IsFiniteSet(1 .. i) /\ Cardinality(1 .. i) = i
  BY FS_Interval
<1>3. IsFiniteSet(first) /\ Cardinality(first) <= i
  BY <1>1, <1>2, FS_Surjection
<1>4. S \in SUBSET first
  OBVIOUS
<1>5. IsFiniteSet(S) /\ Cardinality(S) <= Cardinality(first)
  BY <1>3, <1>4, FS_Subset
<1>6. Cardinality(first) \in Nat /\ Cardinality(S) \in Nat
  BY <1>3, <1>5, FS_CardinalityType
<1>7. QED
  BY <1>3, <1>5, <1>6

\* What can happen to the deques without disturbing an order.
LEMMA OrderKept ==
  ASSUME L!TypeOK, L!TypeOK', NEW order, NEW q \in Nat, InOrder(order, q),
         store' = store, \A t \in Threads : Pending(t)' <=> Pending(t),
         \A t, d \in Threads :
           Uses(t, d)' => Uses(t, d) \/ (~Pending(t) /\ d = store),
         \A d \in Threads :
           \/ Len(deque'[d]) < MaxReq
           \/ Len(deque'[d]) + Cardinality(Appending(d)')
                <= Len(deque[d]) + Cardinality(Appending(d))
  PROVE  InOrder(order, q)'
<1> USE LimiterFacts
<1> DEFINE n == Cardinality(Threads)
<1>1. n \in Nat
  BY FS_CardinalityType
<1>2. /\ order \in [1 .. n -> Threads]
      /\ \A i, j \in 1 .. n : order[i] = order[j] => i = j
      /\ \A t \in Threads : \E i \in 1 .. n : order[i] = t
      /\ \A i \in 1 .. n : Pending(order[i]) <=> i > q
      /\ store # NoDeque => q \in 1 .. n /\ order[q] = store
      /\ \A i, j \in 1 .. n : Uses(order[i], order[j]) => i <= j
      /\ \A i \in 1 .. n :
           Len(deque[order[i]]) + Cardinality(Appending(order[i])) <= MaxReq - 1 + i
  BY DEF InOrder, Lines
<1>3. ASSUME NEW i \in 1 .. n, NEW j \in 1 .. n, Uses(order[i], order[j])' PROVE i <= j
  <2>1. CASE ~Pending(order[i]) /\ order[j] = store
    <3>1. order[j] # NoDeque
      BY <1>2
    <3>2. q \in 1 .. n /\ j = q
      BY <1>2, <2>1, <3>1
    <3>3. QED
      BY <1>1, <1>2, <2>1, <3>2
  <2>2. CASE Uses(order[i], order[j])
    BY <1>2, <2>2
  <2>3. QED
    BY <1>2, <1>3, <2>1, <2>2
<1>4. ASSUME NEW i \in 1 .. n
      PROVE  Len(deque'[order[i]]) + Cardinality(Appending(order[i])') <= MaxReq - 1 + i
  <2> DEFINE d == order[i]
  <2>1. \A t \in Appending(d)' : t \in Threads /\ Uses(t, d)'
    BY DEF Appending, Uses, Working
  <2>2. \A t \in Appending(d)' : \E k \in 1 .. i : t = order[k]
    BY <1>1, <1>2, <1>3, <2>1
  <2>3. Cardinality(Appending(d)') \in Nat /\ Cardinality(Appending(d)') <= i
    <3> DEFINE after == Appending(d)'
    <3>1. \A t \in after : \E k \in 1 .. i : t = order[k]
      BY <2>2
    <3>a. n \in Nat /\ order \in [1 .. n -> Threads] /\ i \in 1 .. n
      BY <1>1, <1>2
    <3> HIDE DEF after, n, d
    <3>2. Cardinality(after) \in Nat /\ Cardinality(after) <= i
      BY <3>a, <3>1, FirstFew
    <3>3. QED
      BY <3>2 DEF after
  <2>4. Len(deque'[d]) \in Nat /\ Len(deque[d]) \in Nat
    BY <1>2 DEF L!TypeOK
  <2>5. \A t \in Appending(d) : \E k \in 1 .. i : t = order[k]
    BY <1>1, <1>2 DEF Appending, Uses, Working
  <2>6. Cardinality(Appending(d)) \in Nat
    BY <1>1, <1>2, <2>5, FirstFew, SMTT(30)
  <2>7. CASE Len(deque'[d]) < MaxReq
    BY <2>3, <2>4, <2>7
  <2>8. CASE Len(deque'[d]) + Cardinality(Appending(d)')
               <= Len(deque[d]) + Cardinality(Appending(d))
    <3>1. Len(deque[d]) + Cardinality(Appending(d)) <= MaxReq - 1 + i
      BY <1>2
    <3>2. QED
      BY <2>3, <2>4, <2>6, <2>8, <3>1
  <2>9. QED
    BY <1>2, <2>7, <2>8
<1>5. QED
  BY <1>2, <1>3, <1>4 DEF InOrder, Lines

\* Two threads that change places in an order leave it one.
Swap(order, a, b) == [order EXCEPT ![a] = order[b], ![b] = order[a]]

Trade(order, next, a, b, n) ==
  /\ Lines(next, n)
  /\ next[a] = order[b] /\ next[b] = order[a]
  /\ \A i \in (1 .. n) \ {a, b} : next[i] = order[i]

\* Such an order exists.
LEMMA Swapped ==
  ASSUME NEW n \in Nat, NEW order, Lines(order, n),
         NEW a \in 1 .. n, NEW b \in 1 .. n
  PROVE  Trade(order, Swap(order, a, b), a, b, n)
<1> DEFINE s == Swap(order, a, b)
<1>0. /\ order \in [1 .. n -> Threads]
      /\ \A i, j \in 1 .. n : order[i] = order[j] => i = j
      /\ \A t \in Threads : \E i \in 1 .. n : order[i] = t
  BY DEF Lines
<1>1. /\ s \in [1 .. n -> Threads] /\ s[a] = order[b] /\ s[b] = order[a]
      /\ \A i \in (1 .. n) \ {a, b} : s[i] = order[i]
  BY <1>0 DEF Swap
<1> HIDE DEF s
<1>2. \A i, j \in 1 .. n : s[i] = s[j] => i = j
  BY <1>0, <1>1, SMTT(30)
<1>3. ASSUME NEW t \in Threads PROVE \E i \in 1 .. n : s[i] = t
  <2>1. PICK i \in 1 .. n : order[i] = t
    BY <1>0
  <2>2. CASE i = a
    BY <1>1, <2>1, <2>2
  <2>3. CASE i = b
    BY <1>1, <2>1, <2>3
  <2>4. CASE i \notin {a, b}
    BY <1>1, <2>1, <2>4
  <2>5. QED
    BY <2>2, <2>3, <2>4
<1>4. QED
  BY <1>1, <1>2, <1>3 DEF s, Lines, Trade

\* A thread that nobody uses and that uses nothing can stand anywhere.
LEMMA NothingHeld ==
  ASSUME NEW d \in Threads, deque[d] = <<>>, Appending(d) = {}, NEW i \in Nat \ {0}
  PROVE  Len(deque[d]) + Cardinality(Appending(d)) <= MaxReq - 1 + i
<1>1. Len(deque[d]) = 0 /\ Cardinality(Appending(d)) = 0
  BY FS_EmptySet
<1>2. QED
  BY <1>1, LimiterFacts

\* At the start every order will do.
LEMMA InitOrder == L!Init => SomeOrder
<1> SUFFICES ASSUME L!Init PROVE SomeOrder
  OBVIOUS
<1> DEFINE n == Cardinality(Threads)
<1>1. n \in Nat
  BY LimiterFacts, FS_CardinalityType
<1>2. PICK order : order \in Bijection(1 .. n, Threads)
  BY LimiterFacts, FS_CardinalityType DEF ExistsBijection
<1>3. /\ order \in [1 .. n -> Threads]
      /\ \A i, j \in 1 .. n : order[i] = order[j] => i = j
      /\ \A t \in Threads : \E i \in 1 .. n : order[i] = t
  BY <1>2 DEF Bijection, Injection, Surjection, IsInjective
<1>4. \A t \in Threads : at[t] = "out" /\ deque[t] = <<>>
  BY DEF L!Init
<1>5. /\ \A i \in 1 .. n : Pending(order[i]) <=> i > n
      /\ \A i, j \in 1 .. n : ~Uses(order[i], order[j])
  BY <1>1, <1>3, <1>4 DEF Pending, Uses, Working
<1>6. ASSUME NEW i \in 1 .. n
      PROVE  Len(deque[order[i]]) + Cardinality(Appending(order[i])) <= MaxReq - 1 + i
  <2>1. order[i] \in Threads /\ Appending(order[i]) = {} /\ i \in Nat \ {0}
    BY <1>1, <1>3, <1>4 DEF Appending
  <2>2. QED
    BY <1>4, <2>1, NothingHeld
<1>7. store = NoDeque
  BY DEF L!Init
<1>8. InOrder(order, n)
  BY <1>3, <1>5, <1>6, <1>7 DEF InOrder, Lines
<1>9. QED
  BY <1>1, <1>3, <1>8 DEF SomeOrder

\* There is always an order: who enters first of all goes to the end of those
\* who have not to create a deque, and who creates one comes next after them.
LEMMA SomeOrderKept ==
  ASSUME L!TypeOK, L!TypeOK', Created, Created', SomeOrder, [L!Next]_limiter
  PROVE  SomeOrder'
<1> USE LimiterFacts
<1> DEFINE n == Cardinality(Threads)
<1>1. n \in Nat
  BY FS_CardinalityType
<1>2. PICK order \in [1 .. n -> Threads], q \in 0 .. n : InOrder(order, q)
  BY DEF SomeOrder
<1>3. q \in Nat
  BY <1>1
<1>4. /\ \A i, j \in 1 .. n : order[i] = order[j] => i = j
      /\ \A t \in Threads : \E i \in 1 .. n : order[i] = t
      /\ \A i \in 1 .. n : Pending(order[i]) <=> i > q
      /\ store # NoDeque => q \in 1 .. n /\ order[q] = store
      /\ \A i, j \in 1 .. n : Uses(order[i], order[j]) => i <= j
      /\ \A i \in 1 .. n :
           Len(deque[order[i]]) + Cardinality(Appending(order[i])) <= MaxReq - 1 + i
  BY <1>2 DEF InOrder, Lines
<1>k. InOrder(order, q)' => SomeOrder'
  BY DEF SomeOrder
<1>5. CASE L!Tick \/ UNCHANGED limiter
  <2>1. UNCHANGED <<store, deque, at, ts>>
    BY <1>5 DEF L!Tick, limiter
  <2>2. InOrder(order, q)'
    BY <1>2, <2>1 DEF InOrder, Pending, Uses, Appending
  <2>3. QED
    BY <1>k, <2>2
<1>6. ASSUME NEW t \in Threads, L!Fetch(t) \/ L!Purge(t) \/ L!Check(t)
                                \/ L!Pop(t) \/ L!Let(t)
      PROVE  SomeOrder'
  <2>1. /\ store' = store /\ \A r \in Threads : Pending(r)' <=> Pending(r)
    BY <1>6 DEF L!Fetch, L!Purge, L!Check, L!Pop, L!Let, L!Goto, L!TypeOK, Pending
  <2>2. \A r, d \in Threads : Uses(r, d)' => Uses(r, d) \/ (~Pending(r) /\ d = store)
    <3>1. CASE L!Fetch(t)
      BY <3>1 DEF L!Fetch, L!Goto, L!TypeOK, Pending, Uses, Working
    <3>2. CASE L!Purge(t)
      BY <3>2 DEF L!Purge, L!Goto, L!TypeOK, Uses, Working
    <3>3. CASE L!Check(t)
      BY <3>3 DEF L!Check, L!Goto, L!TypeOK, Uses, Working
    <3>4. CASE L!Pop(t)
      BY <3>4 DEF L!Pop, L!Goto, L!TypeOK, Uses, Working
    <3>5. CASE L!Let(t)
      BY <3>5 DEF L!Let, L!Goto, L!TypeOK, Uses, Working
    <3>6. QED
      BY <1>6, <3>1, <3>2, <3>3, <3>4, <3>5
  <2>3. ASSUME NEW d \in Threads
        PROVE  \/ Len(deque'[d]) < MaxReq
               \/ Len(deque'[d]) + Cardinality(Appending(d)')
                    <= Len(deque[d]) + Cardinality(Appending(d))
    <3>1. /\ Len(deque[d]) \in Nat
          /\ IsFiniteSet(Appending(d)) /\ Cardinality(Appending(d)) \in Nat
      <4>1. Appending(d) \in SUBSET Threads
        BY DEF Appending
      <4>2. IsFiniteSet(Appending(d))
        BY <4>1, FS_Subset
      <4>3. QED
        BY <4>2, FS_CardinalityType DEF L!TypeOK
    <3>2. CASE L!Fetch(t) \/ L!Purge(t) \/ (L!Check(t) /\ (at'[t] = "out" \/ d # ts[t]))
      <4>1. deque' = deque /\ Appending(d)' = Appending(d)
        BY <3>2, SMTT(30) DEF L!Fetch, L!Purge, L!Check, L!Goto, L!TypeOK, Appending
      <4>2. QED
        BY <3>1, <4>1
    <3>3. CASE L!Check(t) /\ at'[t] # "out" /\ d = ts[t]
      <4>1. ~(Len(L!Times(t)) >= MaxReq) /\ deque' = deque
        BY <3>3 DEF L!Check, L!Goto, L!TypeOK
      <4>2. QED
        BY <3>1, <3>3, <4>1 DEF L!Times
    <3>4. CASE L!Pop(t)
      <4>1. Appending(d)' = Appending(d)
        BY <3>4 DEF L!Pop, L!Goto, L!TypeOK, Appending
      <4>2. Len(deque'[d]) \in Nat /\ Len(deque'[d]) <= Len(deque[d])
        <5>1. CASE deque'[d] = deque[d]
          BY <3>1, <5>1
        <5>2. CASE deque'[d] # deque[d]
          <6>1. d = ts[t] /\ deque[d] # <<>> /\ deque'[d] = Tail(deque[d])
            <7>1. deque[ts[t]] # <<>> /\ deque' = [deque EXCEPT ![ts[t]] = Tail(@)]
              BY <3>4, <5>2 DEF L!Pop, L!Times
            <7>2. deque \in [Threads -> Seq(0 .. MaxClock)]
              BY DEF L!TypeOK
            <7>3. QED
              BY <5>2, <7>1, <7>2
          <6>2. deque[d] \in Seq(0 .. MaxClock)
            BY DEF L!TypeOK
          <6>3. QED
            BY <6>1, <6>2, HeadTailProperties
        <5>3. QED
          BY <5>1, <5>2
      <4>3. QED
        BY <3>1, <4>1, <4>2
    <3>5. CASE L!Let(t) /\ d = ts[t]
      <4>1. deque[d] \in Seq(0 .. MaxClock) /\ now[t] \in 0 .. MaxClock
        BY DEF L!TypeOK
      <4>2. deque'[d] = Append(deque[d], now[t])
        BY <3>5 DEF L!Let, L!TypeOK
      <4>3. Len(deque'[d]) = Len(deque[d]) + 1
        BY <4>1, <4>2, AppendProperties
      <4>4. Appending(d)' = Appending(d) \ {t} /\ t \in Appending(d)
        BY <3>5 DEF L!Let, L!Goto, L!TypeOK, Appending
      <4>5. Cardinality(Appending(d) \ {t}) = Cardinality(Appending(d)) - 1
        BY <3>1, <4>4, FS_RemoveElement
      <4>6. QED
        BY <3>1, <4>3, <4>4, <4>5
    <3>6. CASE L!Let(t) /\ d # ts[t]
      <4>1. deque'[d] = deque[d] /\ Appending(d)' = Appending(d)
        BY <3>6 DEF L!Let, L!Goto, L!TypeOK, Appending
      <4>2. QED
        BY <3>1, <4>1
    <3>7. QED
      BY <1>6, <3>2, <3>3, <3>4, <3>5, <3>6
  <2>4. InOrder(order, q)'
    BY <1>2, <1>3, <2>1, <2>2, <2>3, OrderKept
  <2>5. QED
    BY <1>k, <2>4
<1>7. ASSUME NEW t \in Threads, L!Enter(t), store # NoDeque PROVE SomeOrder'
  <2>1. /\ UNCHANGED <<store, deque, ts>>
        /\ \A r \in Threads : Pending(r)' <=> Pending(r)
        /\ \A r, d \in Threads : Uses(r, d)' <=> Uses(r, d)
        /\ \A d \in Threads : Appending(d)' = Appending(d)
    BY <1>7 DEF L!Enter, L!Goto, L!TypeOK, Pending, Uses, Working, Appending
  <2>2. InOrder(order, q)'
    BY <1>2, <2>1 DEF InOrder
  <2>3. QED
    BY <1>k, <2>2
<1>8. ASSUME NEW t \in Threads, L!Enter(t), store = NoDeque PROVE SomeOrder'
  <2>1. PICK a \in 1 .. n : order[a] = t
    BY <1>4
  <2>2. q \in 1 .. n /\ a <= q
    BY <1>1, <1>4, <1>8, <2>1 DEF L!Enter, Pending
  <2> DEFINE next == Swap(order, a, q)
  <2>3. /\ next \in [1 .. n -> Threads]
        /\ \A i, j \in 1 .. n : next[i] = next[j] => i = j
        /\ \A r \in Threads : \E i \in 1 .. n : next[i] = r
        /\ next[a] = order[q] /\ next[q] = t
        /\ \A i \in (1 .. n) \ {a, q} : next[i] = order[i]
    <3>1. n \in Nat /\ Lines(order, n) /\ a \in 1 .. n /\ q \in 1 .. n
      BY <1>1, <1>2, <2>1, <2>2 DEF InOrder
    <3> HIDE DEF n
    <3>2. Trade(order, next, a, q, n)
      BY <3>1, Swapped
    <3>3. QED
      BY <2>1, <3>2 DEF Lines, Trade
  <2> HIDE DEF next
  <2>4. /\ store' = NoDeque /\ Pending(t)'
        /\ \A r \in Threads \ {t} : Pending(r)' <=> Pending(r)
        /\ \A r \in Threads : deque'[r] = <<>> /\ at'[r] \in {"out", "create"}
    BY <1>8 DEF L!Enter, L!Goto, L!TypeOK, Pending, Created
  <2>5. ASSUME NEW i \in 1 .. n PROVE Pending(next[i])' <=> i > q - 1
    <3>1. CASE i = q
      BY <1>3, <2>3, <2>4, <3>1
    <3>2. CASE i = a /\ i # q
      <4>1. next[i] = order[q] /\ order[q] \in Threads \ {t} /\ ~Pending(order[q])
        BY <1>2, <1>3, <1>4, <2>1, <2>2, <2>3, <3>2
      <4>2. QED
        BY <1>3, <2>2, <2>4, <3>2, <4>1
    <3>3. CASE i # a /\ i # q
      <4>1. next[i] = order[i] /\ order[i] \in Threads \ {t}
        BY <1>2, <1>4, <2>1, <2>3, <3>3
      <4>2. QED
        BY <1>3, <1>4, <2>4, <3>3, <4>1
    <3>4. QED
      BY <3>1, <3>2, <3>3
  <2>6. \A i, j \in 1 .. n : ~Uses(next[i], next[j])'
    BY <2>3, <2>4 DEF Uses, Working
  <2>7. ASSUME NEW i \in 1 .. n
        PROVE  Len(deque'[next[i]]) + Cardinality(Appending(next[i])') <= MaxReq - 1 + i
    <3>1. Appending(next[i])' = {} /\ deque'[next[i]] = <<>>
      BY <2>3, <2>4 DEF Appending
    <3>2. Len(deque'[next[i]]) = 0 /\ Cardinality(Appending(next[i])') = 0
      BY <3>1, FS_EmptySet
    <3>3. QED
      BY <3>2
  <2>8. InOrder(next, q - 1)'
    BY <2>3, <2>4, <2>5, <2>6, <2>7 DEF InOrder, Lines
  <2>9. QED
    BY <1>1, <2>2, <2>3, <2>8 DEF SomeOrder
<1>9. ASSUME NEW t \in Threads, L!Create(t) PROVE SomeOrder'
  <2>1. PICK a \in 1 .. n : order[a] = t
    BY <1>4
  <2>2. q + 1 \in 1 .. n /\ a >= q + 1
    BY <1>1, <1>3, <1>4, <1>9, <2>1 DEF L!Create, Pending
  <2> DEFINE b == q + 1
             next == Swap(order, a, b)
  <2>3. /\ next \in [1 .. n -> Threads]
        /\ \A i, j \in 1 .. n : next[i] = next[j] => i = j
        /\ \A r \in Threads : \E i \in 1 .. n : next[i] = r
        /\ next[a] = order[b] /\ next[b] = t
        /\ \A i \in (1 .. n) \ {a, b} : next[i] = order[i]
    <3>1. n \in Nat /\ Lines(order, n) /\ a \in 1 .. n /\ b \in 1 .. n
      BY <1>1, <1>2, <2>1, <2>2 DEF InOrder
    <3> HIDE DEF n, b
    <3>2. Trade(order, next, a, b, n)
      BY <3>1, Swapped
    <3>3. QED
      BY <2>1, <3>2 DEF Lines, Trade
  <2> HIDE DEF next
  <2>4. /\ store' = t /\ ~Pending(t)' /\ Pending(t) /\ deque' = deque
        /\ \A r \in Threads \ {t} : Pending(r)' <=> Pending(r)
        /\ \A r, d \in Threads : Uses(r, d)' <=> Uses(r, d)
        /\ \A d \in Threads : Appending(d)' = Appending(d)
    BY <1>9, SMTT(30) DEF L!Create, L!Goto, L!TypeOK, Pending, Created, Uses, Working, Appending
  <2>5. ASSUME NEW i \in 1 .. n PROVE Pending(next[i])' <=> i > b
    <3>1. CASE i = b
      BY <1>3, <2>3, <2>4, <3>1
    <3>2. CASE i = a /\ i # b
      <4>1. next[i] = order[b] /\ order[b] \in Threads \ {t} /\ Pending(order[b])
        BY <1>2, <1>3, <1>4, <2>1, <2>2, <2>3, <3>2
      <4>2. QED
        BY <1>3, <2>2, <2>4, <3>2, <4>1
    <3>3. CASE i # a /\ i # b
      <4>1. next[i] = order[i]
        BY <2>3, <3>3
      <4>2. order[i] # t /\ order[i] \in Threads
        BY <1>2, <1>4, <2>1, <3>3
      <4>3. QED
        BY <1>3, <1>4, <2>4, <3>3, <4>1, <4>2
    <3>4. QED
      BY <3>1, <3>2, <3>3
  <2>6. \A i \in 1 .. n : Pending(next[i]) \/ next[i] = order[i]
    BY <1>3, <1>4, <2>1, <2>2, <2>3, <2>4
  <2>7. ASSUME NEW i \in 1 .. n, NEW j \in 1 .. n, Uses(next[i], next[j])' PROVE i <= j
    <3>1. Uses(next[i], next[j]) /\ next[i] \in Threads /\ next[j] \in Threads
      BY <2>3, <2>4, <2>7
    <3>2. ~Pending(next[i]) /\ ~Pending(next[j])
      BY <3>1 DEF Uses, Working, Pending, Created
    <3>3. QED
      BY <1>4, <2>6, <3>1, <3>2
  <2>8. ASSUME NEW i \in 1 .. n
        PROVE  Len(deque'[next[i]]) + Cardinality(Appending(next[i])') <= MaxReq - 1 + i
    <3>1. next[i] \in Threads /\ i \in Nat \ {0}
      BY <1>1, <2>3
    <3>2. Appending(next[i])' = Appending(next[i]) /\ deque' = deque
      BY <2>4, <3>1
    <3>3. CASE Pending(next[i])
      <4>1. deque[next[i]] = <<>> /\ Appending(next[i]) = {}
        BY <3>1, <3>3 DEF Created, Appending
      <4>2. QED
        BY <3>1, <3>2, <4>1, NothingHeld
    <3>4. CASE next[i] = order[i]
      BY <1>4, <3>2, <3>4
    <3>5. QED
      BY <2>6, <3>3, <3>4
  <2>9. InOrder(next, b)'
    BY <2>2, <2>3, <2>4, <2>5, <2>7, <2>8 DEF InOrder, Lines
  <2>10. QED
    BY <1>1, <1>3, <2>2, <2>3, <2>9 DEF SomeOrder
<1>10. QED
  BY <1>5, <1>6, <1>7, <1>8, <1>9, LimiterSteps DEF Acts

\* The invariant is inductive.
LEMMA LimiterInvAlways == L!Spec => []LimiterInv
<1>1. L!Init => LimiterInv
  <2>1. ASSUME L!Init PROVE NobodyForgotten
    <3>1. (\A t \in Threads : deque[t] = <<>> /\ at[t] = "out") /\ passed = <<>>
      BY <2>1 DEF L!Init
    <3>2. Slots = {}
      BY <3>1 DEF Slots
    <3>3. QED
      BY <3>1, <3>2, FS_EmptySet DEF NobodyForgotten
  <2>2. QED
    BY <2>1, LimiterInit, InitOrder DEF LimiterInv
<1>2. LimiterInv /\ [L!Next]_(L!vars) => LimiterInv'
  <2> SUFFICES ASSUME LimiterInv, [L!Next]_(L!vars) PROVE LimiterInv'
    OBVIOUS
  <2>1. [L!Next]_limiter
    BY DEF limiter, L!vars
  <2>2. L!TypeOK' /\ Created'
    BY <2>1, LimiterTypes, CreatedKept DEF LimiterInv
  <2>3. QED
    BY <2>1, <2>2, NobodyForgottenKept, SomeOrderKept, OneAtATimeKept DEF LimiterInv
<1>3. QED
  BY <1>1, <1>2, PTL DEF L!Spec

-----------------------------------------------------------------------------
\* The limiter counts as everybody does.
LEMMA LimiterCounts == \A S : L!Cardinality(S) = Cardinality(S)
BY DEF L!Cardinality, Cardinality

\* A nonempty set of naturals has a least member.
LEMMA LeastMember ==
  ASSUME NEW S \in SUBSET Nat, S # {}
  PROVE  \E x \in S : \A y \in S : x <= y
<1>1. PICK x \in S : \A y \in S : ~(<<y, x>> \in OpToRel(<, Nat))
  BY NatLessThanWellFounded, WFMin
<1>2. ASSUME NEW y \in S PROVE x <= y
  <2>1. ~(<<y, x>> \in {ss \in Nat \X Nat : ss[1] < ss[2]})
    BY <1>1 DEF OpToRel
  <2>2. QED
    BY <2>1
<1>3. QED
  BY <1>2

\* What lies between two numbers is no more than the numbers between them.
LEMMA Between ==
  ASSUME NEW S, NEW a \in Int, NEW b \in Int, S \subseteq a .. b
  PROVE  /\ IsFiniteSet(S) /\ Cardinality(S) \in Nat
         /\ Cardinality(S) <= IF a > b THEN 0 ELSE b - a + 1
<1>1. IsFiniteSet(a .. b) /\ Cardinality(a .. b) = IF a > b THEN 0 ELSE b - a + 1
  BY FS_Interval
<1>2. IsFiniteSet(S) /\ Cardinality(S) <= Cardinality(a .. b)
  BY <1>1, FS_Subset
<1>3. QED
  BY <1>1, <1>2, FS_CardinalityType

\* What the first k deques can hold.
Places(k) == {p \in (1 .. k) \X (1 .. MaxReq - 1 + k) : p[2] <= MaxReq - 1 + p[1]}
Room(k) == 2 * k * (MaxReq - 1) + k * (k + 1)

\* The next deque has room for the limit and for one more than the last.
LEMMA PlacesGrow ==
  ASSUME NEW k \in Nat, IsFiniteSet(Places(k)), 2 * Cardinality(Places(k)) <= Room(k)
  PROVE  /\ IsFiniteSet(Places(k + 1))
         /\ 2 * Cardinality(Places(k + 1)) <= Room(k + 1)
<1> USE LimiterFacts
<1> DEFINE m == MaxReq + k
           row == {<<k + 1, j>> : j \in 1 .. m}
           f == [j \in 1 .. m |-> <<k + 1, j>>]
<1>1. f \in Surjection(1 .. m, row)
  BY DEF Surjection
<1>2. IsFiniteSet(1 .. m) /\ Cardinality(1 .. m) = m
  BY FS_Interval, SMTT(30)
<1>3. IsFiniteSet(row) /\ Cardinality(row) <= m
  BY <1>1, <1>2, FS_Surjection
<1>4. Places(k + 1) = Places(k) \cup row
  BY DEF Places
<1> HIDE DEF row
<1>5. /\ IsFiniteSet(Places(k) \cup row)
      /\ Cardinality(Places(k) \cup row)
           = Cardinality(Places(k)) + Cardinality(row) - Cardinality(Places(k) \cap row)
  BY <1>3, FS_Union
<1>6. /\ Cardinality(Places(k)) \in Nat /\ Cardinality(row) \in Nat
      /\ Cardinality(Places(k) \cap row) \in Nat
      /\ Cardinality(Places(k) \cup row) \in Nat
  <2>1. IsFiniteSet(Places(k) \cap row)
    BY <1>3, FS_Subset
  <2>2. QED
    BY <1>3, <1>5, <2>1, FS_CardinalityType
<1>7. 2 * Cardinality(Places(k + 1)) <= Room(k) + 2 * m
  <2>1. Room(k) \in Int
    BY DEF Room
  <2>2. \A a, b, c, r, x \in Int :
          c >= 0 /\ 2 * a <= r /\ b <= x => 2 * (a + b - c) <= r + 2 * x
    OBVIOUS
  <2>3. m \in Int
    OBVIOUS
  <2>4. /\ Cardinality(Places(k)) \in Int /\ Cardinality(row) \in Int
        /\ Cardinality(Places(k) \cap row) \in Int
        /\ Cardinality(Places(k) \cap row) >= 0
    BY <1>6
  <2> HIDE DEF m
  <2>5. 2 * (Cardinality(Places(k)) + Cardinality(row) - Cardinality(Places(k) \cap row))
          <= Room(k) + 2 * m
    BY <1>3, <2>1, <2>2, <2>3, <2>4
  <2>6. QED
    BY <1>4, <1>5, <2>5
<1>8. Room(k + 1) = Room(k) + 2 * m
  BY DEF Room
<1>9. QED
  BY <1>4, <1>5, <1>7, <1>8

\* So the first k deques have room for that many.
LEMMA PlacesFew ==
  ASSUME NEW k \in Nat
  PROVE  IsFiniteSet(Places(k)) /\ 2 * Cardinality(Places(k)) <= Room(k)
<1> DEFINE Many == {i \in Nat : ~(IsFiniteSet(Places(i)) /\ 2 * Cardinality(Places(i)) <= Room(i))}
<1> SUFFICES ASSUME Many # {} PROVE FALSE
  OBVIOUS
<1>1. PICK i \in Many : \A j \in Many : i <= j
  BY LeastMember
<1>2. i # 0
  <2>1. Places(0) = {} /\ Room(0) = 0
    BY LimiterFacts DEF Places, Room
  <2>2. QED
    BY <2>1, FS_EmptySet
<1>3. i - 1 \in Nat /\ i - 1 \notin Many /\ (i - 1) + 1 = i
  BY <1>1, <1>2
<1>4. QED
  BY <1>3, PlacesGrow

\* While nobody is stale, what was let through has a place.
LEMMA HasPlace ==
  ASSUME LimiterInv, clock <= Window
  PROVE  LET n == Cardinality(Threads) IN
         Len(passed) <= n * MaxReq + (n * (n - 1)) \div 2
<1> USE LimiterFacts
<1> DEFINE n == Cardinality(Threads)
<1>1. n \in Nat
  BY FS_CardinalityType
<1>2. PICK order, q : InOrder(order, q)
  BY DEF LimiterInv, SomeOrder
<1>3. /\ order \in [1 .. n -> Threads]
      /\ \A t \in Threads : \E i \in 1 .. n : order[i] = t
      /\ \A i \in 1 .. n :
           Len(deque[order[i]]) + Cardinality(Appending(order[i])) <= MaxReq - 1 + i
  BY <1>2 DEF InOrder, Lines
<1>4. \A i \in 1 .. n : Len(deque[order[i]]) \in Nat /\ Len(deque[order[i]]) <= MaxReq - 1 + i
  <2>1. ASSUME NEW i \in 1 .. n
        PROVE  Len(deque[order[i]]) \in Nat /\ Len(deque[order[i]]) <= MaxReq - 1 + i
    <3>1. Appending(order[i]) \in SUBSET Threads
      BY DEF Appending
    <3>2. Cardinality(Appending(order[i])) \in Nat
      BY <3>1, FS_Subset, FS_CardinalityType
    <3>3. Len(deque[order[i]]) \in Nat
      BY <1>3 DEF LimiterInv, L!TypeOK
    <3>4. QED
      BY <1>3, <3>2, <3>3
  <2>2. QED
    BY <2>1
<1> DEFINE held == {<<order[p[1]], p[2]>> : p \in Places(n)}
           f == [p \in Places(n) |-> <<order[p[1]], p[2]>>]
<1>5. f \in Surjection(Places(n), held)
  BY DEF Surjection
<1>6. IsFiniteSet(Places(n)) /\ 2 * Cardinality(Places(n)) <= Room(n)
  BY <1>1, PlacesFew
<1>7. IsFiniteSet(held) /\ Cardinality(held) <= Cardinality(Places(n))
  BY <1>5, <1>6, FS_Surjection
<1>8. Slots \in SUBSET held
  <2>1. ASSUME NEW d \in Threads, NEW j \in Nat \ {0}, j <= Len(deque[d])
        PROVE  <<d, j>> \in held
    <3>1. PICK i \in 1 .. n : order[i] = d
      BY <1>3
    <3>2. j <= MaxReq - 1 + i /\ MaxReq - 1 + i <= MaxReq - 1 + n
      BY <1>1, <1>4, <2>1, <3>1
    <3>3. <<i, j>> \in Places(n)
      BY <1>1, <3>2 DEF Places
    <3>4. QED
      BY <3>1, <3>3
  <2>2. QED
    BY <2>1 DEF Slots
<1>9. Cardinality(Slots) <= Cardinality(held)
  BY <1>7, <1>8, FS_Subset
<1>10. Cardinality(Slots) = Len(passed) /\ Len(passed) \in Nat
  BY DEF LimiterInv, NobodyForgotten, L!TypeOK
<1>11. Cardinality(held) \in Nat /\ Cardinality(Places(n)) \in Nat
  BY <1>6, <1>7, FS_CardinalityType
<1> HIDE DEF held
<1>12. 2 * Len(passed) <= Room(n)
  <2>1. Room(n) \in Int
    BY <1>1 DEF Room
  <2>2. QED
    BY <1>6, <1>7, <1>9, <1>10, <1>11, <2>1
<1>13. Room(n) = 2 * (n * MaxReq) + n * (n - 1)
  <2> HIDE DEF n
  <2>1. QED
    BY <1>1 DEF Room
<1>14. \A x, y, z \in Int : 2 * x <= 2 * y + z => x <= y + z \div 2
  OBVIOUS
<1>15. QED
  <2>1. n * MaxReq \in Int /\ n * (n - 1) \in Int
    BY <1>1
  <2> HIDE DEF n
  <2>2. Len(passed) <= n * MaxReq + (n * (n - 1)) \div 2
    BY <1>10, <1>12, <1>13, <1>14, <2>1
  <2>3. QED
    BY <2>2 DEF n

\* What is let through in a window is no more than the limit.
LEMMA WindowHolds ==
  ASSUME LimiterInv, ~raced, NEW from \in Nat
  PROVE  Cardinality(L!LetThrough(from, from + Window)) <= MaxReq
<1> USE LimiterFacts
<1> DEFINE S == L!LetThrough(from, from + Window)
<1>1. /\ passed \in Seq(0 .. MaxClock) /\ Len(passed) \in Nat
      /\ DOMAIN passed = 1 .. Len(passed)
      /\ \A i \in 1 .. Len(passed) : passed[i] \in Int
  BY DEF LimiterInv, L!TypeOK
<1>2. \A i, j \in 1 .. Len(passed) : i + MaxReq <= j => passed[i] + Window < passed[j]
  BY <1>1 DEF LimiterInv, OneAtATime, Spread
<1>3. S \subseteq 1 .. Len(passed) /\ \A i \in S : passed[i] >= from /\ passed[i] <= from + Window
  BY <1>1 DEF L!LetThrough
<1> HIDE DEF S
<1>4. CASE S = {}
  BY <1>4, FS_EmptySet DEF S
<1>5. CASE S # {}
  <2>1. S \in SUBSET Nat
    BY <1>1, <1>3
  <2>2. PICK m \in S : \A i \in S : m <= i
    BY <1>5, <2>1, LeastMember
  <2>3. ASSUME NEW i \in S PROVE i \in m .. m + MaxReq - 1
    <3>1. i \in 1 .. Len(passed) /\ m \in 1 .. Len(passed) /\ m <= i
      BY <1>3, <2>2
    <3>2. ~(m + MaxReq <= i)
      <4>1. SUFFICES ASSUME m + MaxReq <= i PROVE FALSE
        OBVIOUS
      <4>2. passed[m] + Window < passed[i]
        BY <1>2, <3>1, <4>1
      <4>3. passed[m] >= from /\ passed[i] <= from + Window
        BY <1>3
      <4>4. QED
        BY <1>1, <3>1, <4>2, <4>3
    <3>3. QED
      BY <1>1, <3>1, <3>2
  <2>4. m \in Int /\ m + MaxReq - 1 \in Int /\ S \subseteq m .. m + MaxReq - 1
    BY <1>1, <1>3, <2>3
  <2>5. Cardinality(S) \in Nat /\ Cardinality(S) <= MaxReq
    <3> DEFINE last == m + MaxReq - 1
    <3>1. last - m + 1 = MaxReq /\ ~(m > last) /\ last \in Int
      BY <2>4
    <3>2. S \subseteq m .. last
      BY <2>4
    <3> HIDE DEF last
    <3>3. QED
      BY <2>4, <3>1, <3>2, Between
  <2>6. QED
    BY <2>4, <2>5 DEF S
<1>6. QED
  BY <1>4, <1>5

\* As long as requests come one at a time no window lets through more than the
\* limit, and while nothing is stale the threads bound what is let through.
THEOREM TheLimitHolds == L!Spec => []LimitHolds
<1>1. LimiterInv => LimitHolds
  <2> SUFFICES ASSUME LimiterInv PROVE LimitHolds
    OBVIOUS
  <2>1. 0 .. clock \subseteq Nat
    BY DEF LimiterInv, L!TypeOK
  <2>2. CASE raced
    BY <2>2, HasPlace, LimiterCounts DEF LimitHolds, L!LimitHolds
  <2>3. CASE ~raced
    BY <2>1, <2>3, WindowHolds, LimiterCounts DEF LimitHolds, L!LimitHolds
  <2>4. QED
    BY <2>2, <2>3
<1>2. QED
  BY <1>1, LimiterInvAlways, PTL

\* One request at a time is refused only when the window before it is full.
LEMMA RefusedWhenFull ==
  ASSUME LimiterInv, [L!Next]_limiter, ~raced,
         NEW t \in Threads, at[t] = "check", at'[t] = "out"
  PROVE  Cardinality(L!LetThrough(now[t] - Window, now[t])) >= MaxReq
<1> USE LimiterFacts
<1>1. t \in L!Inside
  BY DEF L!Inside
<1>2. store # NoDeque
  BY DEF LimiterInv, Created
<1>3. ts[t] = store /\ store \in Threads
  BY <1>1, <1>2 DEF LimiterInv, OneAtATime, Progress, Working, L!TypeOK
<1>4. Len(deque[store]) >= MaxReq
  <2>1. ASSUME NEW r \in Threads, Acts(r), r # t PROVE FALSE
    BY <2>1 DEF Acts, L!Enter, L!Create, L!Fetch, L!Purge, L!Pop, L!Check, L!Let,
                L!Goto, LimiterInv, L!TypeOK
  <2>2. ~L!Tick /\ ~UNCHANGED limiter
    BY DEF L!Tick, limiter
  <2>3. L!Check(t)
    BY <2>1, <2>2, LimiterSteps
       DEF Acts, L!Enter, L!Create, L!Fetch, L!Purge, L!Pop, L!Let
  <2>4. QED
    BY <1>3, <2>3 DEF L!Check, L!Goto, L!Times, LimiterInv, L!TypeOK
<1>5. /\ passed \in Seq(0 .. MaxClock) /\ Len(passed) \in Nat
      /\ DOMAIN passed = 1 .. Len(passed)
      /\ \A i \in 1 .. Len(passed) : passed[i] \in Int
      /\ deque[store] \in Seq(0 .. MaxClock) /\ Len(deque[store]) \in Nat
      /\ DOMAIN deque[store] = 1 .. Len(deque[store]) /\ now[t] \in Int
  BY <1>3 DEF LimiterInv, L!TypeOK
<1>6. /\ Len(deque[store]) <= Len(passed)
      /\ \A j \in 1 .. Len(deque[store]) : deque[store][j] = passed[Gone + j]
  BY <1>2, <1>5 DEF LimiterInv, OneAtATime, EndOfPassed
<1>7. Gone = Len(passed) - Len(deque[store]) /\ Gone \in Nat
  <2>1. Len(passed) - Len(deque[store]) \in Nat
    BY <1>5, <1>6
  <2>2. QED
    BY <2>1 DEF Gone
<1>8. deque[store] # <<>> /\ 1 \in 1 .. Len(deque[store])
  BY <1>4, <1>5
<1>a. /\ Gone = Len(passed) - Len(deque[store]) /\ Gone \in Nat
      /\ Len(passed) \in Nat /\ Len(deque[store]) \in Nat /\ Len(deque[store]) >= 1
  <2>1. Len(deque[store]) >= 1
    BY <1>5, <1>8
  <2>2. QED
    BY <1>5, <1>7, <2>1
<1>b. Gone + 1 \in 1 .. Len(passed) /\ Gone + 1 \in Int
  BY <1>a
<1>c. ~(Gone + 1 > Len(passed)) /\ Len(passed) - (Gone + 1) + 1 = Len(deque[store])
  <2> DEFINE g == Gone
             p == Len(passed)
             d == Len(deque[store])
  <2>1. g \in Int /\ p \in Int /\ d \in Int /\ g = p - d /\ d >= 1
    BY <1>a
  <2> HIDE DEF g, p, d
  <2>2. ~(g + 1 > p) /\ p - (g + 1) + 1 = d
    BY <2>1
  <2>3. QED
    BY <2>2 DEF g, p, d
<1>9. passed[Gone + 1] >= now[t] - Window
  <2>1. ~L!Stale(t, Head(deque[store]))
    BY <1>1, <1>2, <1>8 DEF LimiterInv, OneAtATime, Progress
  <2>2. Head(deque[store]) = passed[Gone + 1]
    <3>1. Head(deque[store]) = deque[store][1]
      BY <1>5, <1>8
    <3>2. QED
      BY <1>6, <1>8, <3>1
  <2>3. Gone + 1 \in 1 .. Len(passed)
    BY <1>b
  <2>4. QED
    BY <1>5, <2>1, <2>2, <2>3 DEF L!Stale
<1>10. ASSUME NEW i \in Gone + 1 .. Len(passed)
       PROVE  i \in L!LetThrough(now[t] - Window, now[t])
  <2>1. i \in 1 .. Len(passed) /\ Gone + 1 \in 1 .. Len(passed) /\ Gone + 1 <= i
    BY <1>a, <1>b, <1>10
  <2>2. passed[Gone + 1] <= passed[i] /\ passed[i] <= now[t]
    BY <1>1, <1>5, <2>1 DEF LimiterInv, OneAtATime, Spread
  <2>3. passed[i] \in now[t] - Window .. now[t]
    BY <1>5, <1>9, <2>1, <2>2
  <2>4. QED
    BY <1>5, <2>1, <2>3 DEF L!LetThrough
<1>11. L!LetThrough(now[t] - Window, now[t]) \subseteq 1 .. Len(passed)
  BY <1>5 DEF L!LetThrough
<1>12. IsFiniteSet(L!LetThrough(now[t] - Window, now[t]))
  BY <1>5, <1>11, Between
<1>13. Cardinality(Gone + 1 .. Len(passed)) = Len(deque[store])
  <2>1. Gone + 1 \in Int /\ ~(Gone + 1 > Len(passed))
    BY <1>b, <1>c
  <2>2. Cardinality(Gone + 1 .. Len(passed)) = Len(passed) - (Gone + 1) + 1
    BY <1>5, <2>1, FS_Interval
  <2>3. QED
    BY <1>b, <1>c, <2>2
<1>14. Cardinality(Gone + 1 .. Len(passed))
         <= Cardinality(L!LetThrough(now[t] - Window, now[t]))
  BY <1>10, <1>12, FS_Subset
<1>15. Cardinality(L!LetThrough(now[t] - Window, now[t])) \in Nat
  BY <1>12, FS_CardinalityType
<1>16. QED
  BY <1>4, <1>5, <1>13, <1>14, <1>15

\* As long as requests come one at a time, one is refused only when the limit was
\* used up in the window before it.
THEOREM NobodyIsRefusedEarly == L!Spec => RefusedOnlyIfFull
<1>1. LimiterInv /\ [L!Next]_(L!vars)
      => [\A t \in Threads :
            at[t] = "check" /\ at'[t] = "out" /\ ~raced
              => L!Cardinality(L!LetThrough(now[t] - Window, now[t])) >= MaxReq]_(L!vars)
  BY RefusedWhenFull, LimiterCounts DEF limiter, L!vars
<1>2. QED
  BY <1>1, LimiterInvAlways, PTL DEF L!Spec, RefusedOnlyIfFull, L!RefusedOnlyIfFull

-----------------------------------------------------------------------------
(* Fees and risk: a question is about a payment of some value.             *)

QuestionInv == F!TypeOK /\ (asked # "none" => value \in Values)

\* The values, hours, attempts and sizes that are asked about.
LEMMA QuestionFacts ==
  /\ Values \subseteq Nat \ {0} /\ Hours \subseteq 0 .. 23
  /\ Attempts \subseteq Nat /\ Users \subseteq Nat
BY CustomerAssumption DEF F!QuestionsAssumption

\* Every question is about one of the values.
LEMMA QuestionInvAlways == F!Spec => []QuestionInv
<1>1. F!Init => QuestionInv
  BY DEF F!Init, QuestionInv, F!TypeOK
<1>2. QuestionInv /\ [F!Next]_(F!vars) => QuestionInv'
  <2> SUFFICES ASSUME QuestionInv, [F!Next]_(F!vars) PROVE QuestionInv'
    OBVIOUS
  <2>1. ASSUME NEW h \in {"PF", "PJ"}, NEW v \in Values, NEW w \in Values,
               F!Quote(h, v, w)
        PROVE  QuestionInv'
    BY <2>1 DEF F!Quote, QuestionInv, F!TypeOK
  <2>2. ASSUME NEW v \in Values, NEW t \in Hours, NEW a \in Attempts,
               F!Screen(v, t, a)
        PROVE  QuestionInv'
    BY <2>2 DEF F!Screen, QuestionInv, F!TypeOK
  <2>3. ASSUME NEW tens \in Users, NEW v \in Values, NEW a \in Attempts,
               F!Project(tens, v, a)
        PROVE  QuestionInv'
    BY <2>3 DEF F!Project, QuestionInv, F!TypeOK
  <2>4. CASE UNCHANGED F!vars
    BY <2>4 DEF F!vars, QuestionInv, F!TypeOK
  <2>5. QED
    BY <2>1, <2>2, <2>3, <2>4 DEF F!Next
<1>3. QED
  BY <1>1, <1>2, PTL DEF F!Spec

\* The fee of a payment is whole cents, and at least the minimum.
LEMMA FeeType ==
  ASSUME NEW h, NEW v \in Nat
  PROVE  /\ F!Share(v, 8, 1000) \in Nat /\ F!Share(v, 49, 10000) \in Nat
         /\ F!calculate_pix_outbound_fee(h, v) \in Nat
         /\ F!calculate_pix_outbound_fee(h, v) >= 400
<1>1. F!Share(v, 8, 1000) = (16 * v + 1000) \div 2000
  BY DEF F!Share
<1>2. F!Share(v, 49, 10000) = (98 * v + 10000) \div 20000
  BY DEF F!Share
<1>3. F!Share(v, 8, 1000) \in Nat /\ F!Share(v, 49, 10000) \in Nat
  BY <1>1, <1>2
<1>4. QED
  BY <1>3 DEF F!calculate_pix_outbound_fee, F!Larger, F!PIX_SENT_MIN,
              F!PIX_NETWORK_FEE, F!PIX_MAINTENANCE_FEE

\* What is taken for a payment to or from another bank is what is previewed.
LEMMA PreviewHolds ==
  ASSUME QuestionInv
  PROVE  F!PreviewIsCharged
<1> DEFINE fee == F!calculate_pix_outbound_fee(holder, value)
           rate == F!Share(value, 8, 1000)
<1>1. ASSUME asked = "fee"
      PROVE  fee \in Nat /\ fee >= 400 /\ rate \in Nat
  <2>1. value \in Nat
    BY <1>1, QuestionFacts DEF QuestionInv
  <2>2. QED
    BY <2>1, FeeType
<1>2. /\ fee = IF holder = "PJ" THEN F!Larger(rate, 400) ELSE 400
  BY DEF F!calculate_pix_outbound_fee, F!PIX_SENT_MIN, F!PIX_NETWORK_FEE, F!PIX_MAINTENANCE_FEE
<1> DEFINE label == IF holder = "PJ" THEN 300 ELSE 0
           shown == F!get_pix_fee_preview(holder, value, FALSE)
           received == F!get_pix_fee_preview(holder, value, TRUE)
           taken == F!FeeCharged(holder, value)
<1> HIDE DEF fee, rate
<1>3. shown = [gateway_cost |-> 200, platform_fee |-> fee, network_fee |-> 300,
               service_fee |-> fee - 300, net_margin |-> fee - 200, fee_label |-> label]
  BY DEF F!get_pix_fee_preview, F!fee_breakdown, F!ASAAS_PIX_OUTBOUND_COST,
         F!PIX_NETWORK_FEE, fee
<1>4. received = [gateway_cost |-> 0, platform_fee |-> 0, network_fee |-> 0,
                  service_fee |-> 0, net_margin |-> 0, fee_label |-> 0]
  BY DEF F!get_pix_fee_preview, F!fee_breakdown
<1>5. taken = [transfer |-> fee, qr |-> fee, internal_transfer |-> 0,
               internal_qr |-> 100, internal_receipt |-> 0, receipt |-> 0]
  BY DEF F!FeeCharged, F!calculate_pix_fee, F!calculate_pix_receive_fee,
         F!PIX_MAINTENANCE_FEE, fee
<1> HIDE DEF shown, received, taken
<1>6. ASSUME asked = "fee"
      PROVE  /\ shown.platform_fee = taken.transfer /\ shown.platform_fee = taken.qr
             /\ received.platform_fee = taken.receipt
             /\ \A s \in {shown, received} :
                  /\ s.network_fee + s.service_fee = s.platform_fee
                  /\ s.gateway_cost + s.net_margin = s.platform_fee
             /\ shown.net_margin >= F!PIX_MAINTENANCE_FEE
             /\ \A inside \in {taken.internal_transfer + taken.internal_receipt,
                              taken.internal_qr + taken.internal_receipt} :
                  inside < shown.platform_fee
  <2>1. fee \in Nat /\ fee >= 400
    BY <1>1, <1>6
  <2>2. /\ shown.platform_fee = fee /\ shown.network_fee = 300
        /\ shown.service_fee = fee - 300 /\ shown.gateway_cost = 200
        /\ shown.net_margin = fee - 200
    BY <1>3
  <2>3. /\ received.platform_fee = 0 /\ received.network_fee = 0
        /\ received.service_fee = 0 /\ received.gateway_cost = 0
        /\ received.net_margin = 0
    BY <1>4
  <2>4. /\ taken.transfer = fee /\ taken.qr = fee /\ taken.receipt = 0
        /\ taken.internal_transfer = 0 /\ taken.internal_receipt = 0
        /\ taken.internal_qr = 100
    BY <1>5
  <2>5. QED
    BY <2>1, <2>2, <2>3, <2>4 DEF F!PIX_MAINTENANCE_FEE
<1>7. ASSUME asked = "fee", holder = "PJ"
      PROVE  shown.platform_fee - F!Larger(rate, shown.fee_label)
               \in 0 .. F!PIX_MAINTENANCE_FEE
  BY <1>1, <1>2, <1>3, <1>7 DEF F!Larger, F!PIX_MAINTENANCE_FEE
<1>8. QED
  BY <1>6, <1>7, Zenon DEF F!PreviewIsCharged, shown, received, taken, rate

\* Two payments cost a cent less at most than one of both values.
LEMMA SplittingHolds ==
  ASSUME QuestionInv
  PROVE  F!SplittingSavesNothing
<1> SUFFICES ASSUME asked = "fee"
             PROVE  F!calculate_pix_outbound_fee(holder, value + other)
                      <= F!calculate_pix_outbound_fee(holder, value)
                         + F!calculate_pix_outbound_fee(holder, other) + 1
  BY DEF F!SplittingSavesNothing
<1>1. value \in Nat /\ other \in Nat /\ value + other \in Nat
  BY QuestionFacts DEF QuestionInv, F!TypeOK
<1>2. /\ F!calculate_pix_outbound_fee(holder, value) >= 400
      /\ F!calculate_pix_outbound_fee(holder, other) >= 400
  BY <1>1, FeeType
<1>3. \A v, w \in Nat : (16 * (v + w) + 1000) \div 2000
                          <= (16 * v + 1000) \div 2000 + (16 * w + 1000) \div 2000 + 1
  OBVIOUS
<1>4. F!Share(value + other, 8, 1000) <= F!Share(value, 8, 1000) + F!Share(other, 8, 1000) + 1
  BY <1>1, <1>3 DEF F!Share
<1>5. /\ F!Share(value, 8, 1000) \in Nat /\ F!Share(other, 8, 1000) \in Nat
      /\ F!Share(value + other, 8, 1000) \in Nat
  BY <1>1, FeeType
<1>6. QED
  BY <1>2, <1>4, <1>5
     DEF F!calculate_pix_outbound_fee, F!Larger, F!PIX_SENT_MIN,
         F!PIX_NETWORK_FEE, F!PIX_MAINTENANCE_FEE

\* The projection exceeds what is taken by one fee, and free transfers cost nothing.
LEMMA ProjectionHolds ==
  ASSUME QuestionInv
  PROVE  F!ProjectionOverstates
<1> SUFFICES ASSUME asked = "project"
             PROVE  LET p == F!monthly_revenue_projection(other, value, attempts) IN
                    /\ p.gross = F!Charged(other, value)
                                 + F!Inbound(other).PJ * F!pj_in_fee_each(value)
                    /\ \A a \in Attempts :
                         LET more == F!monthly_revenue_projection(other, value, a) IN
                         a >= attempts =>
                           p.net - more.net
                             \in 0 .. (a - attempts) * F!ASAAS_PIX_OUTBOUND_COST
  BY DEF F!ProjectionOverstates
<1>1. value \in Nat /\ other \in Nat /\ attempts \in Nat
  BY QuestionFacts DEF QuestionInv, F!TypeOK
<1> DEFINE out == F!pj_out_fee_each(value)
           in == F!pj_in_fee_each(value)
           gross == (8 * other) * 400 + (2 * other) * out + other * in
           costs(a) == F!Paid(other, a) * 200 + (4 * other + other) * 199
<1>2. out \in Nat /\ in \in Nat /\ out = F!calculate_pix_outbound_fee("PJ", value)
  BY <1>1, FeeType
     DEF F!pj_out_fee_each, F!pj_in_fee_each, F!Larger, F!PIX_SENT_MIN, F!PIX_RECV_MIN_PJ,
         F!PIX_NETWORK_FEE, F!PIX_MAINTENANCE_FEE, F!calculate_pix_outbound_fee
<1>3. ASSUME NEW a
      PROVE  /\ F!monthly_revenue_projection(other, value, a).gross = gross
             /\ F!monthly_revenue_projection(other, value, a).net = gross - costs(a)
  <2> HIDE DEF out, in
  <2>1. QED
    BY DEF F!monthly_revenue_projection, F!Outbound, F!Inbound, F!PIX_SENT_MIN,
           F!PIX_NETWORK_FEE, F!PIX_MAINTENANCE_FEE, F!ASAAS_PIX_OUTBOUND_COST,
           F!ASAAS_PIX_INBOUND_NET_COST, out, in
<1>4. gross = F!Charged(other, value) + F!Inbound(other).PJ * in
  <2>1. F!calculate_pix_outbound_fee("PF", value) = 400
    BY DEF F!calculate_pix_outbound_fee, F!PIX_SENT_MIN, F!PIX_NETWORK_FEE, F!PIX_MAINTENANCE_FEE
  <2>2. F!Charged(other, value) = (8 * other) * 400 + (2 * other) * out
                                  + (4 * other) * 0 + other * 0
    BY <1>2, <2>1 DEF F!Charged, F!FeeCharged, F!Outbound, F!Inbound,
                      F!calculate_pix_fee, F!calculate_pix_receive_fee
  <2>3. F!Inbound(other).PJ = other
    BY DEF F!Inbound
  <2> HIDE DEF out, in
  <2>4. (4 * other) * 0 = 0 /\ other * 0 = 0
    BY <1>1
  <2>5. (8 * other) * 400 \in Nat /\ (2 * other) * out \in Nat /\ other * in \in Nat
    BY <1>1, <1>2
  <2>6. QED
    BY <2>2, <2>3, <2>4, <2>5
<1>5. ASSUME NEW a \in Attempts, a >= attempts
      PROVE  costs(a) - costs(attempts) \in 0 .. (a - attempts) * 200
  <2>1. a \in Nat
    BY QuestionFacts
  <2>2. /\ F!Paid(other, a) \in Nat /\ F!Paid(other, attempts) \in Nat
        /\ F!Paid(other, a) - F!Paid(other, attempts) \in 0 .. a - attempts
    BY <1>1, <1>5, <2>1 DEF F!Paid, F!Larger, F!ASAAS_PIX_OUTBOUND_FREE_MONTHLY
  <2>3. QED
    BY <1>1, <1>5, <2>1, <2>2
<1>6. gross \in Int /\ costs(attempts) \in Int /\ \A a \in Attempts : costs(a) \in Int
  <2>1. ASSUME NEW a \in Nat PROVE costs(a) \in Int
    BY <1>1, <2>1 DEF F!Paid, F!Larger, F!ASAAS_PIX_OUTBOUND_FREE_MONTHLY
  <2>2. gross \in Int
    <3> HIDE DEF out, in
    <3>1. QED
      BY <1>1, <1>2
  <2>3. QED
    BY <1>1, <2>1, <2>2, QuestionFacts
<1> HIDE DEF gross, costs
<1>7. ASSUME NEW a \in Attempts, a >= attempts
      PROVE  (gross - costs(attempts)) - (gross - costs(a)) \in 0 .. (a - attempts) * 200
  <2>1. (gross - costs(attempts)) - (gross - costs(a)) = costs(a) - costs(attempts)
    BY <1>6
  <2>2. QED
    BY <1>5, <1>7, <2>1
<1>8. QED
  BY <1>3, <1>4, <1>7 DEF F!ASAAS_PIX_OUTBOUND_COST

\* To and from other banks customers pay what the preview shows, and two halves
\* cost a cent less at most; the projection counts a fee on receipts besides.
THEOREM FeesAreAsPreviewed == F!Spec => []FeesAgree
<1>1. QuestionInv => FeesAgree
  BY PreviewHolds, SplittingHolds, ProjectionHolds DEF FeesAgree
<1>2. QED
  BY <1>1, QuestionInvAlways, PTL

\* More risk is not judged better, and what is let through is paid out.
THEOREM RiskIsJudged == F!Spec => []RiskDecides
<1>1. ASSUME QuestionInv PROVE F!RiskNeverHelps
  <2> SUFFICES ASSUME asked = "screen", ~F!Approved(value, hour, attempts),
                      NEW v \in Values, NEW a \in Attempts, NEW t \in Hours,
                      v >= value, a >= attempts,
                      F!NightTimeRule(hour) => F!NightTimeRule(t)
               PROVE  /\ ~F!Approved(v, t, a)
                      /\ F!RiskLevel(F!Score(v, t, a)) = "HIGH"
    BY DEF F!RiskNeverHelps
  <2>1. value \in Nat /\ attempts \in Nat /\ v \in Nat /\ a \in Nat
    BY <1>1, QuestionFacts DEF QuestionInv, F!TypeOK
  <2>2. F!Score(v, t, a) \in Nat /\ F!Score(v, t, a) >= 60
    BY <2>1 DEF F!Approved, F!approval_limit, F!Score, F!Smaller, F!Points,
                F!HighValueRule, F!ExcessiveAttemptsRule, F!ExtremeValueRule
  <2>3. QED
    BY <2>2 DEF F!Approved, F!approval_limit, F!RiskLevel
<1>2. ASSUME QuestionInv PROVE F!ScreenedIsPaidOut
  <2> SUFFICES ASSUME asked = "screen", F!Approved(value, hour, attempts)
               PROVE  F!WithdrawalApproved(value, "TRANSFER")
    BY DEF F!ScreenedIsPaidOut
  <2>1. value \in Nat \ {0}
    BY <1>2, QuestionFacts DEF QuestionInv
  <2>2. value <= 100000
    BY <2>1 DEF F!Approved, F!approval_limit, F!Score, F!Smaller, F!Points,
                F!HighValueRule, F!ExtremeValueRule
  <2>3. QED
    BY <2>1, <2>2 DEF F!WithdrawalApproved, F!MAX_WITHDRAWAL
<1>3. QuestionInv => RiskDecides
  BY <1>1, <1>2 DEF RiskDecides
<1>4. QED
  BY <1>3, QuestionInvAlways, PTL

-----------------------------------------------------------------------------
(* The codes.                                                              *)

\* Every code that comes in is a code.
LEMMA CodesTypeCorrect == C!Spec => []C!TypeOK
<1>1. C!Init => C!TypeOK
  BY EmptySeq DEF C!Init, C!TypeOK
<1>2. C!TypeOK /\ [C!Next]_(C!vars) => C!TypeOK'
  <2> SUFFICES ASSUME C!TypeOK, [C!Next]_(C!vars) PROVE C!TypeOK'
    OBVIOUS
  <2>1. ASSUME NEW k \in C!Kinds, NEW first \in C!Digits, NEW increment \in Steps,
               C!Type(k, first, increment)
        PROVE  C!TypeOK'
    <3>1. increment \in Nat /\ first \in Nat
      BY CustomerAssumption DEF C!CodesAssumption, C!Digits
    <3>2. \A i \in Nat : (first + i * increment) % 10 \in 0 .. 9
      BY <3>1
    <3>3. C!Lengths[k] \in Nat
      BY DEF C!Lengths, C!Kinds
    <3>4. number' \in [1 .. C!Lengths[k] -> C!Digits]
      BY <2>1, <3>2, <3>3 DEF C!Type, C!Digits
    <3>5. number' \in Seq(C!Digits)
      BY <3>3, <3>4
    <3>6. QED
      BY <2>1, <3>5 DEF C!Type, C!TypeOK
  <2>2. ASSUME NEW charge \in Ids, NEW v \in Amounts,
               NEW c \in Crcs, NEW d \in Crcs, NEW e \in Crcs,
               C!Scan(charge, v, c, d, e)
        PROVE  C!TypeOK'
    BY <2>2 DEF C!Scan, C!TypeOK
  <2>3. CASE UNCHANGED C!vars
    BY <2>3 DEF C!vars, C!TypeOK
  <2>4. QED
    BY <2>1, <2>2, <2>3 DEF C!Next
<1>3. QED
  BY <1>1, <1>2, PTL DEF C!Spec

\* What came in as a BR code has the parts of one.
CodesInv ==
  came = "brcode" =>
    /\ id \in Ids /\ amount \in Amounts
    /\ checksum \in Crcs /\ elsewhere \in Crcs /\ appended \in Crcs

\* One text after the other.
LEMMA TextsJoined ==
  ASSUME NEW S, NEW a \in Seq(S), NEW b \in Seq(S)
  PROVE  /\ a \o b \in Seq(S) /\ Len(a \o b) = Len(a) + Len(b)
         /\ \A j \in 1 .. Len(a) : (a \o b)[j] = a[j]
         /\ \A j \in Len(a) + 1 .. Len(a) + Len(b) : (a \o b)[j] = b[j - Len(a)]
OBVIOUS

\* A part of a text.
LEMMA TextPart ==
  ASSUME NEW S, NEW s \in Seq(S), NEW first \in 1 .. Len(s) + 1,
         NEW last \in first - 1 .. Len(s)
  PROVE  /\ SubSeq(s, first, last) \in Seq(S)
         /\ Len(SubSeq(s, first, last)) = last - first + 1
         /\ \A j \in 1 .. last - first + 1 :
               SubSeq(s, first, last)[j] = s[first + j - 1]
OBVIOUS

\* The texts without hyphens, from the beginning on.
Strips(f, s) ==
  f = [n \in 0 .. Len(s) |->
         IF n = 0 THEN <<>>
         ELSE IF s[n] = C!Hyphen THEN f[n - 1] ELSE Append(f[n - 1], s[n])]

LEMMA StripsExist ==
  ASSUME NEW s \in Seq(C!Symbols)
  PROVE  \E f : Strips(f, s)
<1> DEFINE N == Len(s)
           Next1(f, n) == IF n = 0 THEN <<>>
                          ELSE IF s[n] = C!Hyphen THEN f[n - 1]
                          ELSE Append(f[n - 1], s[n])
           UpTo(f, k) == f = [n \in 0 .. k |-> Next1(f, n)]
           Bad == {k \in Nat : ~ \E f : UpTo(f, k)}
<1>n. N \in Nat
  OBVIOUS
<1>1. \E f : UpTo(f, 0)
  <2>1. UpTo([n \in 0 .. 0 |-> <<>>], 0)
    OBVIOUS
  <2>2. QED
    BY <2>1
<1>2. ASSUME NEW k \in Nat, \E f : UpTo(f, k) PROVE \E f : UpTo(f, k + 1)
  <2>1. PICK f : UpTo(f, k)
    BY <1>2
  <2> DEFINE g == [n \in 0 .. k + 1 |-> Next1(f, n)]
  <2>2. \A n \in 0 .. k : g[n] = f[n]
    <3>1. \A n \in 0 .. k : g[n] = Next1(f, n)
      OBVIOUS
    <3>2. \A n \in 0 .. k : f[n] = Next1(f, n)
      BY <2>1
    <3>3. QED
      BY <3>1, <3>2
  <2>3. \A n \in 0 .. k + 1 : Next1(f, n) = Next1(g, n)
    <3>1. TAKE n \in 0 .. k + 1
    <3>2. CASE n = 0
      BY <3>2
    <3>3. CASE n # 0
      <4>1. n - 1 \in 0 .. k
        BY <3>3
      <4>2. g[n - 1] = f[n - 1]
        BY <2>2, <4>1
      <4> HIDE DEF g
      <4>3. QED
        BY <3>3, <4>2
    <3>4. QED
      BY <3>2, <3>3
  <2>4. g = [n \in 0 .. k + 1 |-> Next1(g, n)]
    <3> HIDE DEF Next1
    <3>1. QED
      BY <2>3
  <2>5. QED
    BY <2>4
<1>3. Bad = {}
  <2> SUFFICES ASSUME Bad # {} PROVE FALSE
    OBVIOUS
  <2>1. Bad \in SUBSET Nat
    OBVIOUS
  <2>2. PICK n \in Bad : \A m \in Bad : n <= m
    BY <2>1, LeastMember
  <2> HIDE DEF UpTo
  <2>3. n \in Nat /\ n # 0
    BY <1>1
  <2>4. n - 1 \in Nat /\ n - 1 \notin Bad /\ (n - 1) + 1 = n
    <3>1. n - 1 \in Nat /\ ~(n <= n - 1) /\ (n - 1) + 1 = n
      BY <2>3
    <3> HIDE DEF Bad
    <3>2. QED
      BY <2>2, <3>1
  <2>5. \E f : UpTo(f, (n - 1) + 1)
    BY <1>2, <2>4
  <2>6. QED
    BY <2>2, <2>4, <2>5
<1>4. \E f : UpTo(f, N)
  <2> HIDE DEF UpTo, N
  <2>1. QED
    BY <1>n, <1>3
<1>5. QED
  BY <1>4 DEF Strips

LEMMA StrippedIsText ==
  ASSUME NEW s \in Seq(C!Symbols)
  PROVE  C!Stripped(s) \in Seq(C!Symbols)
<1> DEFINE f == CHOOSE f : Strips(f, s)
           Bad == {n \in 0 .. Len(s) : f[n] \notin Seq(C!Symbols)}
<1>1. Strips(f, s)
  BY StripsExist
<1>2. C!Stripped(s) = f[Len(s)]
  BY DEF C!Stripped, Strips
<1> HIDE DEF f
<1>3. \A n \in 0 .. Len(s) :
        f[n] = IF n = 0 THEN <<>>
               ELSE IF s[n] = C!Hyphen THEN f[n - 1] ELSE Append(f[n - 1], s[n])
  BY <1>1 DEF Strips
<1>4. Bad = {}
  <2> SUFFICES ASSUME Bad # {} PROVE FALSE
    OBVIOUS
  <2>1. Bad \in SUBSET Nat
    OBVIOUS
  <2>2. PICK n \in Bad : \A m \in Bad : n <= m
    BY <2>1, LeastMember
  <2>3. n \in 0 .. Len(s) /\ n # 0
    <3>1. n \in 0 .. Len(s) /\ f[n] \notin Seq(C!Symbols)
      OBVIOUS
    <3>2. 0 \in 0 .. Len(s)
      OBVIOUS
    <3>3. f[0] = <<>>
      BY <1>3, <3>2
    <3>4. <<>> \in Seq(C!Symbols)
      OBVIOUS
    <3>5. QED
      BY <3>1, <3>3, <3>4
  <2>4. n - 1 \in 0 .. Len(s) /\ ~(n <= n - 1) /\ n \in 1 .. Len(s)
    BY <2>3
  <2>5. f[n - 1] \in Seq(C!Symbols)
    BY <2>2, <2>4
  <2>6. s[n] \in C!Symbols
    BY <2>4
  <2>7. Append(f[n - 1], s[n]) \in Seq(C!Symbols)
    BY <2>5, <2>6
  <2>8. f[n] \in Seq(C!Symbols)
    BY <1>3, <2>3, <2>5, <2>7
  <2>9. QED
    BY <2>8
<1>5. Len(s) \in 0 .. Len(s)
  OBVIOUS
<1>6. QED
  BY <1>2, <1>4, <1>5

\* The beginning of one.
LEMMA TxidIsText ==
  ASSUME NEW s \in Seq(C!Symbols)
  PROVE  C!Txid(s) \in Seq(C!Symbols) /\ Len(C!Txid(s)) <= 25
<1> DEFINE t == C!Stripped(s)
           last == C!Smaller(25, Len(t))
           p == SubSeq(t, 1, last)
<1>1. t \in Seq(C!Symbols)
  BY StrippedIsText
<1> HIDE DEF t
<1>2. Len(t) \in Nat
  BY <1>1
<1>3. last \in 1 - 1 .. Len(t) /\ last <= 25 /\ 1 \in 1 .. Len(t) + 1
  BY <1>2 DEF C!Smaller
<1> HIDE DEF last
<1>4. p \in Seq(C!Symbols) /\ Len(p) = last - 1 + 1
  BY <1>1, <1>3, TextPart
<1>5. p = C!Txid(s)
  BY DEF C!Txid, t, last
<1> HIDE DEF p
<1>6. last - 1 + 1 <= 25
  BY <1>2, <1>3
<1>7. QED
  BY <1>4, <1>5, <1>6

\* A field is a text.
LEMMA TlvIsText ==
  ASSUME NEW tag, NEW t, tag \in Seq(Int), t \in Seq(Int)
  PROVE  C!tlv(tag, t) \in Seq(Int)
<1>1. Len(t) \in Nat
  OBVIOUS
<1>2. <<Len(t) \div 10, Len(t) % 10>> \in Seq(Int)
  BY <1>1
<1>3. QED
  BY <1>2 DEF C!tlv

\* Texts are sequences of numbers.
LEMMA SymbolsAreNumbers == \A s : s \in Seq(C!Symbols) => s \in Seq(Int)
BY DEF C!Symbols, C!Hyphen

LEMMA CodeIsText ==
  ASSUME NEW charge \in Seq(C!Symbols), NEW v \in Seq(C!Symbols)
  PROVE  \E s \in Seq(Int) : C!build_pix_static_emv(charge, v) = s \o C!CrcTag
<1> DEFINE txid == C!Txid(charge)
           key == C!tlv(<<0, 1>>, charge)
           gui == C!tlv(<<0, 0>>, <<C!Letter>>)
           a == C!tlv(<<0, 0>>, <<0, 1>>)
           b == C!tlv(<<0, 1>>, <<1, 1>>)
           c == C!tlv(<<2, 6>>, gui \o key)
           d == C!tlv(<<5, 2>>, <<0, 0, 0, 0>>)
           e == C!tlv(<<5, 3>>, <<9, 8, 6>>)
           f == C!tlv(C!Tag54, v)
           g == C!tlv(<<5, 8>>, <<C!Letter>>)
           h == C!tlv(<<5, 9>>, <<C!Letter>>)
           i == C!tlv(<<6, 0>>, <<C!Letter>>)
           j == C!tlv(<<6, 2>>, C!tlv(<<0, 5>>, txid))
<1>1. txid \in Seq(Int) /\ charge \in Seq(Int) /\ v \in Seq(Int)
  BY TxidIsText, SymbolsAreNumbers
<1> HIDE DEF txid
<1>2. /\ <<C!Letter>> \in Seq(Int) /\ C!Tag54 \in Seq(Int)
      /\ <<0, 0>> \in Seq(Int) /\ <<0, 1>> \in Seq(Int) /\ <<1, 1>> \in Seq(Int)
      /\ <<2, 6>> \in Seq(Int) /\ <<5, 2>> \in Seq(Int) /\ <<5, 3>> \in Seq(Int)
      /\ <<5, 8>> \in Seq(Int) /\ <<5, 9>> \in Seq(Int) /\ <<6, 0>> \in Seq(Int)
      /\ <<6, 2>> \in Seq(Int) /\ <<0, 5>> \in Seq(Int)
      /\ <<0, 0, 0, 0>> \in Seq(Int) /\ <<9, 8, 6>> \in Seq(Int)
  BY DEF C!Letter, C!Tag54
<1>3. gui \in Seq(Int) /\ key \in Seq(Int) /\ C!tlv(<<0, 5>>, txid) \in Seq(Int)
  BY <1>1, <1>2, TlvIsText
<1>4. gui \o key \in Seq(Int)
  BY <1>3
<1>5. /\ a \in Seq(Int) /\ b \in Seq(Int) /\ c \in Seq(Int) /\ d \in Seq(Int)
      /\ e \in Seq(Int) /\ f \in Seq(Int) /\ g \in Seq(Int) /\ h \in Seq(Int)
      /\ i \in Seq(Int) /\ j \in Seq(Int)
  BY <1>1, <1>2, <1>3, <1>4, TlvIsText
<1>6. C!build_pix_static_emv(charge, v)
        = a \o b \o c \o d \o e \o f \o g \o h \o i \o j \o C!CrcTag
  BY DEF C!build_pix_static_emv, txid
<1> HIDE DEF a, b, c, d, e, f, g, h, i, j
<1>7. a \o b \o c \o d \o e \o f \o g \o h \o i \o j \in Seq(Int)
  BY <1>5
<1>8. QED
  BY <1>6, <1>7

\* The tag is its four digits.
LEMMA TagIs ==
  ASSUME NEW t \in Seq(Int), Len(t) = 4
  PROVE  t = C!CrcTag <=> t[1] = 6 /\ t[2] = 3 /\ t[3] = 0 /\ t[4] = 4
<1>1. /\ C!CrcTag \in Seq(Int) /\ Len(C!CrcTag) = 4
      /\ C!CrcTag[1] = 6 /\ C!CrcTag[2] = 3 /\ C!CrcTag[3] = 0 /\ C!CrcTag[4] = 4
  BY DEF C!CrcTag
<1>2. ASSUME t[1] = 6, t[2] = 3, t[3] = 0, t[4] = 4 PROVE t = C!CrcTag
  <2>1. \A i \in 1 .. 4 : t[i] = C!CrcTag[i]
    BY <1>1, <1>2
  <2>2. QED
    BY <1>1, <2>1, SeqEqual
<1>3. QED
  BY <1>1, <1>2

\* Four digits stand after a text.
EndsIn(u, s, t) ==
  LET n == Len(s) IN
  /\ u \in Seq(Int) /\ Len(u) = n + 4
  /\ \A i \in 1 .. n : u[i] = s[i]
  /\ u[n + 1] = t[1] /\ u[n + 2] = t[2] /\ u[n + 3] = t[3] /\ u[n + 4] = t[4]

LEMMA FourMore ==
  ASSUME NEW s \in Seq(Int), NEW t \in Seq(Int), Len(t) = 4
  PROVE  EndsIn(s \o t, s, t)
<1> DEFINE u == s \o t
           n == Len(s)
<1>n. n \in Nat
  OBVIOUS
<1>1. /\ u \in Seq(Int) /\ Len(u) = n + 4
      /\ \A i \in 1 .. n + 4 : u[i] = IF i <= n THEN s[i] ELSE t[i - n]
  <2>1. /\ s \o t \in Seq(Int) /\ Len(s \o t) = Len(s) + Len(t)
        /\ \A i \in 1 .. Len(s) + Len(t) :
             (s \o t)[i] = IF i <= Len(s) THEN s[i] ELSE t[i - Len(s)]
    BY ConcatProperties, Zenon
  <2>2. QED
    BY <2>1
<1> HIDE DEF u, n
<1>2. \A i \in 1 .. n : i \in 1 .. n + 4 /\ i <= n
  BY <1>n
<1>3. \A j \in 1 .. 4 : n + j \in 1 .. n + 4 /\ ~(n + j <= n) /\ (n + j) - n = j
  BY <1>n
<1>4. \A j \in 1 .. 4 : u[n + j] = t[j]
  BY <1>1, <1>3
<1>5. QED
  BY <1>1, <1>2, <1>4 DEF EndsIn, u, n

\* Four digits in the middle of a text.
LEMMA FourOf ==
  ASSUME NEW t \in Seq(Int), NEW k \in Nat \ {0}, k + 3 <= Len(t)
  PROVE  SubSeq(t, k, k + 3) = C!CrcTag
           <=> t[k] = 6 /\ t[k + 1] = 3 /\ t[k + 2] = 0 /\ t[k + 3] = 4
<1> DEFINE piece == SubSeq(t, k, k + 3)
<1>1. \A i \in k .. k + 3 : t[i] \in Int
  <2>1. \A i \in k .. k + 3 : i \in 1 .. Len(t)
    OBVIOUS
  <2>2. QED
    BY <2>1
<1>2. /\ piece \in Seq(Int) /\ Len(piece) = IF k <= k + 3 THEN (k + 3) - k + 1 ELSE 0
      /\ \A i \in 1 .. (k + 3) - k + 1 : piece[i] = t[k + i - 1]
  <2>1. k \in Int /\ k + 3 \in Int
    OBVIOUS
  <2>2. /\ SubSeq(t, k, k + 3) \in Seq(Int)
        /\ Len(SubSeq(t, k, k + 3)) = IF k <= k + 3 THEN (k + 3) - k + 1 ELSE 0
        /\ \A i \in 1 .. (k + 3) - k + 1 : SubSeq(t, k, k + 3)[i] = t[k + i - 1]
    BY <1>1, <2>1, SubSeqProperties, SMT
  <2>3. QED
    BY <2>2
<1> HIDE DEF piece
<1>3. /\ (k + 3) - k + 1 = 4 /\ k <= k + 3
      /\ k + 1 - 1 = k /\ k + 2 - 1 = k + 1 /\ k + 3 - 1 = k + 2 /\ k + 4 - 1 = k + 3
  OBVIOUS
<1>4. /\ Len(piece) = 4 /\ piece[1] = t[k] /\ piece[2] = t[k + 1]
      /\ piece[3] = t[k + 2] /\ piece[4] = t[k + 3]
  BY <1>2, <1>3, SMTT(30)
<1>5. QED
  BY <1>2, <1>4, TagIs DEF piece

\* In a text that ends in the tag and four more, the tag is found last there, or
\* at the end when the four are the tag.
LEMMA LastTag ==
  ASSUME NEW s \in Seq(Int), NEW e \in Seq(Int), Len(e) = 4
  PROVE  LET brcode == s \o C!CrcTag \o e IN
         /\ C!Occurrences(brcode) # {}
         /\ e # C!CrcTag => C!CrcField(brcode) = Len(s) + 1
         /\ e = C!CrcTag => C!CrcField(brcode) = Len(s) + 5
<1> DEFINE brcode == s \o C!CrcTag \o e
           n == Len(s)
           start == s \o C!CrcTag
<1>1. /\ n \in Nat /\ C!CrcTag \in Seq(Int) /\ Len(C!CrcTag) = 4
      /\ C!CrcTag[1] = 6 /\ C!CrcTag[2] = 3 /\ C!CrcTag[3] = 0 /\ C!CrcTag[4] = 4
  BY DEF C!CrcTag
<1>a. EndsIn(start, s, C!CrcTag)
  BY <1>1, FourMore
<1>2. start \in Seq(Int) /\ Len(start) = n + 4 /\ EndsIn(brcode, start, e)
  <2>1. start \in Seq(Int) /\ Len(start) = n + 4
    BY <1>a DEF EndsIn
  <2> HIDE DEF start
  <2>2. EndsIn(start \o e, start, e)
    BY <2>1, FourMore
  <2>3. QED
    BY <2>1, <2>2 DEF start
<1>b. /\ start[n + 1] = 6 /\ start[n + 2] = 3 /\ start[n + 3] = 0 /\ start[n + 4] = 4
  BY <1>1, <1>a DEF EndsIn
<1> HIDE DEF start, n
<1> HIDE DEF brcode
<1>3. /\ brcode \in Seq(Int) /\ Len(brcode) = n + 8
      /\ brcode[n + 1] = 6 /\ brcode[n + 2] = 3 /\ brcode[n + 3] = 0 /\ brcode[n + 4] = 4
      /\ brcode[n + 5] = e[1] /\ brcode[n + 6] = e[2]
      /\ brcode[n + 7] = e[3] /\ brcode[n + 8] = e[4]
  <2>1. /\ (n + 4) + 1 = n + 5 /\ (n + 4) + 2 = n + 6
        /\ (n + 4) + 3 = n + 7 /\ (n + 4) + 4 = n + 8
        /\ n + 1 \in 1 .. n + 4 /\ n + 2 \in 1 .. n + 4
        /\ n + 3 \in 1 .. n + 4 /\ n + 4 \in 1 .. n + 4
    BY <1>1
  <2>2. QED
    BY <1>b, <1>2, <2>1 DEF EndsIn
<1>4. ASSUME NEW k \in 1 .. n + 5
      PROVE  SubSeq(brcode, k, k + 3) = C!CrcTag
               <=> /\ brcode[k] = 6 /\ brcode[k + 1] = 3
                   /\ brcode[k + 2] = 0 /\ brcode[k + 3] = 4
  <2>1. k \in Nat \ {0} /\ k + 3 <= Len(brcode)
    BY <1>1, <1>3
  <2>2. QED
    BY <1>3, <2>1, FourOf
<1>5. \A k \in Int : k \in C!Occurrences(brcode)
        <=> /\ k \in 1 .. n + 5
            /\ brcode[k] = 6 /\ brcode[k + 1] = 3 /\ brcode[k + 2] = 0 /\ brcode[k + 3] = 4
  <2>1. Len(brcode) - 3 = n + 5
    BY <1>1, <1>3
  <2>2. QED
    BY <1>4, <2>1 DEF C!Occurrences
<1>6. /\ (n + 1) + 1 = n + 2 /\ (n + 1) + 2 = n + 3 /\ (n + 1) + 3 = n + 4
      /\ (n + 5) + 1 = n + 6 /\ (n + 5) + 2 = n + 7 /\ (n + 5) + 3 = n + 8
      /\ n + 1 \in 1 .. n + 5 /\ n + 5 \in 1 .. n + 5
  BY <1>1
<1>7. n + 1 \in C!Occurrences(brcode) /\ n + 2 \notin C!Occurrences(brcode)
      /\ n + 3 \notin C!Occurrences(brcode) /\ n + 4 \notin C!Occurrences(brcode)
  <2>1. n + 1 \in C!Occurrences(brcode)
    BY <1>1, <1>3, <1>5, <1>6
  <2>2. brcode[n + 2] # 6 /\ brcode[n + 3] # 6 /\ brcode[n + 4] # 6
    BY <1>3
  <2>3. n + 2 \in Int /\ n + 3 \in Int /\ n + 4 \in Int
    BY <1>1
  <2>4. QED
    BY <1>5, <2>1, <2>2, <2>3
<1>8. n + 5 \in C!Occurrences(brcode) <=> e = C!CrcTag
  <2>1. e = C!CrcTag <=> e[1] = 6 /\ e[2] = 3 /\ e[3] = 0 /\ e[4] = 4
    BY TagIs
  <2>2. n + 5 \in Int
    BY <1>1
  <2>3. n + 5 \in C!Occurrences(brcode)
          <=> /\ brcode[n + 5] = 6 /\ brcode[n + 6] = 3 /\ brcode[n + 7] = 0 /\ brcode[n + 8] = 4
    <3>1. n + 5 \in C!Occurrences(brcode)
            <=> /\ brcode[n + 5] = 6 /\ brcode[n + 5 + 1] = 3
                /\ brcode[n + 5 + 2] = 0 /\ brcode[n + 5 + 3] = 4
      <4> SUFFICES ASSUME NEW k \in Int, k \in 1 .. n + 5, k = n + 5
                   PROVE  k \in C!Occurrences(brcode)
                            <=> /\ brcode[k] = 6 /\ brcode[k + 1] = 3
                                /\ brcode[k + 2] = 0 /\ brcode[k + 3] = 4
        BY <1>6, <2>2
      <4> QED
        BY <1>5, Zenon
    <3>2. QED
      BY <1>6, <3>1
  <2>4. QED
    BY <1>3, <2>1, <2>3
<1>c. \A k \in C!Occurrences(brcode) : k \in Int /\ k <= n + 5 /\ (k = n + 5 \/ k <= n + 1)
  <2> SUFFICES ASSUME NEW k \in C!Occurrences(brcode)
               PROVE  k \in Int /\ k <= n + 5 /\ (k = n + 5 \/ k <= n + 1)
    OBVIOUS
  <2>1. k \in Int
    BY <1>1, <1>3 DEF C!Occurrences
  <2>2. k \in 1 .. n + 5
    BY <1>5, <2>1
  <2>3. k # n + 2 /\ k # n + 3 /\ k # n + 4
    BY <1>7
  <2>4. QED
    BY <1>1, <2>2, <2>3
<1>9. ASSUME e # C!CrcTag PROVE C!CrcField(brcode) = n + 1
  <2>1. n + 5 \notin C!Occurrences(brcode)
    BY <1>8, <1>9
  <2>2. \A k \in C!Occurrences(brcode) : k \in Int /\ k <= n + 1
    BY <1>1, <1>c, <2>1
  <2>3. n + 1 \in C!Occurrences(brcode) /\ n + 1 \in Int
    BY <1>1, <1>7
  <2>4. QED
    BY <2>2, <2>3 DEF C!CrcField, C!Max
<1>10. ASSUME e = C!CrcTag PROVE C!CrcField(brcode) = n + 5
  <2>1. n + 5 \in C!Occurrences(brcode) /\ n + 5 \in Int
    BY <1>1, <1>8, <1>10
  <2>2. QED
    BY <1>c, <2>1 DEF C!CrcField, C!Max
<1>11. QED
  BY <1>7, <1>9, <1>10 DEF brcode, n

\* Four digits at the end of a text are read back, and so is what is before them.
LEMMA EndIsRead ==
  ASSUME NEW s \in Seq(Int), NEW t \in Seq(Int), Len(t) = 4
  PROVE  LET u == s \o t
             n == Len(s) IN
         SubSeq(u, n + 1, n + 4) = t /\ SubSeq(u, 1, n) = s
<1> DEFINE u == s \o t
           n == Len(s)
<1>1. n \in Nat /\ u \in Seq(Int) /\ Len(u) = n + 4
  BY FourMore DEF EndsIn
<1>2. /\ \A i \in 1 .. n : u[i] = s[i]
      /\ u[n + 1] = t[1] /\ u[n + 2] = t[2] /\ u[n + 3] = t[3] /\ u[n + 4] = t[4]
  BY FourMore DEF EndsIn
<1>3. n = Len(s)
  OBVIOUS
<1> HIDE DEF u, n
<1>4. \A i \in 1 .. n + 4 : u[i] \in Int
  BY <1>1
<1>5. SubSeq(u, 1, n) = s
  <2>1. /\ SubSeq(u, 1, n) \in Seq(Int)
        /\ Len(SubSeq(u, 1, n)) = IF 1 <= n THEN n - 1 + 1 ELSE 0
        /\ \A i \in 1 .. n - 1 + 1 : SubSeq(u, 1, n)[i] = u[1 + i - 1]
    <3>1. \A i \in 1 .. n : u[i] \in Int
      BY <1>1, <1>4
    <3>2. 1 \in Int /\ n \in Int
      BY <1>1
    <3>3. QED
      BY <3>1, <3>2, SubSeqProperties, SMT
  <2>2. Len(SubSeq(u, 1, n)) = n
    BY <1>1, <2>1
  <2>3. \A i \in 1 .. n : SubSeq(u, 1, n)[i] = s[i]
    BY <1>1, <1>2, <2>1
  <2>4. QED
    BY <1>3, <2>1, <2>2, <2>3, SeqEqual
<1>6. SubSeq(u, n + 1, n + 4) = t
  <2>1. /\ SubSeq(u, n + 1, n + 4) \in Seq(Int)
        /\ Len(SubSeq(u, n + 1, n + 4)) = IF n + 1 <= n + 4 THEN (n + 4) - (n + 1) + 1 ELSE 0
        /\ \A i \in 1 .. (n + 4) - (n + 1) + 1 :
             SubSeq(u, n + 1, n + 4)[i] = u[n + 1 + i - 1]
    <3>1. \A i \in n + 1 .. n + 4 : u[i] \in Int
      BY <1>1, <1>4
    <3>2. n + 1 \in Int /\ n + 4 \in Int
      BY <1>1
    <3>3. QED
      BY <3>1, <3>2, SubSeqProperties, SMT
  <2>2. /\ Len(SubSeq(u, n + 1, n + 4)) = 4
        /\ (n + 4) - (n + 1) + 1 = 4
        /\ n + 1 + 1 - 1 = n + 1 /\ n + 1 + 2 - 1 = n + 2
        /\ n + 1 + 3 - 1 = n + 3 /\ n + 1 + 4 - 1 = n + 4
    BY <1>1, <2>1
  <2>3. \A i \in 1 .. 4 : SubSeq(u, n + 1, n + 4)[i] = t[i]
    <3>1. \A i \in 1 .. 4 : i = 1 \/ i = 2 \/ i = 3 \/ i = 4
      OBVIOUS
    <3>2. 1 \in 1 .. 4 /\ 2 \in 1 .. 4 /\ 3 \in 1 .. 4 /\ 4 \in 1 .. 4
      OBVIOUS
    <3>3. QED
      BY <1>2, <2>1, <2>2, <3>1, <3>2, SMTT(20)
  <2>4. QED
    BY <2>1, <2>2, <2>3, SeqEqual
<1>7. QED
  BY <1>5, <1>6 DEF u, n

\* The checksum decides, for any ids, amounts and checksums.
LEMMA ChecksumOf ==
  ASSUME CodesInv, came = "brcode"
  PROVE  C!_validate_pix_crc(C!build_pix_static_emv(id, amount) \o appended)
           <=> appended = checksum /\ checksum # C!CrcTag
<1> DEFINE body == C!build_pix_static_emv(id, amount)
           brcode == body \o appended
<1>1. /\ id \in Seq(C!Symbols) /\ amount \in Seq(C!Symbols)
      /\ appended \in Seq(Int) /\ checksum \in Seq(Int)
      /\ Len(appended) = 4 /\ Len(checksum) = 4 /\ Len(elsewhere) = 4
  <2>1. /\ id \in Seq(C!Symbols) /\ amount \in Seq(C!Symbols)
        /\ appended \in Seq(C!Symbols) /\ checksum \in Seq(C!Symbols)
        /\ Len(appended) = 4 /\ Len(checksum) = 4 /\ Len(elsewhere) = 4
    BY CustomerAssumption DEF CodesInv, C!CodesAssumption
  <2>2. QED
    BY <2>1, SymbolsAreNumbers
<1>2. PICK s \in Seq(Int) : body = s \o C!CrcTag
  BY <1>1, CodeIsText
<1>3. /\ body \in Seq(Int) /\ Len(body) = Len(s) + 4
      /\ brcode \in Seq(Int) /\ Len(brcode) = Len(s) + 8 /\ Len(s) \in Nat
  <2>1. C!CrcTag \in Seq(Int) /\ Len(C!CrcTag) = 4 /\ Len(s) \in Nat
    BY DEF C!CrcTag
  <2>2. body \in Seq(Int) /\ Len(body) = Len(s) + 4
    BY <1>2, <2>1, FourMore DEF EndsIn
  <2> HIDE DEF body
  <2>3. brcode \in Seq(Int) /\ Len(brcode) = Len(body) + 4
    BY <1>1, <2>2, FourMore DEF EndsIn
  <2>4. QED
    BY <2>1, <2>2, <2>3
<1>4. /\ C!Occurrences(brcode) # {}
      /\ appended # C!CrcTag => C!CrcField(brcode) = Len(s) + 1
      /\ appended = C!CrcTag => C!CrcField(brcode) = Len(s) + 5
  BY <1>1, <1>2, LastTag
<1>5. \A tag : tag = C!CrcField(brcode) =>
        (C!_validate_pix_crc(brcode) <=>
          SubSeq(brcode, tag + 4, C!Smaller(Len(brcode), tag + 7))
            = C!crc16_ccitt(SubSeq(brcode, 1, tag + 3)))
  BY <1>4 DEF C!_validate_pix_crc
<1>6. CASE appended # C!CrcTag
  <2>1. /\ (Len(s) + 1) + 4 = Len(body) + 1 /\ (Len(s) + 1) + 3 = Len(body)
        /\ C!Smaller(Len(brcode), (Len(s) + 1) + 7) = Len(body) + 4
    BY <1>3 DEF C!Smaller
  <2>2. SubSeq(brcode, Len(body) + 1, Len(body) + 4) = appended
        /\ SubSeq(brcode, 1, Len(body)) = body
    <3> HIDE DEF body
    <3>1. QED
      BY <1>1, <1>3, EndIsRead
  <2>3. C!_validate_pix_crc(brcode) <=> appended = C!crc16_ccitt(body)
    <3> HIDE DEF body, brcode
    <3>1. QED
      BY <1>4, <1>5, <1>6, <2>1, <2>2
  <2>4. C!crc16_ccitt(body) = checksum
    BY DEF C!crc16_ccitt
  <2>5. QED
    BY <1>6, <2>3, <2>4
<1>7. CASE appended = C!CrcTag
  <2>1. SubSeq(brcode, (Len(s) + 5) + 4, C!Smaller(Len(brcode), (Len(s) + 5) + 7)) = <<>>
    <3>1. C!Smaller(Len(brcode), (Len(s) + 5) + 7) = Len(s) + 8
      BY <1>3 DEF C!Smaller
    <3>2. /\ (Len(s) + 5) + 4 \in Int /\ Len(s) + 8 \in Int
          /\ Len(s) + 8 < (Len(s) + 5) + 4
      BY <1>3
    <3> HIDE DEF brcode
    <3>3. QED
      BY <3>1, <3>2, SubSeqEmpty
  <2>2. \A x : C!crc16_ccitt(x) # <<>>
    <3>1. Len(<<>>) = 0
      OBVIOUS
    <3>2. Len(<<>>) # 4
      BY <3>1
    <3>3. checksum # <<>> /\ elsewhere # <<>>
      BY <1>1, <3>2, Zenon
    <3>4. QED
      BY <3>3, Zenon DEF C!crc16_ccitt
  <2>3. ~C!_validate_pix_crc(brcode)
    <3> HIDE DEF body, brcode
    <3>1. QED
      BY <1>4, <1>5, <1>7, <2>1, <2>2
  <2>4. QED
    BY <1>7, <2>3
<1>8. QED
  BY <1>6, <1>7

LEMMA CodesInvAlways == C!Spec => []CodesInv
<1>1. C!Init => CodesInv
  BY DEF C!Init, CodesInv
<1>2. CodesInv /\ [C!Next]_(C!vars) => CodesInv'
  <2> SUFFICES ASSUME CodesInv, [C!Next]_(C!vars) PROVE CodesInv'
    OBVIOUS
  <2>1. ASSUME NEW k \in C!Kinds, NEW first \in C!Digits, NEW increment \in Steps,
               C!Type(k, first, increment)
        PROVE  CodesInv'
    BY <2>1 DEF C!Type, CodesInv
  <2>2. ASSUME NEW charge \in Ids, NEW v \in Amounts,
               NEW c \in Crcs, NEW d \in Crcs, NEW e \in Crcs,
               C!Scan(charge, v, c, d, e)
        PROVE  CodesInv'
    BY <2>2 DEF C!Scan, CodesInv
  <2>3. CASE UNCHANGED C!vars
    BY <2>3 DEF C!vars, CodesInv
  <2>4. QED
    BY <2>1, <2>2, <2>3 DEF C!Next
<1>3. QED
  BY <1>1, <1>2, PTL DEF C!Spec

\* A BR code passes exactly when its checksum is right and does not read as the
\* tag of the checksum, whatever the ids, the amounts and the checksum's function:
\* no tag the brcode spells elsewhere is taken for the last.
THEOREM ChecksumDecides == C!Spec => []C!ChecksumDecides
<1>1. CodesInv => C!ChecksumDecides
  BY ChecksumOf DEF CodesInv, C!ChecksumDecides
<1>2. QED
  BY <1>1, CodesInvAlways, PTL

-----------------------------------------------------------------------------
(* Reading fields.  Walk is a recursive function over the places of a text; *)
(* that there is one which satisfies its equation is shown from the end on. *)

\* Where a walk stops, what it reads, and where it goes on.
Stops(t, stop, pos) ==
  \/ pos + 3 > Len(t)
  \/ SubSeq(t, pos, pos + 1) = stop
  \/ ~({t[pos + 2], t[pos + 3]} \subseteq C!Digits)
  \/ pos + 3 + (10 * t[pos + 2] + t[pos + 3]) > Len(t)

FieldAt(t, pos) ==
  [tag |-> SubSeq(t, pos, pos + 1),
   text |-> SubSeq(t, pos + 4, pos + 3 + (10 * t[pos + 2] + t[pos + 3]))]

After(t, pos) == pos + 3 + (10 * t[pos + 2] + t[pos + 3]) + 1

\* w has the fields from each place on.
Walks(w, t, stop) ==
  w = [pos \in 1 .. Len(t) + 1 |->
         IF Stops(t, stop, pos) THEN <<>> ELSE <<FieldAt(t, pos)>> \o w[After(t, pos)]]

\* The next field is further on.
LEMMA AfterIsLater ==
  ASSUME NEW t \in Seq(C!Symbols), NEW stop, NEW pos \in 1 .. Len(t) + 1,
         ~Stops(t, stop, pos)
  PROVE  /\ After(t, pos) \in pos + 4 .. Len(t) + 1
         /\ FieldAt(t, pos) \in [tag : Seq(C!Symbols), text : Seq(C!Symbols)]
<1>1. pos + 3 <= Len(t) /\ pos + 2 \in 1 .. Len(t) /\ pos + 3 \in 1 .. Len(t)
  BY DEF Stops
<1>2. t[pos + 2] \in 0 .. 9 /\ t[pos + 3] \in 0 .. 9
  BY DEF Stops, C!Digits
<1> DEFINE n == 10 * t[pos + 2] + t[pos + 3]
<1>3. n \in Nat
  <2>1. \A a, b \in 0 .. 9 : 10 * a + b \in Nat
    OBVIOUS
  <2>2. QED
    BY <1>2, <2>1, Zenon
<1>4. pos + 3 + n <= Len(t)
  BY <1>1, <1>3 DEF Stops
<1> HIDE DEF n
<1>5. pos + 3 + n + 1 \in pos + 4 .. Len(t) + 1
  BY <1>3, <1>4
<1>6. SubSeq(t, pos, pos + 1) \in Seq(C!Symbols)
  <2>1. pos \in 1 .. Len(t) + 1 /\ pos + 1 \in pos - 1 .. Len(t)
    BY <1>1
  <2>2. QED
    BY <2>1, TextPart
<1>7. SubSeq(t, pos + 4, pos + 3 + n) \in Seq(C!Symbols)
  <2>1. pos + 4 \in 1 .. Len(t) + 1 /\ pos + 3 + n \in (pos + 4) - 1 .. Len(t)
    BY <1>1, <1>3, <1>4
  <2>2. QED
    BY <2>1, TextPart
<1>8. QED
  BY <1>5, <1>6, <1>7 DEF After, FieldAt, n

\* There is a walk.
LEMMA WalkExists ==
  ASSUME NEW t \in Seq(C!Symbols), NEW stop
  PROVE  \E w : Walks(w, t, stop)
<1> DEFINE N == Len(t) + 1
           From(k) == {pos \in 1 .. N : pos + k > N}
           Next1(w, pos) == IF Stops(t, stop, pos) THEN <<>>
                            ELSE <<FieldAt(t, pos)>> \o w[After(t, pos)]
           WalksFrom(w, k) == w = [pos \in From(k) |-> Next1(w, pos)]
           Bad == {k \in Nat : ~ \E w : WalksFrom(w, k)}
<1>n. N \in Nat
  OBVIOUS
<1>1. \E w : WalksFrom(w, 0)
  <2>1. From(0) = {}
    BY <1>n
  <2>2. WalksFrom([pos \in From(0) |-> <<>>], 0)
    BY <2>1
  <2>3. QED
    BY <2>2
<1>2. ASSUME NEW k \in Nat, \E w : WalksFrom(w, k) PROVE \E w : WalksFrom(w, k + 1)
  <2>1. PICK w : WalksFrom(w, k)
    BY <1>2
  <2> DEFINE v == [pos \in From(k + 1) |-> Next1(w, pos)]
  <2>2. From(k) \subseteq From(k + 1)
    BY <1>n
  <2>3. \A pos \in From(k) : v[pos] = w[pos]
    <3>1. \A pos \in From(k) : v[pos] = Next1(w, pos)
      BY <2>2
    <3>2. \A pos \in From(k) : w[pos] = Next1(w, pos)
      BY <2>1
    <3>3. QED
      BY <3>1, <3>2
  <2>4. ASSUME NEW pos \in From(k + 1), ~Stops(t, stop, pos)
        PROVE  After(t, pos) \in From(k)
    <3>1. pos \in 1 .. N /\ pos + (k + 1) > N
      OBVIOUS
    <3>2. After(t, pos) \in pos + 4 .. N
      BY <2>4, <3>1, AfterIsLater
    <3>3. QED
      BY <1>n, <3>1, <3>2
  <2>5. \A pos \in From(k + 1) : Next1(w, pos) = Next1(v, pos)
    <3>1. TAKE pos \in From(k + 1)
    <3>2. CASE Stops(t, stop, pos)
      BY <3>2
    <3>3. CASE ~Stops(t, stop, pos)
      <4>1. v[After(t, pos)] = w[After(t, pos)]
        BY <2>3, <2>4, <3>3
      <4> HIDE DEF v
      <4>2. QED
        BY <3>3, <4>1
    <3>4. QED
      BY <3>2, <3>3
  <2>6. v = [pos \in From(k + 1) |-> Next1(v, pos)]
    <3> HIDE DEF Next1, From
    <3>1. QED
      BY <2>5
  <2>7. QED
    BY <2>6
<1>3. Bad = {}
  <2> SUFFICES ASSUME Bad # {} PROVE FALSE
    OBVIOUS
  <2>1. Bad \in SUBSET Nat
    OBVIOUS
  <2>2. PICK n \in Bad : \A m \in Bad : n <= m
    BY <2>1, LeastMember
  <2> HIDE DEF WalksFrom
  <2>3. n \in Nat /\ n # 0
    BY <1>1
  <2>4. n - 1 \in Nat /\ n - 1 \notin Bad /\ (n - 1) + 1 = n
    <3>1. n - 1 \in Nat /\ ~(n <= n - 1) /\ (n - 1) + 1 = n
      BY <2>3
    <3> HIDE DEF Bad
    <3>2. QED
      BY <2>2, <3>1
  <2>5. \E w : WalksFrom(w, (n - 1) + 1)
    BY <1>2, <2>4
  <2>6. QED
    BY <2>2, <2>4, <2>5
<1>4. PICK w : WalksFrom(w, N)
  <2> HIDE DEF WalksFrom, N
  <2>1. QED
    BY <1>n, <1>3
<1>5. From(N) = 1 .. N
  BY <1>n
<1>6. QED
  BY <1>4, <1>5 DEF Walks

\* Walk begins it at the first place.
LEMMA WalkIs ==
  ASSUME NEW t \in Seq(C!Symbols), NEW stop
  PROVE  \E w : Walks(w, t, stop) /\ C!Walk(t, stop) = w[1]
<1> DEFINE w == CHOOSE w : Walks(w, t, stop)
<1>1. Walks(w, t, stop)
  BY WalkExists
<1>2. C!Walk(t, stop) = w[1]
  BY ZenonT(60) DEF C!Walk, Walks, Stops, FieldAt, After
<1>3. QED
  BY <1>1, <1>2

-----------------------------------------------------------------------------
(* One field.                                                              *)

Records == [tag : Seq(C!Symbols), text : Seq(C!Symbols)]

\* A walk reads fields.
LEMMA WalkReads ==
  ASSUME NEW t \in Seq(C!Symbols), NEW stop, NEW w, Walks(w, t, stop)
  PROVE  \A pos \in 1 .. Len(t) + 1 : w[pos] \in Seq(Records)
<1> DEFINE N == Len(t) + 1
           Bad == {k \in Nat : \E pos \in 1 .. N : pos + k = N /\ w[pos] \notin Seq(Records)}
<1>n. N \in Nat
  OBVIOUS
<1>1. Bad = {}
  <2> SUFFICES ASSUME Bad # {} PROVE FALSE
    OBVIOUS
  <2>1. Bad \in SUBSET Nat
    OBVIOUS
  <2>2. PICK k \in Bad : \A m \in Bad : k <= m
    BY <2>1, LeastMember
  <2>3. PICK pos \in 1 .. N : pos + k = N /\ w[pos] \notin Seq(Records)
    OBVIOUS
  <2>4. w[pos] = IF Stops(t, stop, pos) THEN <<>>
                 ELSE <<FieldAt(t, pos)>> \o w[After(t, pos)]
    BY DEF Walks
  <2>5. ~Stops(t, stop, pos)
    BY <2>3, <2>4
  <2>6. After(t, pos) \in pos + 4 .. N /\ FieldAt(t, pos) \in Records
    BY <2>5, AfterIsLater DEF Records
  <2>7. w[After(t, pos)] \in Seq(Records)
    <3>1. PICK next : next = After(t, pos)
      OBVIOUS
    <3>2. PICK m : m = N - next
      OBVIOUS
    <3>3. next \in 1 .. N /\ m \in Nat /\ next + m = N /\ ~(k <= m)
      <4>1. next \in pos + 4 .. N /\ pos + k = N /\ k \in Nat
        BY <2>1, <2>3, <2>6, <3>1
      <4> HIDE DEF N, Bad
      <4>2. QED
        BY <1>n, <3>2, <4>1
    <3>4. m \notin Bad
      BY <2>2, <3>3
    <3>5. QED
      BY <3>1, <3>3, <3>4
  <2>8. <<FieldAt(t, pos)>> \o w[After(t, pos)] \in Seq(Records)
    <3>1. <<FieldAt(t, pos)>> \in Seq(Records)
      BY <2>6
    <3>2. QED
      BY <2>7, <3>1, TextsJoined
  <2>9. QED
    BY <2>3, <2>4, <2>5, <2>8
<1>2. ASSUME NEW pos \in 1 .. N PROVE w[pos] \in Seq(Records)
  <2>1. PICK k : k = N - pos
    OBVIOUS
  <2>2. k \in Nat /\ pos + k = N
    BY <1>n, <2>1
  <2>3. k \notin Bad
    BY <1>1, Zenon
  <2>4. QED
    BY <2>2, <2>3
<1>3. QED
  BY <1>2

\* A field is its tag, the two digits of its length, and its text.
LEMMA FieldParts ==
  ASSUME NEW tag \in Seq(C!Symbols), Len(tag) = 2, NEW v \in Seq(C!Symbols), Len(v) <= 99
  PROVE  LET f == C!tlv(tag, v) IN
         /\ f \in Seq(C!Symbols) /\ Len(f) = Len(v) + 4
         /\ f[1] = tag[1] /\ f[2] = tag[2]
         /\ {f[3], f[4]} \subseteq C!Digits /\ 10 * f[3] + f[4] = Len(v)
         /\ f[3] \in Nat /\ f[4] \in Nat
         /\ \A j \in 1 .. Len(v) : f[j + 4] = v[j]
<1>1. Len(v) \in 0 .. 99
  <2>1. Len(v) \in Nat
    OBVIOUS
  <2>2. \A n \in Nat : n <= 99 => n \in 0 .. 99
    OBVIOUS
  <2>3. QED
    BY <2>1, <2>2, Zenon
<1> DEFINE a == Len(v) \div 10
           b == Len(v) % 10
           l == <<a, b>>
           h == tag \o l
           f == h \o v
<1>2. a \in 0 .. 9 /\ b \in 0 .. 9 /\ 10 * a + b = Len(v)
  BY <1>1, SMTT(20)
<1> HIDE DEF a, b
<1>3. l \in Seq(C!Symbols) /\ Len(l) = 2 /\ l[1] = a /\ l[2] = b
  BY <1>2 DEF C!Symbols, C!Hyphen, C!Letter
<1> HIDE DEF l
<1>4. /\ h \in Seq(C!Symbols) /\ Len(h) = Len(tag) + Len(l)
      /\ \A j \in 1 .. Len(tag) : h[j] = tag[j]
      /\ \A j \in Len(tag) + 1 .. Len(tag) + Len(l) : h[j] = l[j - Len(tag)]
  <2>1. l \in Seq(C!Symbols)
    BY <1>3
  <2>2. QED
    BY <2>1, TextsJoined
<1> HIDE DEF h
<1>5. Len(h) = 4 /\ h[1] = tag[1] /\ h[2] = tag[2] /\ h[3] = a /\ h[4] = b
  BY <1>3, <1>4
<1>6. /\ f \in Seq(C!Symbols) /\ Len(f) = Len(h) + Len(v)
      /\ \A j \in 1 .. Len(h) : f[j] = h[j]
      /\ \A j \in Len(h) + 1 .. Len(h) + Len(v) : f[j] = v[j - Len(h)]
  <2>1. h \in Seq(C!Symbols)
    BY <1>4
  <2>2. QED
    BY <2>1, TextsJoined
<1> HIDE DEF f
<1>7. Len(f) = Len(v) + 4 /\ f[1] = tag[1] /\ f[2] = tag[2] /\ f[3] = a /\ f[4] = b
  BY <1>1, <1>5, <1>6
<1>8. ASSUME NEW j \in 1 .. Len(v) PROVE f[j + 4] = v[j]
  <2>1. PICK k : k = j + 4
    OBVIOUS
  <2>2. k \in Len(h) + 1 .. Len(h) + Len(v) /\ k - Len(h) = j
    BY <1>1, <1>5, <2>1
  <2>3. f[k] = v[j]
    BY <1>6, <2>2
  <2>4. QED
    BY <2>1, <2>3
<1>9. f = C!tlv(tag, v)
  BY DEF C!tlv, f, h, l, a, b
<1>10. /\ {f[3], f[4]} \subseteq C!Digits /\ 10 * f[3] + f[4] = Len(v)
       /\ f[3] \in Nat /\ f[4] \in Nat
  BY <1>2, <1>7 DEF C!Digits
<1>11. QED
  BY <1>6, <1>7, <1>8, <1>9, <1>10

\* A text begins with another.
Begins(t, u) == u \in Seq(C!Symbols) /\ \E z \in Seq(C!Symbols) : t = u \o z

\* After the first m symbols there is a field, and n symbols it goes on after.
Reads(w, m, tag, v, n) ==
  LET r == [tag |-> tag, text |-> v] IN
  /\ r \in Records /\ w[n + 1] \in Seq(Records)
  /\ w[m + 1] = <<r>> \o w[n + 1]

\* The field that follows u is read after u.
LEMMA FieldIsRead ==
  ASSUME NEW t \in Seq(C!Symbols), NEW stop, NEW w, Walks(w, t, stop),
         NEW u \in Seq(C!Symbols), NEW tag \in Seq(C!Symbols), Len(tag) = 2, tag # stop,
         NEW v \in Seq(C!Symbols), Len(v) <= 99, Begins(t, u \o C!tlv(tag, v))
  PROVE  Reads(w, Len(u), tag, v, Len(u \o C!tlv(tag, v)))
<1> DEFINE f == C!tlv(tag, v)
           n == Len(u)
           x == u \o f
           pos == n + 1
<1>1. /\ f \in Seq(C!Symbols) /\ Len(f) = Len(v) + 4
      /\ f[1] = tag[1] /\ f[2] = tag[2]
      /\ {f[3], f[4]} \subseteq C!Digits /\ 10 * f[3] + f[4] = Len(v)
      /\ f[3] \in Nat /\ f[4] \in Nat
      /\ \A j \in 1 .. Len(v) : f[j + 4] = v[j]
  BY FieldParts
<1> HIDE DEF f
<1>2. /\ x \in Seq(C!Symbols) /\ Len(x) = n + Len(f)
      /\ \A j \in n + 1 .. n + Len(f) : x[j] = f[j - n]
  <2>1. f \in Seq(C!Symbols)
    BY <1>1
  <2>2. QED
    BY <2>1, TextsJoined
<1>3. PICK z \in Seq(C!Symbols) : t = x \o z
  BY DEF Begins, f
<1> HIDE DEF x
<1>4. /\ Len(t) = Len(x) + Len(z)
      /\ \A j \in 1 .. Len(x) : t[j] = x[j]
  <2>1. x \in Seq(C!Symbols)
    BY <1>2
  <2>2. /\ Len(x \o z) = Len(x) + Len(z)
        /\ \A j \in 1 .. Len(x) : (x \o z)[j] = x[j]
    BY <2>1, TextsJoined
  <2>3. QED
    BY <1>3, <2>2
<1>5. n \in Nat /\ Len(v) \in Nat /\ Len(z) \in Nat /\ Len(x) = n + Len(v) + 4
  BY <1>1, <1>2, SMTT(20)
<1> HIDE DEF n
<1>6. ASSUME NEW j \in 1 .. Len(f) PROVE t[n + j] = f[j]
  <2>1. PICK k : k = n + j
    OBVIOUS
  <2>2. k \in n + 1 .. n + Len(f) /\ k \in 1 .. Len(x) /\ k - n = j
    BY <1>1, <1>2, <1>5, <2>1
  <2>3. QED
    BY <1>2, <1>4, <2>1, <2>2
<1>7. /\ t[pos] = tag[1] /\ t[pos + 1] = tag[2]
      /\ t[pos + 2] = f[3] /\ t[pos + 3] = f[4]
  <2>1. 1 \in 1 .. Len(f) /\ 2 \in 1 .. Len(f) /\ 3 \in 1 .. Len(f) /\ 4 \in 1 .. Len(f)
    BY <1>1, <1>5, SMTT(20)
  <2>2. pos = n + 1 /\ pos + 1 = n + 2 /\ pos + 2 = n + 3 /\ pos + 3 = n + 4
    BY <1>5
  <2>3. t[n + 1] = f[1] /\ t[n + 2] = f[2] /\ t[n + 3] = f[3] /\ t[n + 4] = f[4]
    BY <1>6, <2>1
  <2> HIDE DEF pos
  <2>4. QED
    BY <1>1, <2>2, <2>3
<1>8. pos \in 1 .. Len(t) + 1 /\ pos + 3 + Len(v) <= Len(t)
      /\ pos + 3 + Len(v) = Len(x) /\ Len(t) \in Nat
  BY <1>4, <1>5, SMTT(20)
<1>9. pos \in Nat /\ pos \in 1 .. Len(t) /\ pos + 1 \in 1 .. Len(t)
  BY <1>5, <1>8
<1>10. SubSeq(t, pos, pos + 1) = tag
  <2> DEFINE p == SubSeq(t, pos, pos + 1)
  <2>1. pos \in 1 .. Len(t) + 1 /\ pos + 1 \in pos - 1 .. Len(t)
    BY <1>9, <1>8
  <2>2. /\ p \in Seq(C!Symbols) /\ Len(p) = (pos + 1) - pos + 1
        /\ \A j \in 1 .. (pos + 1) - pos + 1 : p[j] = t[pos + j - 1]
    BY <2>1, TextPart
  <2>3. (pos + 1) - pos + 1 = 2 /\ pos + 1 - 1 = pos /\ pos + 2 - 1 = pos + 1
    BY <1>9
  <2> HIDE DEF p, pos
  <2>4. Len(p) = 2 /\ p[1] = t[pos] /\ p[2] = t[pos + 1]
    BY <2>2, <2>3
  <2>5. p \in Seq(C!Symbols)
    BY <2>2
  <2>6. \A j \in 1 .. 2 : p[j] = tag[j]
    BY <1>7, <2>4
  <2>7. Len(p) = Len(tag) /\ \A j \in 1 .. Len(p) : p[j] = tag[j]
    BY <2>4, <2>6
  <2>8. QED
    BY <2>5, <2>7, SeqEqual DEF p
<1>11. SubSeq(t, pos + 4, pos + 3 + Len(v)) = v
  <2> DEFINE p == SubSeq(t, pos + 4, pos + 3 + Len(v))
  <2>1. pos + 4 \in 1 .. Len(t) + 1 /\ pos + 3 + Len(v) \in (pos + 4) - 1 .. Len(t)
    BY <1>5, <1>8, <1>9
  <2>2. /\ p \in Seq(C!Symbols) /\ Len(p) = (pos + 3 + Len(v)) - (pos + 4) + 1
        /\ \A j \in 1 .. (pos + 3 + Len(v)) - (pos + 4) + 1 : p[j] = t[pos + 4 + j - 1]
    BY <2>1, TextPart
  <2>3. (pos + 3 + Len(v)) - (pos + 4) + 1 = Len(v)
    BY <1>5, <1>9
  <2> HIDE DEF p
  <2>4. ASSUME NEW j \in 1 .. Len(v) PROVE p[j] = v[j]
    <3>1. PICK k : k = j + 4
      OBVIOUS
    <3>2. k \in 1 .. Len(f) /\ pos + 4 + j - 1 = n + k
      BY <1>1, <1>5, <3>1
    <3>3. t[n + k] = f[k]
      BY <1>6, <3>2
    <3>4. f[k] = v[j]
      BY <1>1, <3>1
    <3>5. p[j] = t[pos + 4 + j - 1]
      BY <2>2, <2>3
    <3>6. QED
      BY <3>2, <3>3, <3>4, <3>5
  <2>5. Len(p) = Len(v) /\ \A j \in 1 .. Len(v) : p[j] = v[j]
    BY <2>2, <2>3, <2>4
  <2>6. QED
    BY <2>2, <2>5, SeqEqual DEF p
<1> DEFINE l == 10 * t[pos + 2] + t[pos + 3]
<1>12. l = Len(v)
  BY <1>1, <1>7
<1>13. ~Stops(t, stop, pos)
  <2>1. ~(pos + 3 > Len(t))
    BY <1>5, <1>8, <1>9
  <2>2. ~(pos + 3 + l > Len(t))
    BY <1>5, <1>8, <1>9, <1>12
  <2>3. QED
    BY <1>1, <1>7, <1>10, <2>1, <2>2 DEF Stops
<1>14. FieldAt(t, pos) = [tag |-> tag, text |-> v] /\ After(t, pos) = Len(x) + 1
  BY <1>8, <1>10, <1>11, <1>12 DEF FieldAt, After
<1>15. w[pos] = <<FieldAt(t, pos)>> \o w[After(t, pos)]
  BY <1>8, <1>13 DEF Walks
<1>16. w[Len(x) + 1] \in Seq(Records)
  <2>1. Len(x) + 1 \in 1 .. Len(t) + 1
    BY <1>4, <1>5
  <2>2. QED
    BY <2>1, WalkReads
<1>17. QED
  BY <1>14, <1>15, <1>16 DEF Reads, Records, x, f, n

\* It goes on where it began.
LEMMA BeginsShorter ==
  ASSUME NEW t, NEW u \in Seq(C!Symbols), NEW f \in Seq(C!Symbols), Begins(t, u \o f)
  PROVE  Begins(t, u)
<1>1. PICK z \in Seq(C!Symbols) : t = (u \o f) \o z
  BY DEF Begins
<1>2. f \o z \in Seq(C!Symbols)
  BY TextsJoined
<1>3. t = u \o (f \o z)
  BY <1>1, ConcatAssociative
<1>4. QED
  BY <1>2, <1>3 DEF Begins

\* Among the fields s: none has the tag; the last, or the first, that has it
\* reads v.
Lacks(s, tag) == \A j \in DOMAIN s : s[j].tag # tag
LastIs(s, tag, v) ==
  \E i \in DOMAIN s : /\ s[i].tag = tag /\ s[i].text = v
                      /\ \A j \in DOMAIN s : s[j].tag = tag => j <= i
FirstIs(s, tag, v) ==
  \E i \in DOMAIN s : /\ s[i].tag = tag /\ s[i].text = v
                      /\ \A j \in DOMAIN s : s[j].tag = tag => i <= j

\* A field before q.
LEMMA OneBefore ==
  ASSUME NEW r \in Records, NEW q \in Seq(Records)
  PROVE  LET s == <<r>> \o q IN
         /\ s \in Seq(Records) /\ DOMAIN s = 1 .. Len(q) + 1 /\ s[1] = r
         /\ \A j \in DOMAIN q : j + 1 \in DOMAIN s /\ s[j + 1] = q[j] /\ j \in Nat /\ 1 <= j
         /\ \A i \in DOMAIN s : i = 1 \/ \E j \in DOMAIN q : i = j + 1
<1> DEFINE o == <<r>>
           s == o \o q
<1>1. o \in Seq(Records) /\ Len(o) = 1 /\ o[1] = r
  OBVIOUS
<1> HIDE DEF o
<1>2. /\ s \in Seq(Records) /\ Len(s) = Len(o) + Len(q)
      /\ \A j \in 1 .. Len(o) : s[j] = o[j]
      /\ \A j \in Len(o) + 1 .. Len(o) + Len(q) : s[j] = q[j - Len(o)]
  <2>1. o \in Seq(Records)
    BY <1>1
  <2>2. QED
    BY <2>1, TextsJoined
<1> HIDE DEF s
<1>3. Len(q) \in Nat /\ DOMAIN q = 1 .. Len(q) /\ Len(s) = Len(q) + 1
      /\ DOMAIN s = 1 .. Len(q) + 1
  BY <1>1, <1>2
<1>4. s[1] = r
  BY <1>1, <1>2
<1>5. ASSUME NEW j \in DOMAIN q
      PROVE  j + 1 \in DOMAIN s /\ s[j + 1] = q[j] /\ j \in Nat /\ 1 <= j
  <2>1. PICK k : k = j + 1
    OBVIOUS
  <2>2. j \in Nat /\ 1 <= j /\ k \in 1 .. Len(q) + 1
        /\ k \in Len(o) + 1 .. Len(o) + Len(q) /\ k - Len(o) = j
    BY <1>1, <1>3, <2>1
  <2>3. QED
    BY <1>2, <1>3, <2>1, <2>2
<1>6. ASSUME NEW i \in DOMAIN s, i # 1 PROVE \E j \in DOMAIN q : i = j + 1
  <2>1. i - 1 \in DOMAIN q /\ i = (i - 1) + 1
    BY <1>3, <1>6
  <2>2. QED
    BY <2>1
<1>7. QED
  BY <1>2, <1>3, <1>4, <1>5, <1>6 DEF s, o

\* It is the first, and no later one.
LEMMA FieldBefore ==
  ASSUME NEW r \in Records, NEW q \in Seq(Records), NEW tag, NEW v
  PROVE  LET s == <<r>> \o q IN
         /\ s \in Seq(Records)
         /\ r.tag # tag /\ Lacks(q, tag) => Lacks(s, tag)
         /\ r.tag = tag /\ Lacks(q, tag) => LastIs(s, tag, r.text)
         /\ LastIs(q, tag, v) => LastIs(s, tag, v)
         /\ r.tag = tag => FirstIs(s, tag, r.text)
         /\ r.tag # tag /\ FirstIs(q, tag, v) => FirstIs(s, tag, v)
<1> DEFINE s == <<r>> \o q
<1>1. /\ s \in Seq(Records) /\ DOMAIN s = 1 .. Len(q) + 1 /\ s[1] = r
      /\ \A j \in DOMAIN q : j + 1 \in DOMAIN s /\ s[j + 1] = q[j] /\ j \in Nat /\ 1 <= j
      /\ \A i \in DOMAIN s : i = 1 \/ \E j \in DOMAIN q : i = j + 1
  BY OneBefore
<1> HIDE DEF s
<1>2. 1 \in DOMAIN s /\ \A i \in DOMAIN s : i \in Nat /\ 1 <= i
  <2>1. Len(q) \in Nat
    OBVIOUS
  <2>2. QED
    BY <1>1, <2>1
<1>3. ASSUME r.tag # tag, Lacks(q, tag) PROVE Lacks(s, tag)
  BY <1>1, <1>3 DEF Lacks
<1>4. ASSUME r.tag = tag, Lacks(q, tag) PROVE LastIs(s, tag, r.text)
  <2>1. \A j \in DOMAIN s : s[j].tag = tag => j <= 1
    BY <1>1, <1>4 DEF Lacks
  <2>2. QED
    BY <1>1, <1>2, <1>4, <2>1 DEF LastIs
<1>5. ASSUME LastIs(q, tag, v) PROVE LastIs(s, tag, v)
  <2>1. PICK i \in DOMAIN q : /\ q[i].tag = tag /\ q[i].text = v
                              /\ \A j \in DOMAIN q : q[j].tag = tag => j <= i
    BY <1>5 DEF LastIs
  <2>2. i + 1 \in DOMAIN s /\ s[i + 1] = q[i] /\ i \in Nat
    BY <1>1
  <2>3. ASSUME NEW j \in DOMAIN s, s[j].tag = tag PROVE j <= i + 1
    BY <1>1, <2>1, <2>2, <2>3, SMTT(20)
  <2>4. QED
    BY <2>1, <2>2, <2>3 DEF LastIs
<1>6. ASSUME r.tag = tag PROVE FirstIs(s, tag, r.text)
  BY <1>1, <1>2, <1>6 DEF FirstIs
<1>7. ASSUME r.tag # tag, FirstIs(q, tag, v) PROVE FirstIs(s, tag, v)
  <2>1. PICK i \in DOMAIN q : /\ q[i].tag = tag /\ q[i].text = v
                              /\ \A j \in DOMAIN q : q[j].tag = tag => i <= j
    BY <1>7 DEF FirstIs
  <2>2. i + 1 \in DOMAIN s /\ s[i + 1] = q[i] /\ i \in Nat
    BY <1>1
  <2>3. ASSUME NEW j \in DOMAIN s, s[j].tag = tag PROVE i + 1 <= j
    <3>1. j # 1
      BY <1>1, <1>7, <2>3
    <3>2. PICK k \in DOMAIN q : j = k + 1
      BY <1>1, <3>1
    <3>3. s[k + 1] = q[k] /\ k \in Nat
      BY <1>1
    <3>4. q[k].tag = tag
      BY <2>3, <3>2, <3>3
    <3>5. i <= k
      BY <2>1, <3>4
    <3>6. QED
      BY <2>2, <3>2, <3>3, <3>5
  <2>4. QED
    BY <2>1, <2>2, <2>3 DEF FirstIs
<1>8. QED
  BY <1>1, <1>3, <1>4, <1>5, <1>6, <1>7 DEF s

\* What the reading of a text then gives.
LEMMA LastIsRead ==
  ASSUME NEW t, NEW tag, NEW v, C!Fields(t) \in Seq(Records), LastIs(C!Fields(t), tag, v)
  PROVE  C!Read(t, tag) = v
<1> DEFINE s == C!Fields(t)
           found == {i \in DOMAIN s : s[i].tag = tag}
<1> HIDE DEF s
<1>1. PICK i \in found : s[i].text = v /\ \A j \in found : i >= j
  <2>1. PICK i \in DOMAIN s : /\ s[i].tag = tag /\ s[i].text = v
                              /\ \A j \in DOMAIN s : s[j].tag = tag => j <= i
    BY DEF LastIs, s
  <2>2. i \in found /\ \A j \in found : i >= j
    BY <2>1
  <2>3. QED
    BY <2>1, <2>2
<1>2. found \subseteq Nat
  BY DEF s
<1>3. C!Max(found) \in found /\ \A j \in found : C!Max(found) >= j
  BY <1>1 DEF C!Max
<1>4. C!Max(found) = i
  <2> HIDE DEF found
  <2>1. i \in Nat /\ C!Max(found) \in Nat /\ i >= C!Max(found) /\ C!Max(found) >= i
    BY <1>1, <1>2, <1>3
  <2>2. QED
    BY <2>1
<1>5. QED
  BY <1>1, <1>4 DEF C!Read, s

LEMMA FirstIsRead ==
  ASSUME NEW t, NEW tag, NEW v, C!Walk(t, <<>>) \in Seq(Records),
         FirstIs(C!Walk(t, <<>>), tag, v)
  PROVE  C!First(t, tag) = v
<1> DEFINE s == C!Walk(t, <<>>)
           found == {i \in DOMAIN s : s[i].tag = tag}
<1> HIDE DEF s
<1>1. PICK i \in found : s[i].text = v /\ \A j \in found : i <= j
  <2>1. PICK i \in DOMAIN s : /\ s[i].tag = tag /\ s[i].text = v
                              /\ \A j \in DOMAIN s : s[j].tag = tag => i <= j
    BY DEF FirstIs, s
  <2>2. i \in found /\ \A j \in found : i <= j
    BY <2>1
  <2>3. QED
    BY <2>1, <2>2
<1>2. found \subseteq Nat
  BY DEF s
<1>3. C!Min(found) \in found /\ \A j \in found : C!Min(found) <= j
  BY <1>1 DEF C!Min
<1>4. C!Min(found) = i
  <2> HIDE DEF found
  <2>1. i \in Nat /\ C!Min(found) \in Nat /\ i <= C!Min(found) /\ C!Min(found) <= i
    BY <1>1, <1>2, <1>3
  <2>2. QED
    BY <2>1
<1>5. QED
  BY <1>1, <1>4 DEF C!First, s

\* What one field does to what is read.
LEMMA ReadsLast ==
  ASSUME NEW w, NEW m, NEW tag, NEW v, NEW n, Reads(w, m, tag, v, n)
  PROVE  /\ w[m + 1] \in Seq(Records)
         /\ \A g : g # tag /\ Lacks(w[n + 1], g) => Lacks(w[m + 1], g)
         /\ Lacks(w[n + 1], tag) => LastIs(w[m + 1], tag, v)
         /\ \A g, y : LastIs(w[n + 1], g, y) => LastIs(w[m + 1], g, y)
<1> DEFINE q == w[n + 1]
           r == [tag |-> tag, text |-> v]
<1>1. r \in Records /\ q \in Seq(Records) /\ w[m + 1] = <<r>> \o q
  BY DEF Reads
<1>2. r.tag = tag /\ r.text = v
  OBVIOUS
<1> HIDE DEF q, r
<1>3. ASSUME NEW g, NEW y
      PROVE  /\ <<r>> \o q \in Seq(Records)
             /\ r.tag # g /\ Lacks(q, g) => Lacks(<<r>> \o q, g)
             /\ r.tag = g /\ Lacks(q, g) => LastIs(<<r>> \o q, g, r.text)
             /\ LastIs(q, g, y) => LastIs(<<r>> \o q, g, y)
  BY <1>1, FieldBefore
<1>4. QED
  BY <1>1, <1>2, <1>3, Zenon DEF q

\* The same for the fields after the first n symbols.
Last(w, n, tag, v) == LastIs(w[n + 1], tag, v)
None(w, n, tag) == Lacks(w[n + 1], tag)
Foremost(w, n, tag, v) == FirstIs(w[n + 1], tag, v)
Other(tag, stop) == tag # stop

LEMMA StillNone ==
  ASSUME NEW w, NEW m, NEW tag, NEW v, NEW n, Reads(w, m, tag, v, n),
         NEW g, Other(g, tag), None(w, n, g)
  PROVE  None(w, m, g)
BY ReadsLast, Zenon DEF Other, None

LEMMA NowLast ==
  ASSUME NEW w, NEW m, NEW tag, NEW v, NEW n, Reads(w, m, tag, v, n), None(w, n, tag)
  PROVE  Last(w, m, tag, v)
BY ReadsLast, Zenon DEF Last, None

LEMMA StillLast ==
  ASSUME NEW w, NEW m, NEW tag, NEW v, NEW n, Reads(w, m, tag, v, n),
         NEW g, NEW y, Last(w, n, g, y)
  PROVE  Last(w, m, g, y)
BY ReadsLast, Zenon DEF Last

LEMMA ReadsFirst ==
  ASSUME NEW w, NEW m, NEW tag, NEW v, NEW n, Reads(w, m, tag, v, n)
  PROVE  /\ w[m + 1] \in Seq(Records)
         /\ FirstIs(w[m + 1], tag, v)
         /\ \A g, y : g # tag /\ FirstIs(w[n + 1], g, y) => FirstIs(w[m + 1], g, y)
<1> DEFINE q == w[n + 1]
           r == [tag |-> tag, text |-> v]
<1>1. r \in Records /\ q \in Seq(Records) /\ w[m + 1] = <<r>> \o q
  BY DEF Reads
<1>2. r.tag = tag /\ r.text = v
  OBVIOUS
<1> HIDE DEF q, r
<1>3. ASSUME NEW g, NEW y
      PROVE  /\ <<r>> \o q \in Seq(Records)
             /\ r.tag = g => FirstIs(<<r>> \o q, g, r.text)
             /\ r.tag # g /\ FirstIs(q, g, y) => FirstIs(<<r>> \o q, g, y)
  BY <1>1, FieldBefore
<1>4. QED
  BY <1>1, <1>2, <1>3, Zenon DEF q

LEMMA StillForemost ==
  ASSUME NEW w, NEW m, NEW tag, NEW v, NEW n, Reads(w, m, tag, v, n),
         NEW g, NEW y, Other(g, tag), Foremost(w, n, g, y)
  PROVE  Foremost(w, m, g, y)
BY ReadsFirst, Zenon DEF Foremost, Other

\* The same with what it is about named, for whoever cites it often.
IsText(s) == s \in Seq(C!Symbols)
Fits(s) == s \in Seq(C!Symbols) /\ Len(s) <= 99
IsTag(tag) == tag \in Seq(C!Symbols) /\ Len(tag) = 2
Adds(x, u, tag, v) == x = u \o C!tlv(tag, v)
Walked(w, t, stop) == t \in Seq(C!Symbols) /\ Walks(w, t, stop)
Ends(w, n) == w[n + 1] = <<>>

LEMMA NextField ==
  ASSUME NEW w, NEW t, NEW stop, Walked(w, t, stop), NEW u, IsText(u),
         NEW tag, IsTag(tag), Other(tag, stop), NEW v, Fits(v),
         NEW x, Adds(x, u, tag, v), Begins(t, x)
  PROVE  Begins(t, u) /\ Reads(w, Len(u), tag, v, Len(x))
<1>1. /\ t \in Seq(C!Symbols) /\ Walks(w, t, stop) /\ u \in Seq(C!Symbols)
      /\ tag \in Seq(C!Symbols) /\ Len(tag) = 2
      /\ v \in Seq(C!Symbols) /\ Len(v) <= 99
  BY DEF Walked, IsText, IsTag, Fits
<1>2. x = u \o C!tlv(tag, v) /\ tag # stop
  BY DEF Adds, Other
<1>3. Begins(t, u \o C!tlv(tag, v))
  BY <1>2
<1>4. Reads(w, Len(u), tag, v, Len(u \o C!tlv(tag, v)))
  BY <1>1, <1>2, <1>3, FieldIsRead
<1>5. C!tlv(tag, v) \in Seq(C!Symbols)
  BY <1>1, FieldParts
<1>6. QED
  BY <1>1, <1>2, <1>3, <1>4, <1>5, BeginsShorter

\* The first field of a text.
LEMMA FirstFieldIsRead ==
  ASSUME NEW t \in Seq(C!Symbols), NEW stop, NEW w, Walks(w, t, stop),
         NEW tag \in Seq(C!Symbols), Len(tag) = 2, tag # stop,
         NEW v \in Seq(C!Symbols), Len(v) <= 99, Begins(t, C!tlv(tag, v))
  PROVE  Reads(w, 0, tag, v, Len(C!tlv(tag, v)))
<1> DEFINE f == C!tlv(tag, v)
           u == <<>>
<1>1. f \in Seq(C!Symbols)
  BY FieldParts
<1> HIDE DEF f
<1>2. u \in Seq(C!Symbols) /\ Len(u) = 0 /\ u \o f = f
  BY <1>1
<1> HIDE DEF u
<1>3. /\ Walked(w, t, stop) /\ IsText(u) /\ IsTag(tag) /\ Other(tag, stop) /\ Fits(v)
      /\ Adds(f, u, tag, v) /\ Begins(t, f)
  BY <1>2 DEF Walked, IsText, IsTag, Other, Fits, Adds, f
<1>4. Reads(w, Len(u), tag, v, Len(f))
  BY <1>3, NextField, Zenon
<1>5. QED
  BY <1>2, <1>4 DEF f

\* A tag is not empty.
LEMMA TagNotEmpty == ASSUME NEW tag, Len(tag) = 2 PROVE tag # <<>>
<1>1. Len(<<>>) = 0
  OBVIOUS
<1>2. Len(tag) # 0
  OBVIOUS
<1>3. QED
  BY <1>1, <1>2, Zenon

\* A text begins with itself.
LEMMA BeginsItself ==
  ASSUME NEW t \in Seq(C!Symbols) PROVE Begins(t, t)
<1>1. <<>> \in Seq(C!Symbols) /\ t = t \o <<>>
  OBVIOUS
<1>2. QED
  BY <1>1 DEF Begins

\* A text of one field.
LEMMA OnlyField ==
  ASSUME NEW tag \in Seq(C!Symbols), Len(tag) = 2, NEW v \in Seq(C!Symbols), Len(v) <= 99
  PROVE  C!First(C!tlv(tag, v), tag) = v
<1> DEFINE t == C!tlv(tag, v)
<1>1. t \in Seq(C!Symbols) /\ Begins(t, t)
  BY FieldParts, BeginsItself
<1>2. PICK w : Walks(w, t, <<>>) /\ C!Walk(t, <<>>) = w[1]
  BY <1>1, WalkIs
<1>3. Reads(w, 0, tag, v, Len(t))
  BY <1>1, <1>2, TagNotEmpty, FirstFieldIsRead
<1> HIDE DEF t
<1>4. w[0 + 1] \in Seq(Records) /\ FirstIs(w[0 + 1], tag, v)
  BY <1>3, ReadsFirst
<1>5. QED
  BY <1>2, <1>4, FirstIsRead DEF t

\* A text of two fields.
LEMMA SecondField ==
  ASSUME NEW tag1 \in Seq(C!Symbols), Len(tag1) = 2, NEW v1 \in Seq(C!Symbols), Len(v1) <= 99,
         NEW tag \in Seq(C!Symbols), Len(tag) = 2, NEW v \in Seq(C!Symbols), Len(v) <= 99,
         tag1 # tag
  PROVE  C!First(C!tlv(tag1, v1) \o C!tlv(tag, v), tag) = v
<1> DEFINE f1 == C!tlv(tag1, v1)
           f2 == C!tlv(tag, v)
           t == f1 \o f2
<1>1. f1 \in Seq(C!Symbols) /\ f2 \in Seq(C!Symbols)
  BY FieldParts
<1> HIDE DEF f1, f2
<1>2. t \in Seq(C!Symbols)
  BY <1>1, TextsJoined
<1>3. Begins(t, t) /\ Begins(t, f1)
  <2>1. Begins(t, f1 \o f2)
    BY <1>2, BeginsItself
  <2>2. QED
    BY <1>1, <2>1, BeginsShorter
<1>4. PICK w : Walks(w, t, <<>>) /\ C!Walk(t, <<>>) = w[1]
  BY <1>2, WalkIs
<1>5. tag # <<>> /\ tag1 # <<>>
  BY TagNotEmpty
<1>6. Reads(w, 0, tag1, v1, Len(f1))
  BY <1>2, <1>3, <1>4, <1>5, FirstFieldIsRead DEF f1
<1>7. Reads(w, Len(f1), tag, v, Len(t))
  <2>1. Begins(t, f1 \o C!tlv(tag, v)) /\ t = f1 \o C!tlv(tag, v)
    BY <1>3 DEF f2
  <2> HIDE DEF t
  <2>2. Reads(w, Len(f1), tag, v, Len(f1 \o C!tlv(tag, v)))
    BY <1>1, <1>2, <1>4, <1>5, <2>1, FieldIsRead
  <2>3. QED
    BY <2>1, <2>2
<1> HIDE DEF t
<1>8. FirstIs(w[Len(f1) + 1], tag, v)
  BY <1>7, ReadsFirst
<1>9. w[0 + 1] \in Seq(Records) /\ FirstIs(w[0 + 1], tag, v)
  BY <1>6, <1>8, ReadsFirst
<1>10. QED
  BY <1>4, <1>9, FirstIsRead DEF t, f1, f2

\* The walk stops at the tag it is to stop at.
LEMMA EndOfWalk ==
  ASSUME NEW t \in Seq(C!Symbols), NEW stop \in Seq(C!Symbols), Len(stop) = 2,
         NEW w, Walks(w, t, stop), NEW u \in Seq(C!Symbols), Begins(t, u \o stop)
  PROVE  w[Len(u) + 1] = <<>>
<1> DEFINE x == u \o stop
           n == Len(u)
           pos == n + 1
           k == pos + 1
<1>1. /\ x \in Seq(C!Symbols) /\ Len(x) = n + Len(stop)
      /\ \A j \in n + 1 .. n + Len(stop) : x[j] = stop[j - n]
  BY TextsJoined
<1>2. PICK z \in Seq(C!Symbols) : t = x \o z
  BY DEF Begins
<1> HIDE DEF x
<1>3. /\ Len(t) = Len(x) + Len(z)
      /\ \A j \in 1 .. Len(x) : t[j] = x[j]
  <2>1. x \in Seq(C!Symbols)
    BY <1>1
  <2>2. /\ Len(x \o z) = Len(x) + Len(z)
        /\ \A j \in 1 .. Len(x) : (x \o z)[j] = x[j]
    BY <2>1, TextsJoined
  <2>3. QED
    BY <1>2, <2>2
<1>4. n \in Nat /\ Len(z) \in Nat /\ Len(x) = n + 2
  BY <1>1
<1> HIDE DEF n
<1>5. pos \in 1 .. Len(t) + 1 /\ pos + 1 \in pos - 1 .. Len(t)
      /\ pos \in 1 .. Len(x) /\ k \in 1 .. Len(x)
      /\ pos \in n + 1 .. n + Len(stop) /\ k \in n + 1 .. n + Len(stop)
      /\ pos - n = 1 /\ k - n = 2 /\ k = pos + 1
      /\ (pos + 1) - pos + 1 = 2 /\ pos + 1 - 1 = pos /\ pos + 2 - 1 = pos + 1
  BY <1>3, <1>4
<1> HIDE DEF pos, k
<1>6. t[pos] = stop[1] /\ t[pos + 1] = stop[2]
  <2>1. \A j \in n + 1 .. n + Len(stop) : x[j] = stop[j - n]
    BY <1>1
  <2> HIDE DEF x
  <2>2. x[pos] = stop[1] /\ x[k] = stop[2]
    <3>1. x[pos] = stop[pos - n] /\ x[k] = stop[k - n]
      BY <1>5, <2>1
    <3>2. QED
      BY <1>5, <3>1, Zenon
  <2>3. t[pos] = x[pos] /\ t[k] = x[k]
    BY <1>3, <1>5
  <2>4. QED
    BY <1>5, <2>2, <2>3, Zenon
<1> DEFINE p == SubSeq(t, pos, pos + 1)
<1>7. /\ p \in Seq(C!Symbols) /\ Len(p) = (pos + 1) - pos + 1
      /\ \A j \in 1 .. (pos + 1) - pos + 1 : p[j] = t[pos + j - 1]
  BY <1>5, TextPart
<1> HIDE DEF p
<1>8. Len(p) = 2 /\ p[1] = t[pos] /\ p[2] = t[pos + 1]
  <2>1. 1 \in 1 .. 2 /\ 2 \in 1 .. 2
    OBVIOUS
  <2>2. p[1] = t[pos + 1 - 1] /\ p[2] = t[pos + 2 - 1]
    BY <1>5, <1>7, <2>1, Zenon
  <2>3. QED
    BY <1>5, <1>7, <2>2, Zenon
<1>9. \A j \in 1 .. 2 : p[j] = stop[j]
  BY <1>6, <1>8
<1>10. p = stop
  <2>1. p \in Seq(C!Symbols)
    BY <1>7
  <2>2. Len(p) = Len(stop) /\ \A j \in 1 .. Len(p) : p[j] = stop[j]
    BY <1>8, <1>9
  <2>3. QED
    BY <2>1, <2>2, SeqEqual
<1>11. Stops(t, stop, pos)
  BY <1>10 DEF Stops, p
<1>12. QED
  BY <1>5, <1>11 DEF Walks, pos, n

LEMMA WalkEnds ==
  ASSUME NEW w, NEW t, NEW stop, Walked(w, t, stop), IsTag(stop), NEW u, IsText(u),
         Begins(t, u \o stop)
  PROVE  Ends(w, Len(u))
BY EndOfWalk DEF Walked, IsTag, IsText, Ends

\* Where a BR code's walk is to stop.
CrcStop == SubSeq(C!CrcTag, 1, 2)

LEMMA CrcStopIs ==
  /\ CrcStop = <<6, 3>> /\ CrcStop \in Seq(C!Symbols) /\ Len(CrcStop) = 2
  /\ C!CrcTag = CrcStop \o <<0, 4>>
<1>1. CrcStop = <<6, 3>>
  <2> DEFINE c == C!CrcTag
  <2>1. c \in Seq(C!Symbols) /\ Len(c) = 4 /\ c[1] = 6 /\ c[2] = 3
    BY DEF C!CrcTag, C!Symbols, C!Hyphen, C!Letter
  <2> HIDE DEF c
  <2> DEFINE p == SubSeq(c, 1, 2)
  <2>2. 1 \in 1 .. Len(c) + 1 /\ 2 \in 1 - 1 .. Len(c)
    BY <2>1
  <2>3. p \in Seq(C!Symbols) /\ Len(p) = 2 - 1 + 1
        /\ \A j \in 1 .. 2 - 1 + 1 : p[j] = c[1 + j - 1]
    BY <2>1, <2>2, TextPart
  <2> HIDE DEF p
  <2>4. Len(p) = 2 /\ p[1] = c[1] /\ p[2] = c[2]
    BY <2>3
  <2>5. /\ <<6, 3>> \in Seq(C!Symbols) /\ Len(<<6, 3>>) = 2
        /\ <<6, 3>>[1] = 6 /\ <<6, 3>>[2] = 3
    BY DEF C!Symbols, C!Hyphen, C!Letter
  <2>6. \A j \in 1 .. 2 : p[j] = <<6, 3>>[j]
    BY <2>1, <2>4, <2>5
  <2>7. p = <<6, 3>>
    BY <2>3, <2>4, <2>5, <2>6, SeqEqual
  <2>8. QED
    BY <2>7 DEF CrcStop, p, c
<1>2. QED
  BY <1>1 DEF C!CrcTag, C!Symbols, C!Hyphen, C!Letter

LEMMA Moved ==
  ASSUME NEW a \in Seq(C!Symbols), NEW b \in Seq(C!Symbols), NEW c \in Seq(C!Symbols)
  PROVE  a \o (b \o c) = (a \o b) \o c
BY ConcatAssociative, SMTT(20)

-----------------------------------------------------------------------------
(* The BR code.                                                            *)

\* The texts of its fields 26 and 62.
KeyText(charge) == C!tlv(<<0, 0>>, <<C!Letter>>) \o C!tlv(<<0, 1>>, charge)
TxidText(charge) == C!tlv(<<0, 5>>, C!Txid(charge))

\* They fit into fields.
LEMMA FieldTexts ==
  ASSUME NEW charge \in Seq(C!Symbols), Len(charge) <= 36
  PROVE  /\ C!Txid(charge) \in Seq(C!Symbols) /\ Len(C!Txid(charge)) <= 99
         /\ TxidText(charge) \in Seq(C!Symbols) /\ Len(TxidText(charge)) <= 99
         /\ KeyText(charge) \in Seq(C!Symbols) /\ Len(KeyText(charge)) <= 99
<1>1. Len(charge) \in Nat
  OBVIOUS
<1> DEFINE o == <<C!Letter>>
           p == <<0, 0>>
           q == <<0, 1>>
           d == <<0, 5>>
<1>3. C!Txid(charge) \in Seq(C!Symbols) /\ Len(C!Txid(charge)) <= 25
  BY TxidIsText
<1>4. /\ o \in Seq(C!Symbols) /\ Len(o) = 1
      /\ p \in Seq(C!Symbols) /\ Len(p) = 2 /\ q \in Seq(C!Symbols) /\ Len(q) = 2
      /\ d \in Seq(C!Symbols) /\ Len(d) = 2
  BY DEF C!Symbols, C!Hyphen, C!Letter
<1> HIDE DEF o, p, q, d
<1>5. Len(o) <= 99 /\ Len(charge) <= 99 /\ Len(C!Txid(charge)) <= 99
  <2>1. \A n \in Int : n <= 36 => n <= 99
    OBVIOUS
  <2>2. Len(C!Txid(charge)) \in Int /\ Len(C!Txid(charge)) <= 36
    BY <1>3
  <2>3. Len(o) <= 99
    BY <1>4
  <2>4. Len(charge) <= 99
    BY <1>1, <2>1
  <2>5. QED
    BY <2>1, <2>2, <2>3, <2>4
<1>6. C!tlv(d, C!Txid(charge)) \in Seq(C!Symbols)
      /\ Len(C!tlv(d, C!Txid(charge))) = Len(C!Txid(charge)) + 4
  BY <1>3, <1>4, <1>5, FieldParts
<1>7. C!tlv(p, o) \in Seq(C!Symbols) /\ Len(C!tlv(p, o)) = Len(o) + 4
  BY <1>4, <1>5, FieldParts
<1>8. C!tlv(q, charge) \in Seq(C!Symbols) /\ Len(C!tlv(q, charge)) = Len(charge) + 4
  BY <1>4, <1>5, FieldParts
<1> DEFINE f1 == C!tlv(p, o)
           f2 == C!tlv(q, charge)
           f3 == C!tlv(d, C!Txid(charge))
<1> HIDE DEF f1, f2, f3
<1>9. f1 \o f2 \in Seq(C!Symbols) /\ Len(f1 \o f2) = Len(f1) + Len(f2)
  <2>1. f1 \in Seq(C!Symbols) /\ f2 \in Seq(C!Symbols)
    BY <1>7, <1>8 DEF f1, f2
  <2>2. QED
    BY <2>1, TextsJoined
<1>10. Len(f1 \o f2) <= 99
  <2>1. Len(f1) = Len(o) + 4 /\ Len(f2) = Len(charge) + 4
    BY <1>7, <1>8 DEF f1, f2
  <2>2. QED
    BY <1>1, <1>4, <1>9, <2>1
<1>11. Len(f3) <= 99
  <2>1. Len(f3) = Len(C!Txid(charge)) + 4
    BY <1>6 DEF f3
  <2>2. Len(C!Txid(charge)) \in Nat
    BY <1>3
  <2>3. QED
    BY <1>3, <2>1, <2>2
<1>12. TxidText(charge) = f3 /\ KeyText(charge) = f1 \o f2
  BY DEF TxidText, KeyText, f1, f2, f3, o, p, q, d
<1>13. QED
  BY <1>3, <1>5, <1>6, <1>9, <1>10, <1>11, <1>12 DEF f3

\* The ten fields of a BR code, and where its walk ends.
TenFields(w, charge, v, stop) ==
  \E m1, m2, m3, m4, m5, m6, m7, m8, m9, m10 :
    /\ Reads(w, 0, <<0, 0>>, <<0, 1>>, m1)
    /\ Reads(w, m1, <<0, 1>>, <<1, 1>>, m2)
    /\ Reads(w, m2, <<2, 6>>, KeyText(charge), m3)
    /\ Reads(w, m3, <<5, 2>>, <<0, 0, 0, 0>>, m4)
    /\ Reads(w, m4, <<5, 3>>, <<9, 8, 6>>, m5)
    /\ Reads(w, m5, <<5, 4>>, v, m6)
    /\ Reads(w, m6, <<5, 8>>, <<C!Letter>>, m7)
    /\ Reads(w, m7, <<5, 9>>, <<C!Letter>>, m8)
    /\ Reads(w, m8, <<6, 0>>, <<C!Letter>>, m9)
    /\ Reads(w, m9, <<6, 2>>, TxidText(charge), m10)
    /\ stop = CrcStop => Ends(w, m10)

LEMMA CodeWalk ==
  ASSUME NEW charge \in Seq(C!Symbols), Len(charge) <= 36,
         NEW v \in Seq(C!Symbols), Len(v) <= 99, NEW crc \in Seq(C!Symbols),
         NEW stop \in {<<>>, CrcStop}
  PROVE  /\ C!build_pix_static_emv(charge, v) \o crc \in Seq(C!Symbols)
         /\ \A w : Walks(w, C!build_pix_static_emv(charge, v) \o crc, stop)
                  => TenFields(w, charge, v, stop)
<1> DEFINE t == C!build_pix_static_emv(charge, v) \o crc
           t1 == <<0, 0>>
           t2 == <<0, 1>>
           t3 == <<2, 6>>
           t4 == <<5, 2>>
           t5 == <<5, 3>>
           t6 == <<5, 4>>
           t7 == <<5, 8>>
           t8 == <<5, 9>>
           t9 == <<6, 0>>
           t10 == <<6, 2>>
           v1 == <<0, 1>>
           v2 == <<1, 1>>
           v3 == KeyText(charge)
           v4 == <<0, 0, 0, 0>>
           v5 == <<9, 8, 6>>
           v6 == v
           v7 == <<C!Letter>>
           v8 == <<C!Letter>>
           v9 == <<C!Letter>>
           v10 == TxidText(charge)
           f1 == C!tlv(t1, v1)
           f2 == C!tlv(t2, v2)
           f3 == C!tlv(t3, v3)
           f4 == C!tlv(t4, v4)
           f5 == C!tlv(t5, v5)
           f6 == C!tlv(t6, v6)
           f7 == C!tlv(t7, v7)
           f8 == C!tlv(t8, v8)
           f9 == C!tlv(t9, v9)
           f10 == C!tlv(t10, v10)
           u1 == f1
           u2 == u1 \o f2
           u3 == u2 \o f3
           u4 == u3 \o f4
           u5 == u4 \o f5
           u6 == u5 \o f6
           u7 == u6 \o f7
           u8 == u7 \o f8
           u9 == u8 \o f9
           u10 == u9 \o f10
           c == CrcStop
           e == <<0, 4>>
<1>1. /\ v3 \in Seq(C!Symbols) /\ Len(v3) <= 99
      /\ v10 \in Seq(C!Symbols) /\ Len(v10) <= 99
  BY FieldTexts
<1>t1. t1 \in Seq(C!Symbols) /\ Len(t1) = 2 /\ t1 # stop
  <2>1. t1 \in Seq(C!Symbols) /\ Len(t1) = 2 /\ t1 # CrcStop
    BY CrcStopIs DEF C!Symbols, C!Hyphen, C!Letter
  <2> HIDE DEF t1
  <2>2. QED
    BY <2>1, TagNotEmpty
<1>t2. t2 \in Seq(C!Symbols) /\ Len(t2) = 2 /\ t2 # stop
  <2>1. t2 \in Seq(C!Symbols) /\ Len(t2) = 2 /\ t2 # CrcStop
    BY CrcStopIs DEF C!Symbols, C!Hyphen, C!Letter
  <2> HIDE DEF t2
  <2>2. QED
    BY <2>1, TagNotEmpty
<1>t3. t3 \in Seq(C!Symbols) /\ Len(t3) = 2 /\ t3 # stop
  <2>1. t3 \in Seq(C!Symbols) /\ Len(t3) = 2 /\ t3 # CrcStop
    BY CrcStopIs DEF C!Symbols, C!Hyphen, C!Letter
  <2> HIDE DEF t3
  <2>2. QED
    BY <2>1, TagNotEmpty
<1>t4. t4 \in Seq(C!Symbols) /\ Len(t4) = 2 /\ t4 # stop
  <2>1. t4 \in Seq(C!Symbols) /\ Len(t4) = 2 /\ t4 # CrcStop
    BY CrcStopIs DEF C!Symbols, C!Hyphen, C!Letter
  <2> HIDE DEF t4
  <2>2. QED
    BY <2>1, TagNotEmpty
<1>t5. t5 \in Seq(C!Symbols) /\ Len(t5) = 2 /\ t5 # stop
  <2>1. t5 \in Seq(C!Symbols) /\ Len(t5) = 2 /\ t5 # CrcStop
    BY CrcStopIs DEF C!Symbols, C!Hyphen, C!Letter
  <2> HIDE DEF t5
  <2>2. QED
    BY <2>1, TagNotEmpty
<1>t6. t6 \in Seq(C!Symbols) /\ Len(t6) = 2 /\ t6 # stop
  <2>1. t6 \in Seq(C!Symbols) /\ Len(t6) = 2 /\ t6 # CrcStop
    BY CrcStopIs DEF C!Symbols, C!Hyphen, C!Letter
  <2> HIDE DEF t6
  <2>2. QED
    BY <2>1, TagNotEmpty
<1>t7. t7 \in Seq(C!Symbols) /\ Len(t7) = 2 /\ t7 # stop
  <2>1. t7 \in Seq(C!Symbols) /\ Len(t7) = 2 /\ t7 # CrcStop
    BY CrcStopIs DEF C!Symbols, C!Hyphen, C!Letter
  <2> HIDE DEF t7
  <2>2. QED
    BY <2>1, TagNotEmpty
<1>t8. t8 \in Seq(C!Symbols) /\ Len(t8) = 2 /\ t8 # stop
  <2>1. t8 \in Seq(C!Symbols) /\ Len(t8) = 2 /\ t8 # CrcStop
    BY CrcStopIs DEF C!Symbols, C!Hyphen, C!Letter
  <2> HIDE DEF t8
  <2>2. QED
    BY <2>1, TagNotEmpty
<1>t9. t9 \in Seq(C!Symbols) /\ Len(t9) = 2 /\ t9 # stop
  <2>1. t9 \in Seq(C!Symbols) /\ Len(t9) = 2 /\ t9 # CrcStop
    BY CrcStopIs DEF C!Symbols, C!Hyphen, C!Letter
  <2> HIDE DEF t9
  <2>2. QED
    BY <2>1, TagNotEmpty
<1>t10. t10 \in Seq(C!Symbols) /\ Len(t10) = 2 /\ t10 # stop
  <2>1. t10 \in Seq(C!Symbols) /\ Len(t10) = 2 /\ t10 # CrcStop
    BY CrcStopIs DEF C!Symbols, C!Hyphen, C!Letter
  <2> HIDE DEF t10
  <2>2. QED
    BY <2>1, TagNotEmpty
<1>v1. v1 \in Seq(C!Symbols) /\ Len(v1) <= 99
  BY DEF C!Symbols, C!Hyphen, C!Letter
<1>v2. v2 \in Seq(C!Symbols) /\ Len(v2) <= 99
  BY DEF C!Symbols, C!Hyphen, C!Letter
<1>v4. v4 \in Seq(C!Symbols) /\ Len(v4) <= 99
  BY DEF C!Symbols, C!Hyphen, C!Letter
<1>v5. v5 \in Seq(C!Symbols) /\ Len(v5) <= 99
  BY DEF C!Symbols, C!Hyphen, C!Letter
<1>v7. v7 \in Seq(C!Symbols) /\ Len(v7) <= 99
  BY DEF C!Symbols, C!Hyphen, C!Letter
<1>v8. v8 \in Seq(C!Symbols) /\ Len(v8) <= 99
  BY DEF C!Symbols, C!Hyphen, C!Letter
<1>v9. v9 \in Seq(C!Symbols) /\ Len(v9) <= 99
  BY DEF C!Symbols, C!Hyphen, C!Letter
<1>c. /\ c \in Seq(C!Symbols) /\ e \in Seq(C!Symbols) /\ Len(c) = 2 /\ C!CrcTag = c \o e
  BY CrcStopIs DEF C!Symbols, C!Hyphen, C!Letter
<1>2. t = u10 \o C!CrcTag \o crc
  BY DEF C!build_pix_static_emv, C!Tag54, KeyText, TxidText
<1> HIDE DEF t, c, e, t1, v1, t2, v2, t3, v3, t4, v4, t5, v5,
             t6, v6, t7, v7, t8, v8, t9, v9, t10, v10
<1>f1. f1 \in Seq(C!Symbols)
  BY <1>t1, <1>v1, FieldParts
<1>f2. f2 \in Seq(C!Symbols)
  BY <1>t2, <1>v2, FieldParts
<1>f3. f3 \in Seq(C!Symbols)
  BY <1>t3, <1>1, FieldParts
<1>f4. f4 \in Seq(C!Symbols)
  BY <1>t4, <1>v4, FieldParts
<1>f5. f5 \in Seq(C!Symbols)
  BY <1>t5, <1>v5, FieldParts
<1>f6. f6 \in Seq(C!Symbols)
  BY <1>t6, FieldParts DEF v6
<1>f7. f7 \in Seq(C!Symbols)
  BY <1>t7, <1>v7, FieldParts
<1>f8. f8 \in Seq(C!Symbols)
  BY <1>t8, <1>v8, FieldParts
<1>f9. f9 \in Seq(C!Symbols)
  BY <1>t9, <1>v9, FieldParts
<1>f10. f10 \in Seq(C!Symbols)
  BY <1>t10, <1>1, FieldParts
<1> HIDE DEF f1, f2, f3, f4, f5, f6, f7, f8, f9, f10
<1>u1. u1 \in Seq(C!Symbols)
  BY <1>f1
<1> HIDE DEF u1
<1>u2. u2 \in Seq(C!Symbols)
  BY <1>u1, <1>f2, TextsJoined
<1> HIDE DEF u2
<1>u3. u3 \in Seq(C!Symbols)
  BY <1>u2, <1>f3, TextsJoined
<1> HIDE DEF u3
<1>u4. u4 \in Seq(C!Symbols)
  BY <1>u3, <1>f4, TextsJoined
<1> HIDE DEF u4
<1>u5. u5 \in Seq(C!Symbols)
  BY <1>u4, <1>f5, TextsJoined
<1> HIDE DEF u5
<1>u6. u6 \in Seq(C!Symbols)
  BY <1>u5, <1>f6, TextsJoined
<1> HIDE DEF u6
<1>u7. u7 \in Seq(C!Symbols)
  BY <1>u6, <1>f7, TextsJoined
<1> HIDE DEF u7
<1>u8. u8 \in Seq(C!Symbols)
  BY <1>u7, <1>f8, TextsJoined
<1> HIDE DEF u8
<1>u9. u9 \in Seq(C!Symbols)
  BY <1>u8, <1>f9, TextsJoined
<1> HIDE DEF u9
<1>u10. u10 \in Seq(C!Symbols)
  BY <1>u9, <1>f10, TextsJoined
<1> HIDE DEF u10
<1>3. t \in Seq(C!Symbols) /\ Begins(t, u10 \o c)
  <2>1. C!CrcTag \in Seq(C!Symbols)
    BY <1>c, TextsJoined
  <2>2. u10 \o C!CrcTag \in Seq(C!Symbols) /\ u10 \o c \in Seq(C!Symbols)
    BY <1>u10, <1>c, <2>1, TextsJoined
  <2>3. u10 \o C!CrcTag = (u10 \o c) \o e
    <3>1. u10 \o (c \o e) = (u10 \o c) \o e
      BY <1>u10, <1>c, Moved
    <3>2. QED
      BY <1>c, <3>1, Zenon
  <2>4. t \in Seq(C!Symbols)
    BY <1>2, <2>2, TextsJoined
  <2>5. Begins(t, (u10 \o c) \o e)
    BY <1>2, <2>2, <2>3 DEF Begins
  <2>6. QED
    BY <1>c, <2>2, <2>4, <2>5, BeginsShorter
<1> SUFFICES ASSUME NEW w, Walks(w, t, stop)
             PROVE  TenFields(w, charge, v, stop)
  BY <1>3 DEF t
<1>w. Walked(w, t, stop)
  BY <1>3 DEF Walked
<1>4. Begins(t, u10)
  BY <1>3, <1>u10, <1>c, BeginsShorter
<1>e. stop = CrcStop => Ends(w, Len(u10))
  <2>1. IsTag(CrcStop) /\ IsText(u10) /\ Begins(t, u10 \o CrcStop)
    BY <1>3, <1>u10, CrcStopIs DEF c, IsTag, IsText
  <2>2. QED
    BY <1>w, <2>1, WalkEnds, Zenon
<1>r10. Begins(t, u9) /\ Reads(w, Len(u9), t10, v10, Len(u10))
  <2>1. Adds(u10, u9, t10, v10)
    BY DEF Adds, u10, f10
  <2>2. IsText(u9) /\ IsTag(t10) /\ Other(t10, stop) /\ Fits(v10)
    BY <1>u9, <1>t10, <1>1 DEF IsText, IsTag, Other, Fits
  <2>3. QED
    BY <1>4, <1>w, <2>1, <2>2, NextField, Zenon
<1>r9. Begins(t, u8) /\ Reads(w, Len(u8), t9, v9, Len(u9))
  <2>1. Adds(u9, u8, t9, v9)
    BY DEF Adds, u9, f9
  <2>2. IsText(u8) /\ IsTag(t9) /\ Other(t9, stop) /\ Fits(v9)
    BY <1>u8, <1>t9, <1>v9 DEF IsText, IsTag, Other, Fits
  <2>3. QED
    BY <1>r10, <1>w, <2>1, <2>2, NextField, Zenon
<1>r8. Begins(t, u7) /\ Reads(w, Len(u7), t8, v8, Len(u8))
  <2>1. Adds(u8, u7, t8, v8)
    BY DEF Adds, u8, f8
  <2>2. IsText(u7) /\ IsTag(t8) /\ Other(t8, stop) /\ Fits(v8)
    BY <1>u7, <1>t8, <1>v8 DEF IsText, IsTag, Other, Fits
  <2>3. QED
    BY <1>r9, <1>w, <2>1, <2>2, NextField, Zenon
<1>r7. Begins(t, u6) /\ Reads(w, Len(u6), t7, v7, Len(u7))
  <2>1. Adds(u7, u6, t7, v7)
    BY DEF Adds, u7, f7
  <2>2. IsText(u6) /\ IsTag(t7) /\ Other(t7, stop) /\ Fits(v7)
    BY <1>u6, <1>t7, <1>v7 DEF IsText, IsTag, Other, Fits
  <2>3. QED
    BY <1>r8, <1>w, <2>1, <2>2, NextField, Zenon
<1>r6. Begins(t, u5) /\ Reads(w, Len(u5), t6, v6, Len(u6))
  <2>1. Adds(u6, u5, t6, v6)
    BY DEF Adds, u6, f6
  <2>2. IsText(u5) /\ IsTag(t6) /\ Other(t6, stop) /\ Fits(v6)
    BY <1>u5, <1>t6 DEF IsText, IsTag, Other, Fits, v6
  <2>3. QED
    BY <1>r7, <1>w, <2>1, <2>2, NextField, Zenon
<1>r5. Begins(t, u4) /\ Reads(w, Len(u4), t5, v5, Len(u5))
  <2>1. Adds(u5, u4, t5, v5)
    BY DEF Adds, u5, f5
  <2>2. IsText(u4) /\ IsTag(t5) /\ Other(t5, stop) /\ Fits(v5)
    BY <1>u4, <1>t5, <1>v5 DEF IsText, IsTag, Other, Fits
  <2>3. QED
    BY <1>r6, <1>w, <2>1, <2>2, NextField, Zenon
<1>r4. Begins(t, u3) /\ Reads(w, Len(u3), t4, v4, Len(u4))
  <2>1. Adds(u4, u3, t4, v4)
    BY DEF Adds, u4, f4
  <2>2. IsText(u3) /\ IsTag(t4) /\ Other(t4, stop) /\ Fits(v4)
    BY <1>u3, <1>t4, <1>v4 DEF IsText, IsTag, Other, Fits
  <2>3. QED
    BY <1>r5, <1>w, <2>1, <2>2, NextField, Zenon
<1>r3. Begins(t, u2) /\ Reads(w, Len(u2), t3, v3, Len(u3))
  <2>1. Adds(u3, u2, t3, v3)
    BY DEF Adds, u3, f3
  <2>2. IsText(u2) /\ IsTag(t3) /\ Other(t3, stop) /\ Fits(v3)
    BY <1>u2, <1>t3, <1>1 DEF IsText, IsTag, Other, Fits
  <2>3. QED
    BY <1>r4, <1>w, <2>1, <2>2, NextField, Zenon
<1>r2. Begins(t, u1) /\ Reads(w, Len(u1), t2, v2, Len(u2))
  <2>1. Adds(u2, u1, t2, v2)
    BY DEF Adds, u2, f2
  <2>2. IsText(u1) /\ IsTag(t2) /\ Other(t2, stop) /\ Fits(v2)
    BY <1>u1, <1>t2, <1>v2 DEF IsText, IsTag, Other, Fits
  <2>3. QED
    BY <1>r3, <1>w, <2>1, <2>2, NextField, Zenon
<1>r1. Reads(w, 0, t1, v1, Len(u1))
  <2>1. Begins(t, C!tlv(t1, v1))
    BY <1>r2 DEF u1, f1
  <2>2. Reads(w, 0, t1, v1, Len(C!tlv(t1, v1)))
    BY <1>3, <1>w, <1>t1, <1>v1, <2>1, FirstFieldIsRead DEF Walked
  <2>3. QED
    BY <2>2 DEF u1, f1
<1>5. QED
  <2>1. /\ Reads(w, 0, t1, v1, Len(u1))
        /\ Reads(w, Len(u1), t2, v2, Len(u2))
        /\ Reads(w, Len(u2), t3, v3, Len(u3))
        /\ Reads(w, Len(u3), t4, v4, Len(u4))
        /\ Reads(w, Len(u4), t5, v5, Len(u5))
        /\ Reads(w, Len(u5), t6, v6, Len(u6))
        /\ Reads(w, Len(u6), t7, v7, Len(u7))
        /\ Reads(w, Len(u7), t8, v8, Len(u8))
        /\ Reads(w, Len(u8), t9, v9, Len(u9))
        /\ Reads(w, Len(u9), t10, v10, Len(u10))
        /\ stop = CrcStop => Ends(w, Len(u10))
    BY <1>e, <1>r1, <1>r2, <1>r3, <1>r4, <1>r5, <1>r6, <1>r7, <1>r8, <1>r9, <1>r10
  <2>2. \E m1, m2, m3, m4, m5, m6, m7, m8, m9, m10 :
          /\ Reads(w, 0, t1, v1, m1)
          /\ Reads(w, m1, t2, v2, m2)
          /\ Reads(w, m2, t3, v3, m3)
          /\ Reads(w, m3, t4, v4, m4)
          /\ Reads(w, m4, t5, v5, m5)
          /\ Reads(w, m5, t6, v6, m6)
          /\ Reads(w, m6, t7, v7, m7)
          /\ Reads(w, m7, t8, v8, m8)
          /\ Reads(w, m8, t9, v9, m9)
          /\ Reads(w, m9, t10, v10, m10)
          /\ stop = CrcStop => Ends(w, m10)
    <3> WITNESS Len(u1), Len(u2), Len(u3), Len(u4), Len(u5),
                Len(u6), Len(u7), Len(u8), Len(u9), Len(u10)
    <3>1. QED
      BY <2>1
  <2>3. QED
    BY <2>2 DEF TenFields, t1, v1, t2, v2, t3, v3, t4, v4, t5, v5,
                t6, v6, t7, v7, t8, v8, t9, v9, t10, v10

\* What is read of a BR code.
LEMMA CodeIsRead ==
  ASSUME NEW charge \in Seq(C!Symbols), Len(charge) <= 36,
         NEW v \in Seq(C!Symbols), Len(v) <= 99, NEW crc \in Seq(C!Symbols)
  PROVE  LET t == C!build_pix_static_emv(charge, v) \o crc IN
         /\ C!Read(t, C!Tag54) = v
         /\ C!Read(t, <<6, 2>>) = TxidText(charge)
         /\ C!First(t, <<2, 6>>) = KeyText(charge)
<1> DEFINE t == C!build_pix_static_emv(charge, v) \o crc
           key == KeyText(charge)
           txid == TxidText(charge)
<1>1. CrcStop \in {<<>>, CrcStop} /\ <<>> \in {<<>>, CrcStop}
  OBVIOUS
<1>2. t \in Seq(C!Symbols)
  BY <1>1, CodeWalk
<1>3. C!Read(t, C!Tag54) = v /\ C!Read(t, <<6, 2>>) = txid
  <2>1. PICK w : Walks(w, t, CrcStop) /\ C!Walk(t, CrcStop) = w[1]
    BY <1>2, WalkIs
  <2>2. TenFields(w, charge, v, CrcStop)
    BY <1>1, <2>1, CodeWalk
  <2>3. PICK m1, m2, m3, m4, m5, m6, m7, m8, m9, m10 :
          /\ Reads(w, 0, <<0, 0>>, <<0, 1>>, m1)
          /\ Reads(w, m1, <<0, 1>>, <<1, 1>>, m2)
          /\ Reads(w, m2, <<2, 6>>, key, m3)
          /\ Reads(w, m3, <<5, 2>>, <<0, 0, 0, 0>>, m4)
          /\ Reads(w, m4, <<5, 3>>, <<9, 8, 6>>, m5)
          /\ Reads(w, m5, <<5, 4>>, v, m6)
          /\ Reads(w, m6, <<5, 8>>, <<C!Letter>>, m7)
          /\ Reads(w, m7, <<5, 9>>, <<C!Letter>>, m8)
          /\ Reads(w, m8, <<6, 0>>, <<C!Letter>>, m9)
          /\ Reads(w, m9, <<6, 2>>, txid, m10)
          /\ Ends(w, m10)
    BY <2>2 DEF TenFields
  <2> HIDE DEF key, txid, t
  <2> DEFINE a == <<5, 4>>
             b == <<6, 2>>
  <2>4. Other(a, <<5, 8>>) /\ Other(a, <<5, 9>>) /\ Other(a, <<6, 0>>) /\ Other(a, b)
    BY DEF Other
  <2>5. None(w, m10, a) /\ None(w, m10, b)
    BY <2>3 DEF Ends, Lacks, None
  <2>6. Last(w, m9, b, txid) /\ None(w, m9, a)
    <3>1. Reads(w, m9, b, txid, m10)
      BY <2>3
    <3> HIDE DEF a, b
    <3>2. QED
      BY <2>4, <2>5, <3>1, NowLast, StillNone, Zenon
  <2> HIDE DEF a, b
  <2>7. Last(w, m8, b, txid) /\ None(w, m8, a)
    <3>1. Reads(w, m8, <<6, 0>>, <<C!Letter>>, m9)
      BY <2>3
    <3>2. QED
      BY <2>4, <2>6, <3>1, StillLast, StillNone, Zenon
  <2>8. Last(w, m7, b, txid) /\ None(w, m7, a)
    <3>1. Reads(w, m7, <<5, 9>>, <<C!Letter>>, m8)
      BY <2>3
    <3>2. QED
      BY <2>4, <2>7, <3>1, StillLast, StillNone, Zenon
  <2>9. Last(w, m6, b, txid) /\ None(w, m6, a)
    <3>1. Reads(w, m6, <<5, 8>>, <<C!Letter>>, m7)
      BY <2>3
    <3>2. QED
      BY <2>4, <2>8, <3>1, StillLast, StillNone, Zenon
  <2>10. Last(w, m5, b, txid) /\ Last(w, m5, a, v)
    <3>1. Reads(w, m5, a, v, m6)
      BY <2>3 DEF a
    <3>2. QED
      BY <2>9, <3>1, StillLast, NowLast, Zenon
  <2>11. Last(w, m4, b, txid) /\ Last(w, m4, a, v)
    <3>1. Reads(w, m4, <<5, 3>>, <<9, 8, 6>>, m5)
      BY <2>3
    <3>2. QED
      BY <2>10, <3>1, StillLast, Zenon
  <2>12. Last(w, m3, b, txid) /\ Last(w, m3, a, v)
    <3>1. Reads(w, m3, <<5, 2>>, <<0, 0, 0, 0>>, m4)
      BY <2>3
    <3>2. QED
      BY <2>11, <3>1, StillLast, Zenon
  <2>13. Last(w, m2, b, txid) /\ Last(w, m2, a, v)
    <3>1. Reads(w, m2, <<2, 6>>, key, m3)
      BY <2>3
    <3>2. QED
      BY <2>12, <3>1, StillLast, Zenon
  <2>14. Last(w, m1, b, txid) /\ Last(w, m1, a, v)
    <3>1. Reads(w, m1, <<0, 1>>, <<1, 1>>, m2)
      BY <2>3
    <3>2. QED
      BY <2>13, <3>1, StillLast, Zenon
  <2>15. Last(w, 0, b, txid) /\ Last(w, 0, a, v)
    <3>1. Reads(w, 0, <<0, 0>>, <<0, 1>>, m1)
      BY <2>3
    <3>2. QED
      BY <2>14, <3>1, StillLast, Zenon
  <2>16. w[0 + 1] \in Seq(Records)
    BY <2>3, ReadsLast
  <2>17. C!Fields(t) = w[0 + 1]
    BY <2>1 DEF C!Fields, CrcStop
  <2>18. C!Read(t, a) = v /\ C!Read(t, b) = txid
    BY <2>15, <2>16, <2>17, LastIsRead DEF Last
  <2>19. QED
    BY <2>18 DEF a, b, C!Tag54
<1>4. C!First(t, <<2, 6>>) = key
  <2>1. PICK w : Walks(w, t, <<>>) /\ C!Walk(t, <<>>) = w[1]
    BY <1>2, WalkIs
  <2>2. TenFields(w, charge, v, <<>>)
    BY <1>1, <2>1, CodeWalk
  <2>3. PICK m1, m2, m3 :
          /\ Reads(w, 0, <<0, 0>>, <<0, 1>>, m1)
          /\ Reads(w, m1, <<0, 1>>, <<1, 1>>, m2)
          /\ Reads(w, m2, <<2, 6>>, key, m3)
    BY <2>2 DEF TenFields
  <2> HIDE DEF key, t
  <2> DEFINE a == <<2, 6>>
  <2>4. Other(a, <<0, 0>>) /\ Other(a, <<0, 1>>)
    BY DEF Other
  <2>5. Foremost(w, m2, a, key)
    BY <2>3, ReadsFirst DEF Foremost
  <2> HIDE DEF a
  <2>6. Foremost(w, m1, a, key)
    BY <2>3, <2>4, <2>5, StillForemost, Zenon
  <2>7. Foremost(w, 0, a, key) /\ w[0 + 1] \in Seq(Records)
    BY <2>3, <2>4, <2>6, StillForemost, ReadsFirst, Zenon
  <2>8. C!First(t, a) = key
    BY <2>1, <2>7, FirstIsRead DEF Foremost
  <2>9. QED
    BY <2>8 DEF a
<1>5. QED
  BY <1>3, <1>4

\* Every code of a charge is read as it was written.
LEMMA CodeGivesBack ==
  ASSUME NEW charge \in Seq(C!Symbols), Len(charge) <= 36,
         NEW v \in Seq(C!Symbols), Len(v) <= 99, NEW crc \in Seq(C!Symbols)
  PROVE  LET t == C!build_pix_static_emv(charge, v) \o crc IN
         /\ C!_parse_emv_value(t) = v
         /\ C!_extract_txid_field62(t) = C!Txid(charge)
         /\ C!parse_emv_pix_key(t) = charge
<1> DEFINE t == C!build_pix_static_emv(charge, v) \o crc
           p == <<0, 0>>
           q == <<0, 1>>
           d == <<0, 5>>
           o == <<C!Letter>>
<1>1. /\ C!Read(t, C!Tag54) = v
      /\ C!Read(t, <<6, 2>>) = TxidText(charge)
      /\ C!First(t, <<2, 6>>) = KeyText(charge)
  BY CodeIsRead
<1> HIDE DEF t
<1>2. /\ IsTag(p) /\ IsTag(q) /\ IsTag(d) /\ Fits(o) /\ Other(p, q)
  BY DEF IsTag, Fits, Other, C!Symbols, C!Hyphen, C!Letter
<1> HIDE DEF p, q, d, o
<1>3. C!First(C!tlv(d, C!Txid(charge)), d) = C!Txid(charge)
  <2>1. C!Txid(charge) \in Seq(C!Symbols) /\ Len(C!Txid(charge)) <= 99
    BY FieldTexts
  <2>2. QED
    BY <1>2, <2>1, OnlyField DEF IsTag
<1>4. C!First(C!tlv(p, o) \o C!tlv(q, charge), q) = charge
  <2>1. Len(charge) <= 99
    <3>1. Len(charge) \in Nat
      OBVIOUS
    <3>2. QED
      BY <3>1
  <2>2. QED
    BY <1>2, <2>1, SecondField DEF IsTag, Fits, Other
<1>5. C!_extract_txid_field62(t) = C!Txid(charge)
  BY <1>1, <1>3 DEF C!_extract_txid_field62, TxidText, d
<1>6. C!parse_emv_pix_key(t) = charge
  BY <1>1, <1>4 DEF C!parse_emv_pix_key, KeyText, p, q, o
<1>7. QED
  BY <1>1, <1>5, <1>6 DEF C!_parse_emv_value, t

\* PaymentCodes: the amount, the charge and the key are read out of every BR
\* code as they were written, whatever tags the charge's id or the checksum spell.
THEOREM WrittenIsRead == C!Spec => []C!WrittenIsRead
<1>1. CodesInv => C!WrittenIsRead
  <2> SUFFICES ASSUME CodesInv, came = "brcode"
               PROVE  LET t == C!build_pix_static_emv(id, amount) \o appended IN
                      /\ C!_parse_emv_value(t) = amount
                      /\ C!_extract_txid_field62(t) = C!Txid(id)
                      /\ C!parse_emv_pix_key(t) = id
    BY DEF C!WrittenIsRead
  <2>1. id \in Ids /\ amount \in Amounts /\ appended \in Crcs
    BY DEF CodesInv
  <2>2. /\ id \in Seq(C!Symbols) /\ amount \in Seq(C!Symbols) /\ appended \in Seq(C!Symbols)
        /\ Len(id) <= 36 /\ Len(amount) <= 99
    BY <2>1, CustomerAssumption DEF C!CodesAssumption, C!Symbols
  <2>3. QED
    BY <2>2, CodeGivesBack
<1>2. QED
  BY <1>1, CodesInvAlways, PTL

\* PaymentCodes: what is written into a BR code is read out of it, and it passes
\* if and only if its checksum is right.
THEOREM CodesAreReadRight == C!Spec => []CodesAreRead
BY WrittenIsRead, ChecksumDecides, PTL DEF CodesAreRead

-----------------------------------------------------------------------------
(* Sums.  A check digit is made of a weighted sum of the others.  The fold of  *)
(* the community modules is a recursive function; that there is one which     *)
(* satisfies its equation is shown by the number of terms.                    *)

One(T) == CHOOSE x \in T : TRUE

\* g sums the terms of f over any of its places.
Sums(g, f) ==
  g = [T \in SUBSET DOMAIN f |->
         IF T = {} THEN 0 ELSE f[One(T)] + g[T \ {One(T)}]]

\* What is picked is there.
LEMMA OneIsMember == \A T : T # {} => One(T) \in T
BY DEF One

\* There is a function that sums, for finitely many terms.
LEMMA SumsExist ==
  ASSUME NEW f, IsFiniteSet(DOMAIN f)
  PROVE  \E g : Sums(g, f)
<1> DEFINE S == DOMAIN f
           Upto(n) == {T \in SUBSET S : Cardinality(T) <= n}
           SumsUpto(g, n) ==
             g = [T \in Upto(n) |-> IF T = {} THEN 0 ELSE f[One(T)] + g[T \ {One(T)}]]
           Bad == {n \in Nat : ~ \E g : SumsUpto(g, n)}
<1>1. \A T \in SUBSET S : /\ IsFiniteSet(T) /\ Cardinality(T) \in Nat
                          /\ Cardinality(T) <= Cardinality(S)
  BY FS_Subset, FS_CardinalityType
<1>2. ASSUME NEW T \in SUBSET S, T # {}
      PROVE  /\ One(T) \in T /\ T \ {One(T)} \in SUBSET S
             /\ Cardinality(T \ {One(T)}) = Cardinality(T) - 1
  BY <1>1, <1>2, OneIsMember, FS_RemoveElement
<1>3. \E g : SumsUpto(g, 0)
  <2>1. \A T \in Upto(0) : T = {}
    BY <1>1, FS_EmptySet
  <2>2. SumsUpto([T \in Upto(0) |-> 0], 0)
    BY <2>1
  <2>3. QED
    BY <2>2
<1>4. ASSUME NEW n \in Nat, \E g : SumsUpto(g, n) PROVE \E g : SumsUpto(g, n + 1)
  <2>1. PICK g : SumsUpto(g, n)
    BY <1>4
  <2> DEFINE h == [T \in Upto(n + 1) |->
                     IF T = {} THEN 0 ELSE f[One(T)] + g[T \ {One(T)}]]
  <2>2. ASSUME NEW T \in Upto(n) PROVE h[T] = g[T]
    <3>1. T \in Upto(n + 1)
      BY <1>1
    <3>2. h[T] = IF T = {} THEN 0 ELSE f[One(T)] + g[T \ {One(T)}]
      BY <3>1
    <3>3. g[T] = IF T = {} THEN 0 ELSE f[One(T)] + g[T \ {One(T)}]
      BY <2>1
    <3>4. QED
      BY <3>2, <3>3
  <2>3. ASSUME NEW T \in Upto(n + 1), T # {} PROVE T \ {One(T)} \in Upto(n)
    BY <1>1, <1>2, <2>3
  <2>4. h = [T \in Upto(n + 1) |->
               IF T = {} THEN 0 ELSE f[One(T)] + h[T \ {One(T)}]]
    <3>1. ASSUME NEW T \in Upto(n + 1), T # {}
          PROVE  f[One(T)] + g[T \ {One(T)}] = f[One(T)] + h[T \ {One(T)}]
      BY <2>2, <2>3, <3>1
    <3> HIDE DEF Upto
    <3>2. QED
      BY <3>1
  <2>5. QED
    BY <2>4
<1>5. Bad = {}
  <2> SUFFICES ASSUME Bad # {} PROVE FALSE
    OBVIOUS
  <2>1. Bad \in SUBSET Nat
    OBVIOUS
  <2>2. PICK n \in Bad : \A m \in Bad : n <= m
    BY <2>1, LeastMember
  <2> HIDE DEF SumsUpto
  <2>3. n \in Nat /\ n # 0
    BY <1>3
  <2>4. n - 1 \in Nat /\ n - 1 \notin Bad /\ (n - 1) + 1 = n
    <3>1. n - 1 \in Nat /\ ~(n <= n - 1) /\ (n - 1) + 1 = n
      BY <2>3
    <3> HIDE DEF Bad
    <3>2. QED
      BY <2>2, <3>1
  <2>5. \E g : SumsUpto(g, (n - 1) + 1)
    BY <1>4, <2>4
  <2>6. QED
    BY <2>2, <2>4, <2>5
<1>6. PICK g : SumsUpto(g, Cardinality(S))
  <2> HIDE DEF SumsUpto
  <2>1. QED
    BY <1>5, FS_CardinalityType
<1>7. Upto(Cardinality(S)) = SUBSET S
  BY <1>1
<1>8. QED
  BY <1>6, <1>7 DEF Sums

\* SumFunction is the value of such a function.
LEMMA SumIs ==
  ASSUME NEW f, IsFiniteSet(DOMAIN f)
  PROVE  \E g : Sums(g, f) /\ C!SumFunction(f) = g[DOMAIN f]
<1> DEFINE g == CHOOSE g : Sums(g, f)
<1>1. Sums(g, f)
  BY SumsExist
<1>2. C!SumFunction(f) = g[DOMAIN f]
  BY DEF C!SumFunction, C!SumFunctionOnSet, C!FoldFunctionOnSet, C!MapThenFoldSet,
     Sums, One
<1>3. QED
  BY <1>1, <1>2

\* Of a family of sets, one has no member but one less in the family.
LEMMA SmallestSet ==
  ASSUME NEW S, IsFiniteSet(S), NEW Family, Family \subseteq SUBSET S, Family # {}
  PROVE  \E T \in Family : \A x \in T : T \ {x} \notin Family
<1>1. IsWellFoundedOn(StrictSubsetOrdering(S), SUBSET S)
  BY FS_StrictSubsetOrderingWellFounded, FS_FiniteSubsetsOfFinite
<1>2. PICK T \in Family : \A U \in Family : <<U, T>> \notin StrictSubsetOrdering(S)
  BY <1>1, WFMin
<1>3. QED
  BY <1>2, ZenonT(60) DEF StrictSubsetOrdering

\* A sum of numbers is a number.
LEMMA SumIsNumber ==
  ASSUME NEW S, IsFiniteSet(S), NEW f \in [S -> Nat], NEW g, Sums(g, f)
  PROVE  \A T \in SUBSET S : g[T] \in Nat
<1> DEFINE Bad == {T \in SUBSET S : g[T] \notin Nat}
<1> SUFFICES ASSUME Bad # {} PROVE FALSE
  OBVIOUS
<1>1. PICK T \in Bad : \A x \in T : T \ {x} \notin Bad
  <2>1. Bad \subseteq SUBSET S
    OBVIOUS
  <2> HIDE DEF Bad
  <2>2. QED
    BY <2>1, SmallestSet
<1>2. T \in SUBSET S /\ g[T] \notin Nat
  OBVIOUS
<1>3. g[T] = IF T = {} THEN 0 ELSE f[One(T)] + g[T \ {One(T)}]
  BY <1>2 DEF Sums
<1>4. T # {}
  BY <1>2, <1>3
<1>5. One(T) \in T /\ f[One(T)] \in Nat
  BY <1>2, <1>4, OneIsMember
<1>6. g[T \ {One(T)}] \in Nat
  BY <1>1, <1>2, <1>5
<1>7. QED
  BY <1>2, <1>3, <1>4, <1>5, <1>6

\* A sum of numbers is a number, and where one term is another, the sum differs
\* by what the terms do.
LEMMA SumSlip ==
  ASSUME NEW S, IsFiniteSet(S), NEW f \in [S -> Nat], NEW e \in [S -> Nat],
         NEW x \in S, \A y \in S \ {x} : e[y] = f[y]
  PROVE  /\ C!SumFunction(f) \in Nat /\ C!SumFunction(e) \in Nat
         /\ C!SumFunction(e) - C!SumFunction(f) = e[x] - f[x]
<1>1. DOMAIN f = S /\ DOMAIN e = S
  OBVIOUS
<1>2. PICK g : Sums(g, f) /\ C!SumFunction(f) = g[S]
  BY <1>1, SumIs
<1>3. PICK h : Sums(h, e) /\ C!SumFunction(e) = h[S]
  BY <1>1, SumIs
<1>4. \A T \in SUBSET S : g[T] \in Nat /\ h[T] \in Nat
  BY <1>2, <1>3, SumIsNumber
<1> DEFINE Off(T) == IF x \in T THEN e[x] - f[x] ELSE 0
           Bad == {T \in SUBSET S : h[T] - g[T] # Off(T)}
<1>5. Bad = {}
  <2> SUFFICES ASSUME Bad # {} PROVE FALSE
    OBVIOUS
  <2>1. PICK T \in Bad : \A y \in T : T \ {y} \notin Bad
    <3>1. Bad \subseteq SUBSET S
      OBVIOUS
    <3> HIDE DEF Bad
    <3>2. QED
      BY <3>1, SmallestSet
  <2>2. T \in SUBSET S /\ h[T] - g[T] # Off(T)
    OBVIOUS
  <2>3. /\ g[T] = IF T = {} THEN 0 ELSE f[One(T)] + g[T \ {One(T)}]
        /\ h[T] = IF T = {} THEN 0 ELSE e[One(T)] + h[T \ {One(T)}]
    BY <1>1, <1>2, <1>3, <2>2 DEF Sums
  <2>4. T # {}
    BY <2>2, <2>3
  <2>5. One(T) \in T /\ f[One(T)] \in Nat /\ e[One(T)] \in Nat
        /\ e[x] \in Nat /\ f[x] \in Nat
    BY <2>2, <2>4, OneIsMember
  <2>6. h[T \ {One(T)}] - g[T \ {One(T)}] = Off(T \ {One(T)})
    BY <2>1, <2>2, <2>5
  <2>7. g[T \ {One(T)}] \in Nat /\ h[T \ {One(T)}] \in Nat
    BY <1>4, <2>2
  <2>8. CASE One(T) = x
    <3>1. Off(T \ {One(T)}) = 0 /\ Off(T) = e[x] - f[x]
      BY <2>5, <2>8
    <3> HIDE DEF Off
    <3>2. QED
      BY <2>2, <2>3, <2>4, <2>5, <2>6, <2>7, <2>8, <3>1
  <2>9. CASE One(T) # x
    <3>1. Off(T \ {One(T)}) = Off(T) /\ e[One(T)] = f[One(T)] /\ Off(T) \in Int
      BY <2>2, <2>5, <2>9
    <3> HIDE DEF Off
    <3>2. QED
      BY <2>2, <2>3, <2>4, <2>5, <2>6, <2>7, <3>1
  <2>10. QED
    BY <2>8, <2>9
<1>6. h[S] - g[S] = e[x] - f[x]
  <2>1. S \notin Bad
    BY <1>5, Zenon
  <2>2. QED
    BY <2>1
<1>7. QED
  BY <1>2, <1>3, <1>4, <1>6

-----------------------------------------------------------------------------
(* Check digits.                                                           *)

\* Numbers of n digits.
Numbers(n) == [1 .. n -> 0 .. 9]

\* Two numbers that differ in one digit.
Slip(n, d, e, i) ==
  /\ d \in Numbers(n) /\ e \in Numbers(n) /\ i \in 1 .. n
  /\ e[i] # d[i] /\ \A j \in 1 .. n \ {i} : e[j] = d[j]

\* The terms of a weighted sum are numbers.
LEMMA TermsAreNumbers ==
  ASSUME NEW n \in Nat, NEW d \in Numbers(n), NEW w \in [1 .. n -> Nat]
  PROVE  [j \in 1 .. n |-> d[j] * w[j]] \in [1 .. n -> Nat]
<1>1. \A j \in 1 .. n : d[j] \in Nat /\ w[j] \in Nat
  BY SMTT(20) DEF Numbers
<1>2. \A j \in 1 .. n : d[j] * w[j] \in Nat
  BY <1>1
<1>3. QED
  BY <1>2

\* A slip is by less than ten.
LEMMA SlipBy ==
  ASSUME NEW n \in Nat, NEW d, NEW e, NEW i, Slip(n, d, e, i)
  PROVE  /\ i \in 1 .. n /\ d \in Numbers(n) /\ e \in Numbers(n)
         /\ d[i] \in 0 .. 9 /\ e[i] \in 0 .. 9
         /\ e[i] - d[i] \in -9 .. 9 /\ e[i] - d[i] # 0
<1>1. i \in 1 .. n /\ e[i] # d[i]
  BY DEF Slip
<1>2. \A j \in 1 .. n : d[j] \in 0 .. 9 /\ e[j] \in 0 .. 9
  BY DEF Slip, Numbers
<1>3. d[i] \in 0 .. 9 /\ e[i] \in 0 .. 9
  BY <1>1, <1>2
<1>4. QED
  BY <1>1, <1>3 DEF Slip

\* It changes a weighted sum by a multiple of its weight.
LEMMA WeightedSlip ==
  ASSUME NEW n \in Nat, NEW d, NEW e, NEW i, Slip(n, d, e, i),
         NEW w \in [1 .. n -> Nat]
  PROVE  /\ C!Weighted(d, w) \in Nat /\ C!Weighted(e, w) \in Nat
         /\ C!Weighted(e, w) - C!Weighted(d, w) = (e[i] - d[i]) * w[i]
<1> DEFINE f == [j \in 1 .. n |-> d[j] * w[j]]
           h == [j \in 1 .. n |-> e[j] * w[j]]
<1>1. f \in [1 .. n -> Nat] /\ h \in [1 .. n -> Nat]
  <2>1. d \in Numbers(n) /\ e \in Numbers(n)
    BY DEF Slip
  <2> HIDE DEF Numbers
  <2>2. f \in [1 .. n -> Nat]
    BY <2>1, TermsAreNumbers
  <2>3. h \in [1 .. n -> Nat]
    BY <2>1, TermsAreNumbers
  <2>4. QED
    BY <2>2, <2>3
<1>2. \A j \in 1 .. n \ {i} : h[j] = f[j]
  BY DEF Slip
<1>3. IsFiniteSet(1 .. n) /\ i \in 1 .. n
  BY FS_Interval, SlipBy
<1>4. f[i] = d[i] * w[i] /\ h[i] = e[i] * w[i]
  BY <1>3
<1>5. C!Weighted(d, w) = C!SumFunction(f) /\ C!Weighted(e, w) = C!SumFunction(h)
  <2>1. DOMAIN d = 1 .. n /\ DOMAIN e = 1 .. n
    BY DEF Slip, Numbers
  <2>2. QED
    BY <2>1 DEF C!Weighted
<1> HIDE DEF f, h
<1>6. /\ C!SumFunction(f) \in Nat /\ C!SumFunction(h) \in Nat
      /\ C!SumFunction(h) - C!SumFunction(f) = h[i] - f[i]
  BY <1>1, <1>2, <1>3, SumSlip
<1>7. h[i] - f[i] = (e[i] - d[i]) * w[i]
  <2>1. \A a, b, c \in Int : b * c - a * c = (b - a) * c
    OBVIOUS
  <2>2. d[i] \in 0 .. 9 /\ e[i] \in 0 .. 9
    BY SlipBy
  <2>3. w[i] \in Int
    BY <1>3
  <2>4. QED
    <3>1. d[i] \in Int /\ e[i] \in Int
      BY <2>2
    <3>2. e[i] * w[i] - d[i] * w[i] = (e[i] - d[i]) * w[i]
      BY <2>1, <2>3, <3>1, Zenon
    <3>3. QED
      BY <1>4, <3>2
<1>8. QED
  BY <1>5, <1>6, <1>7

\* Eleven is prime: a weight of less than eleven shows in the remainder.
LEMMA ElevenTells ==
  ASSUME NEW s \in Nat, NEW t \in Nat, NEW w \in 1 .. 10, NEW by \in -9 .. 9,
         by # 0, t - s = by * w
  PROVE  s % 11 # t % 11 /\ (s * 10) % 11 # (t * 10) % 11
<1>1. ASSUME NEW k \in Int PROVE by * w # 11 * k
  <2>1. \/ w = 1 \/ w = 2 \/ w = 3 \/ w = 4 \/ w = 5
        \/ w = 6 \/ w = 7 \/ w = 8 \/ w = 9 \/ w = 10
    OBVIOUS
  <2>2. QED
    BY <2>1
<1>2. ASSUME s % 11 = t % 11 PROVE FALSE
  <2>1. t - s = 11 * (t \div 11 - s \div 11) /\ t \div 11 - s \div 11 \in Int
    BY <1>2
  <2>2. QED
    BY <1>1, <2>1
<1>3. ASSUME (s * 10) % 11 = (t * 10) % 11 PROVE FALSE
  <2> DEFINE k == (t * 10) \div 11 - (s * 10) \div 11
  <2>1. t * 10 - s * 10 = 11 * k /\ k \in Int
    BY <1>3
  <2> HIDE DEF k
  <2>2. t - s = 11 * ((t - s) - k) /\ (t - s) - k \in Int
    BY <2>1
  <2>3. QED
    BY <1>1, <2>2
<1>4. QED
  BY <1>2, <1>3

\* A remainder by eleven.
LEMMA ByEleven == \A s \in Nat : s % 11 \in 0 .. 10 /\ (s * 10) % 11 \in 0 .. 10
OBVIOUS

\* The weights of a CPF, and of the others.
Falling(n) == [j \in 1 .. n |-> n + 2 - j]
Rising(n) == [j \in 1 .. n |-> 2 + ((n - j) % 8)]

\* The length of a text is its last place.
LEMMA DomainIsLen ==
  ASSUME NEW n \in Nat, NEW d, DOMAIN d = 1 .. n
  PROVE  Len(d) = n
OBVIOUS

\* Sums and weighted sums of numbers are numbers.
LEMMA SumIsNat ==
  ASSUME NEW n \in Nat, NEW f \in [1 .. n -> Nat]
  PROVE  C!SumFunction(f) \in Nat
<1>1. IsFiniteSet(1 .. n) /\ DOMAIN f = 1 .. n
  BY FS_Interval
<1>2. PICK g : Sums(g, f) /\ C!SumFunction(f) = g[1 .. n]
  BY <1>1, SumIs
<1>3. QED
  BY <1>1, <1>2, SumIsNumber

LEMMA WeightedType ==
  ASSUME NEW n \in Nat, NEW d \in Numbers(n), NEW w \in [1 .. n -> Nat]
  PROVE  C!Weighted(d, w) \in Nat
<1> DEFINE f == [j \in 1 .. n |-> d[j] * w[j]]
<1>1. f \in [1 .. n -> Nat]
  BY TermsAreNumbers
<1>2. DOMAIN d = 1 .. n
  BY DEF Numbers
<1>3. C!Weighted(d, w) = C!SumFunction(f)
  BY <1>2 DEF C!Weighted
<1> HIDE DEF f
<1>4. QED
  BY <1>1, <1>3, SumIsNat

\* The terms of mod10: every other digit is doubled.
Luhn(n, d) == [j \in 1 .. n |-> IF (n - j) % 2 = 0 THEN C!Doubled(d[j]) ELSE d[j]]

\* They are numbers.
LEMMA LuhnIsNumbers ==
  ASSUME NEW n \in Nat, NEW d \in Numbers(n)
  PROVE  Luhn(n, d) \in [1 .. n -> Nat]
<1>1. \A j \in 1 .. n : d[j] \in 0 .. 9
  BY DEF Numbers
<1>2. \A x \in 0 .. 9 : C!Doubled(x) \in Nat
  BY DEF C!Doubled
<1>3. \A j \in 1 .. n : (IF (n - j) % 2 = 0 THEN C!Doubled(d[j]) ELSE d[j]) \in Nat
  BY <1>1, <1>2
<1>4. QED
  BY <1>3 DEF Luhn

\* What the check digits are made of.
LEMMA DigitsOf ==
  ASSUME NEW n \in Nat, NEW d \in Numbers(n)
  PROVE  /\ Falling(n) \in [1 .. n -> Nat] /\ Rising(n) \in [1 .. n -> Nat]
         /\ C!CpfDigit(d)
              = IF (C!Weighted(d, Falling(n)) * 10) % 11 >= 10 THEN 0
                ELSE (C!Weighted(d, Falling(n)) * 10) % 11
         /\ C!CnpjDigit(d)
              = IF C!Weighted(d, Rising(n)) % 11 < 2 THEN 0
                ELSE 11 - (C!Weighted(d, Rising(n)) % 11)
         /\ C!mod11_bank(d)
              = IF C!Weighted(d, Rising(n)) % 11 \in {0, 1} THEN 1
                ELSE 11 - (C!Weighted(d, Rising(n)) % 11)
         /\ C!mod10(d) = (10 - (C!SumFunction(Luhn(n, d)) % 10)) % 10
<1>1. DOMAIN d = 1 .. n
  BY DEF Numbers
<1>2. Len(d) = n
  BY <1>1, DomainIsLen
<1>3. Falling(n) \in [1 .. n -> Nat]
  BY DEF Falling
<1>4. Rising(n) \in [1 .. n -> Nat]
  BY DEF Rising
<1>5. [j \in DOMAIN d |-> Len(d) + 2 - j] = Falling(n) /\ C!TwoToNine(d) = Rising(n)
  BY <1>1, <1>2 DEF Falling, Rising, C!TwoToNine
<1>6. [j \in DOMAIN d |-> IF (Len(d) - j) % 2 = 0 THEN C!Doubled(d[j]) ELSE d[j]]
        = Luhn(n, d)
  BY <1>1, <1>2 DEF Luhn
<1>7. QED
  BY <1>3, <1>4, <1>5, <1>6 DEF C!CpfDigit, C!CnpjDigit, C!mod11_bank, C!mod10

\* The check digits are digits.
LEMMA CheckDigits ==
  ASSUME NEW n \in Nat, NEW d \in Numbers(n)
  PROVE  /\ C!CpfDigit(d) \in 0 .. 9 /\ C!CnpjDigit(d) \in 0 .. 9
         /\ C!mod11_bank(d) \in 1 .. 9 /\ C!mod10(d) \in 0 .. 9
<1>1. C!Weighted(d, Falling(n)) \in Nat /\ C!Weighted(d, Rising(n)) \in Nat
  BY DigitsOf, WeightedType
<1>2. C!SumFunction(Luhn(n, d)) \in Nat
  BY LuhnIsNumbers, SumIsNat
<1>3. \A s \in Nat : s % 10 \in 0 .. 9 /\ (10 - (s % 10)) % 10 \in 0 .. 9
  OBVIOUS
<1>4. C!mod10(d) \in 0 .. 9
  BY <1>2, <1>3, DigitsOf
<1>5. \A r \in 0 .. 10 : /\ (IF r >= 10 THEN 0 ELSE r) \in 0 .. 9
                         /\ (IF r < 2 THEN 0 ELSE 11 - r) \in 0 .. 9
                         /\ (IF r \in {0, 1} THEN 1 ELSE 11 - r) \in 1 .. 9
  OBVIOUS
<1>6. /\ (C!Weighted(d, Falling(n)) * 10) % 11 \in 0 .. 10
      /\ C!Weighted(d, Rising(n)) % 11 \in 0 .. 10
  BY <1>1, ByEleven
<1>7. QED
  BY <1>4, <1>5, <1>6, DigitsOf

\* The check digit of a CPF does not miss a slip but when it is zero; and the
\* second one has no eyes for the first digit.
LEMMA CpfSlip ==
  ASSUME NEW n \in {9, 10}, NEW d, NEW e, NEW i, Slip(n, d, e, i),
         C!CpfDigit(e) = C!CpfDigit(d)
  PROVE  C!CpfDigit(d) = 0 \/ (n = 10 /\ i = 1)
<1> SUFFICES ASSUME ~(n = 10 /\ i = 1) PROVE C!CpfDigit(d) = 0
  OBVIOUS
<1>1. n \in Nat /\ i \in 1 .. n /\ d \in Numbers(n) /\ e \in Numbers(n)
      /\ e[i] - d[i] \in -9 .. 9 /\ e[i] - d[i] # 0
  BY SlipBy
<1>2. Falling(n)[i] \in 1 .. 10
  BY <1>1 DEF Falling
<1> DEFINE s == C!Weighted(d, Falling(n))
           t == C!Weighted(e, Falling(n))
<1>3. s \in Nat /\ t \in Nat /\ t - s = (e[i] - d[i]) * Falling(n)[i]
  <2>1. Falling(n) \in [1 .. n -> Nat]
    BY <1>1, DigitsOf
  <2>2. QED
    BY <1>1, <2>1, WeightedSlip
<1>4. C!CpfDigit(d) = (IF (s * 10) % 11 >= 10 THEN 0 ELSE (s * 10) % 11)
      /\ C!CpfDigit(e) = (IF (t * 10) % 11 >= 10 THEN 0 ELSE (t * 10) % 11)
  BY <1>1, DigitsOf
<1> HIDE DEF s, t
<1>5. (s * 10) % 11 # (t * 10) % 11
  BY <1>1, <1>2, <1>3, ElevenTells
<1>6. (s * 10) % 11 \in 0 .. 10 /\ (t * 10) % 11 \in 0 .. 10
  BY <1>3, ByEleven
<1>7. QED
  BY <1>4, <1>5, <1>6

\* A slip shows in what the weights 2 to 9 make.
LEMMA RisingSlip ==
  ASSUME NEW n \in Nat, NEW d, NEW e, NEW i, Slip(n, d, e, i)
  PROVE  /\ d \in Numbers(n) /\ e \in Numbers(n)
         /\ C!Weighted(d, Rising(n)) % 11 \in 0 .. 10
         /\ C!Weighted(e, Rising(n)) % 11 \in 0 .. 10
         /\ C!Weighted(d, Rising(n)) % 11 # C!Weighted(e, Rising(n)) % 11
<1>1. i \in 1 .. n /\ d \in Numbers(n) /\ e \in Numbers(n)
      /\ e[i] - d[i] \in -9 .. 9 /\ e[i] - d[i] # 0
  BY SlipBy
<1>2. Rising(n)[i] \in 1 .. 10
  BY <1>1 DEF Rising
<1> DEFINE s == C!Weighted(d, Rising(n))
           t == C!Weighted(e, Rising(n))
<1>3. s \in Nat /\ t \in Nat /\ t - s = (e[i] - d[i]) * Rising(n)[i]
  <2>1. Rising(n) \in [1 .. n -> Nat]
    BY <1>1, DigitsOf
  <2>2. QED
    BY <1>1, <2>1, WeightedSlip
<1> HIDE DEF s, t
<1>4. s % 11 # t % 11
  BY <1>1, <1>2, <1>3, ElevenTells
<1>5. s % 11 \in 0 .. 10 /\ t % 11 \in 0 .. 10
  BY <1>3, ByEleven
<1>6. QED
  BY <1>1, <1>4, <1>5 DEF s, t

\* Nor does that of a CNPJ, and the one of a bar but when it is one.
LEMMA CnpjSlip ==
  ASSUME NEW n \in Nat, NEW d, NEW e, NEW i, Slip(n, d, e, i),
         C!CnpjDigit(e) = C!CnpjDigit(d)
  PROVE  C!CnpjDigit(d) = 0
<1> DEFINE r == C!Weighted(d, Rising(n)) % 11
           q == C!Weighted(e, Rising(n)) % 11
<1>1. /\ d \in Numbers(n) /\ e \in Numbers(n)
      /\ r \in 0 .. 10 /\ q \in 0 .. 10 /\ r # q
  BY RisingSlip
<1>2. C!CnpjDigit(d) = IF r < 2 THEN 0 ELSE 11 - r
  BY <1>1, DigitsOf
<1>3. C!CnpjDigit(e) = IF q < 2 THEN 0 ELSE 11 - q
  BY <1>1, DigitsOf
<1> HIDE DEF r, q
<1>4. QED
  BY <1>1, <1>2, <1>3

LEMMA BankSlip ==
  ASSUME NEW n \in Nat, NEW d, NEW e, NEW i, Slip(n, d, e, i),
         C!mod11_bank(e) = C!mod11_bank(d)
  PROVE  C!mod11_bank(d) = 1
<1> DEFINE r == C!Weighted(d, Rising(n)) % 11
           q == C!Weighted(e, Rising(n)) % 11
<1>1. /\ d \in Numbers(n) /\ e \in Numbers(n)
      /\ r \in 0 .. 10 /\ q \in 0 .. 10 /\ r # q
  BY RisingSlip
<1>2. C!mod11_bank(d) = IF r \in {0, 1} THEN 1 ELSE 11 - r
  BY <1>1, DigitsOf
<1>3. C!mod11_bank(e) = IF q \in {0, 1} THEN 1 ELSE 11 - q
  BY <1>1, DigitsOf
<1> HIDE DEF r, q
<1>4. QED
  BY <1>1, <1>2, <1>3

\* That of a field misses none.
LEMMA Mod10Slip ==
  ASSUME NEW n \in Nat, NEW d, NEW e, NEW i, Slip(n, d, e, i)
  PROVE  C!mod10(e) # C!mod10(d)
<1>1. i \in 1 .. n /\ d \in Numbers(n) /\ e \in Numbers(n)
      /\ d[i] \in 0 .. 9 /\ e[i] \in 0 .. 9 /\ e[i] # d[i]
  BY SlipBy DEF Slip
<1> DEFINE f == Luhn(n, d)
           h == Luhn(n, e)
           s == C!SumFunction(f)
           t == C!SumFunction(h)
<1>2. f \in [1 .. n -> Nat] /\ h \in [1 .. n -> Nat]
  BY <1>1, LuhnIsNumbers
<1>3. \A j \in 1 .. n \ {i} : h[j] = f[j]
  BY DEF Slip, Luhn
<1>4. f[i] \in 0 .. 9 /\ h[i] \in 0 .. 9 /\ h[i] # f[i]
  <2>1. \A x, y \in 0 .. 9 :
           /\ C!Doubled(x) \in 0 .. 9
           /\ x # y => C!Doubled(x) # C!Doubled(y)
    BY DEF C!Doubled
  <2>2. /\ f[i] = IF (n - i) % 2 = 0 THEN C!Doubled(d[i]) ELSE d[i]
        /\ h[i] = IF (n - i) % 2 = 0 THEN C!Doubled(e[i]) ELSE e[i]
    BY <1>1 DEF Luhn
  <2>3. QED
    BY <1>1, <2>1, <2>2
<1> HIDE DEF f, h
<1>5. s \in Nat /\ t \in Nat /\ t - s = h[i] - f[i]
  <2>1. IsFiniteSet(1 .. n) /\ i \in 1 .. n
    BY <1>1, FS_Interval
  <2> HIDE DEF s, t
  <2>2. /\ C!SumFunction(f) \in Nat /\ C!SumFunction(h) \in Nat
        /\ C!SumFunction(h) - C!SumFunction(f) = h[i] - f[i]
    BY <1>2, <1>3, <2>1, SumSlip
  <2>3. QED
    BY <2>2 DEF s, t
<1>6. C!mod10(d) = (10 - (s % 10)) % 10 /\ C!mod10(e) = (10 - (t % 10)) % 10
  BY <1>1, DigitsOf DEF f, h
<1> HIDE DEF s, t
<1>7. t - s \in -9 .. 9 /\ t - s # 0
  BY <1>4, <1>5
<1>8. s % 10 # t % 10
  BY <1>5, <1>7
<1>9. s % 10 \in 0 .. 9 /\ t % 10 \in 0 .. 9
  BY <1>5
<1>10. QED
  BY <1>6, <1>8, <1>9
-----------------------------------------------------------------------------
(* Slips in numbers that are right.                                        *)

\* Numbers are texts, and texts of digits are numbers.
LEMMA NumberIs ==
  ASSUME NEW n \in Nat, NEW d \in Numbers(n)
  PROVE  /\ d \in Seq(0 .. 9) /\ Len(d) = n /\ DOMAIN d = 1 .. n
         /\ \A j \in 1 .. n : d[j] \in 0 .. 9
<1>1. DOMAIN d = 1 .. n /\ d \in Seq(0 .. 9) /\ \A j \in 1 .. n : d[j] \in 0 .. 9
  BY DEF Numbers
<1>2. QED
  BY <1>1, DomainIsLen

LEMMA IsNumber ==
  ASSUME NEW n \in Nat, NEW d \in Seq(0 .. 9), Len(d) = n
  PROVE  d \in Numbers(n)
BY DEF Numbers

\* Numbers of the same digits are the same.
LEMMA SameNumber ==
  ASSUME NEW n \in Nat, NEW d \in Numbers(n), NEW e \in Numbers(n),
         \A j \in 1 .. n : e[j] = d[j]
  PROVE  e = d
BY DEF Numbers

\* A part of a number is a number.
LEMMA Slice ==
  ASSUME NEW N \in Nat, NEW d \in Numbers(N),
         NEW first \in 1 .. N, NEW last \in first .. N
  PROVE  /\ SubSeq(d, first, last) \in Numbers(last - first + 1)
         /\ \A j \in 1 .. last - first + 1 :
               SubSeq(d, first, last)[j] = d[first + j - 1]
<1>1. d \in Seq(0 .. 9) /\ Len(d) = N
  BY NumberIs
<1>2. /\ SubSeq(d, first, last) \in Seq(0 .. 9)
      /\ Len(SubSeq(d, first, last)) = last - first + 1
      /\ \A j \in 1 .. last - first + 1 :
            SubSeq(d, first, last)[j] = d[first + j - 1]
  BY <1>1
<1>3. SubSeq(d, first, last) \in Numbers(last - first + 1)
  <2> DEFINE s == SubSeq(d, first, last)
  <2>1. last - first + 1 \in Nat /\ s \in Seq(0 .. 9) /\ Len(s) = last - first + 1
    BY <1>2
  <2> HIDE DEF s
  <2>2. s \in Numbers(last - first + 1)
    BY <2>1, IsNumber
  <2>3. QED
    BY <2>2 DEF s
<1>4. QED
  BY <1>2, <1>3

\* A part with the slip in it has slipped, any other is the same.
LEMMA SliceSlip ==
  ASSUME NEW N \in Nat, NEW d, NEW e, NEW i, Slip(N, d, e, i),
         NEW first \in 1 .. N, NEW last \in first .. N
  PROVE  /\ i \in first .. last
              => Slip(last - first + 1, SubSeq(d, first, last), SubSeq(e, first, last),
                      i - first + 1)
         /\ i \notin first .. last => SubSeq(e, first, last) = SubSeq(d, first, last)
<1> DEFINE n == last - first + 1
           p == SubSeq(d, first, last)
           q == SubSeq(e, first, last)
<1>1. /\ n \in Nat /\ i \in 1 .. N /\ d \in Numbers(N) /\ e \in Numbers(N)
      /\ e[i] # d[i] /\ \A j \in 1 .. N \ {i} : e[j] = d[j]
  BY DEF Slip
<1>2. p \in Numbers(n) /\ \A j \in 1 .. n : p[j] = d[first + j - 1]
  BY <1>1, Slice
<1>3. q \in Numbers(n) /\ \A j \in 1 .. n : q[j] = e[first + j - 1]
  BY <1>1, Slice
<1>4. \A j \in 1 .. n : first + j - 1 \in 1 .. N
  OBVIOUS
<1> HIDE DEF p, q
<1>5. ASSUME i \in first .. last PROVE Slip(n, p, q, i - first + 1)
  <2>1. i - first + 1 \in 1 .. n /\ first + (i - first + 1) - 1 = i
    BY <1>5
  <2>2. q[i - first + 1] # p[i - first + 1]
    BY <1>1, <1>2, <1>3, <2>1
  <2>3. \A j \in 1 .. n \ {i - first + 1} : first + j - 1 \in 1 .. N \ {i}
    BY <1>4, <1>5
  <2>4. \A j \in 1 .. n \ {i - first + 1} : q[j] = p[j]
    BY <1>1, <1>2, <1>3, <2>3
  <2>5. QED
    BY <1>2, <1>3, <2>1, <2>2, <2>4 DEF Slip
<1>6. ASSUME i \notin first .. last PROVE q = p
  <2>1. \A j \in 1 .. n : first + j - 1 \in 1 .. N \ {i}
    BY <1>4, <1>6
  <2>2. \A j \in 1 .. n : q[j] = p[j]
    BY <1>1, <1>2, <1>3, <2>1
  <2> HIDE DEF n
  <2>3. QED
    BY <1>1, <1>2, <1>3, <2>2, SameNumber
<1>7. QED
  BY <1>5, <1>6 DEF p, q

\* No slip passes in a field that mod10 guards, nor in its check digit.
LEMMA FieldSlip ==
  ASSUME NEW N \in Nat, NEW d, NEW e, NEW i, Slip(N, d, e, i),
         NEW first \in 1 .. N, NEW last \in first .. N - 1,
         C!Field(d, first, last), C!Field(e, first, last)
  PROVE  i \notin first .. last + 1
<1> SUFFICES ASSUME i \in first .. last + 1 PROVE FALSE
  OBVIOUS
<1>1. /\ last \in first .. N /\ last + 1 \in 1 .. N /\ last - first + 1 \in Nat
      /\ e[i] # d[i] /\ \A j \in 1 .. N \ {i} : e[j] = d[j]
  BY DEF Slip
<1>2. /\ C!mod10(SubSeq(d, first, last)) = d[last + 1]
      /\ C!mod10(SubSeq(e, first, last)) = e[last + 1]
  BY DEF C!Field
<1>3. CASE i \in first .. last
  <2>1. Slip(last - first + 1, SubSeq(d, first, last), SubSeq(e, first, last),
             i - first + 1)
    BY <1>1, <1>3, SliceSlip
  <2>2. C!mod10(SubSeq(e, first, last)) # C!mod10(SubSeq(d, first, last))
    BY <1>1, <2>1, Mod10Slip
  <2>3. last + 1 \in 1 .. N \ {i}
    BY <1>1, <1>3
  <2>4. QED
    BY <1>1, <1>2, <2>2, <2>3
<1>4. CASE i = last + 1
  <2>1. i \notin first .. last
    BY <1>4
  <2>2. SubSeq(e, first, last) = SubSeq(d, first, last)
    BY <1>1, <2>1, SliceSlip
  <2>3. QED
    BY <1>1, <1>2, <1>4, <2>2
<1>5. QED
  BY <1>3, <1>4

\* Any other digit makes a slip.
LEMMA OtherDigit ==
  ASSUME NEW N \in Nat, NEW d \in Numbers(N), NEW i \in 1 .. N,
         NEW digit \in 0 .. 9 \ {d[i]}
  PROVE  Slip(N, d, [d EXCEPT ![i] = digit], i) /\ [d EXCEPT ![i] = digit][i] = digit
BY DEF Slip, Numbers
-----------------------------------------------------------------------------
(* Slips in each kind of number.                                           *)

\* What TyposAreCaught says of a number of a kind.
Caught(k, d) ==
  LET right == C!Completed(k, d) IN
  /\ C!Repeated(right) \/ C!Accepts(k, right)
  /\ \A i \in DOMAIN right : \A digit \in 0 .. 9 \ {right[i]} :
       C!Accepts(k, [right EXCEPT ![i] = digit]) => C!Unguarded(k, right, i, digit)

\* Any other number that differs in a digit is a slip.
LEMMA CaughtIf ==
  ASSUME NEW k, NEW d, NEW N \in Nat, NEW r \in Numbers(N), r = C!Completed(k, d),
         C!Repeated(r) \/ C!Accepts(k, r),
         \A i, e : Slip(N, r, e, i) /\ C!Accepts(k, e) => C!Unguarded(k, r, i, e[i])
  PROVE  Caught(k, d)
<1>1. DOMAIN r = 1 .. N
  BY NumberIs
<1>2. ASSUME NEW i \in 1 .. N, NEW digit \in 0 .. 9 \ {r[i]},
             C!Accepts(k, [r EXCEPT ![i] = digit])
      PROVE  C!Unguarded(k, r, i, digit)
  <2>1. Slip(N, r, [r EXCEPT ![i] = digit], i) /\ [r EXCEPT ![i] = digit][i] = digit
    BY OtherDigit
  <2>2. QED
    BY <1>2, <2>1
<1>3. QED
  BY <1>1, <1>2 DEF Caught

\* The same, of the first digits.
LEMMA PrefixSlip ==
  ASSUME NEW N \in Nat, NEW d, NEW e, NEW i, Slip(N, d, e, i), NEW n \in 1 .. N
  PROVE  /\ i \in 1 .. n => Slip(n, SubSeq(d, 1, n), SubSeq(e, 1, n), i)
         /\ i \notin 1 .. n => SubSeq(e, 1, n) = SubSeq(d, 1, n)
<1>1. 1 \in 1 .. N /\ n \in 1 .. N /\ n - 1 + 1 = n
  OBVIOUS
<1>2. /\ i \in 1 .. n
           => Slip(n - 1 + 1, SubSeq(d, 1, n), SubSeq(e, 1, n), i - 1 + 1)
      /\ i \notin 1 .. n => SubSeq(e, 1, n) = SubSeq(d, 1, n)
  BY <1>1, SliceSlip
<1>3. i \in 1 .. N /\ i - 1 + 1 = i
  BY DEF Slip
<1>4. QED
  BY <1>1, <1>2, <1>3

\* Two digits more.
LEMMA TwoAdded ==
  ASSUME NEW d \in Seq(0 .. 9), d # <<>>, NEW x \in 0 .. 9, NEW y \in 0 .. 9
  PROVE  LET e == Append(d, x)
             r == Append(e, y)
             n == Len(d) IN
         /\ r \in Seq(0 .. 9) /\ Len(r) = n + 2
         /\ SubSeq(r, 1, n) = d /\ SubSeq(r, 1, n + 1) = e
         /\ r[n + 1] = x /\ r[n + 2] = y
<1> DEFINE e == Append(d, x)
           r == Append(e, y)
           n == Len(d)
<1>1. n \in Nat \ {0}
  OBVIOUS
<1>2. /\ e \in Seq(0 .. 9) /\ Len(e) = n + 1 /\ e[n + 1] = x
      /\ \A j \in 1 .. n : e[j] = d[j]
  BY <1>1
<1> HIDE DEF e
<1>3. /\ r \in Seq(0 .. 9) /\ Len(r) = n + 2 /\ r[n + 2] = y
      /\ \A j \in 1 .. n + 1 : r[j] = e[j]
  BY <1>2
<1> HIDE DEF r
<1>4. SubSeq(r, 1, n) = d
  <2>1. /\ SubSeq(r, 1, n) \in Seq(0 .. 9) /\ Len(SubSeq(r, 1, n)) = n
        /\ \A j \in 1 .. n : SubSeq(r, 1, n)[j] = d[j]
    BY <1>2, <1>3
  <2>2. QED
    BY <1>1, <2>1, SeqEqual
<1>5. SubSeq(r, 1, n + 1) = e
  <2>1. /\ SubSeq(r, 1, n + 1) \in Seq(0 .. 9) /\ Len(SubSeq(r, 1, n + 1)) = n + 1
        /\ \A j \in 1 .. n + 1 : SubSeq(r, 1, n + 1)[j] = e[j]
    BY <1>3
  <2>2. QED
    BY <1>2, <2>1, SeqEqual
<1>6. r[n + 1] = x
  BY <1>2, <1>3
<1>7. QED
  BY <1>3, <1>4, <1>5, <1>6 DEF e, r

\* A slip in a number with two check digits.
LEMMA DocumentSlip ==
  ASSUME NEW n \in Nat \ {0}, NEW m \in Nat, NEW N \in Nat, m = n + 1, N = m + 1,
         NEW r, NEW e, NEW i, Slip(N, r, e, i)
  PROVE  \/ /\ e[N] # r[N] /\ SubSeq(e, 1, m) = SubSeq(r, 1, m)
         \/ /\ e[m] # r[m] /\ SubSeq(e, 1, n) = SubSeq(r, 1, n)
         \/ /\ e[m] = r[m] /\ e[N] = r[N]
            /\ Slip(n, SubSeq(r, 1, n), SubSeq(e, 1, n), i)
            /\ Slip(m, SubSeq(r, 1, m), SubSeq(e, 1, m), i)
<1>1. i \in 1 .. N /\ e[i] # r[i] /\ \A j \in 1 .. N \ {i} : e[j] = r[j]
  BY DEF Slip
<1>2. n \in 1 .. N /\ m \in 1 .. N /\ N \in 1 .. N
  OBVIOUS
<1>3. CASE i = N
  <2>1. i \notin 1 .. m
    BY <1>3
  <2>2. QED
    BY <1>1, <1>2, <1>3, <2>1, PrefixSlip
<1>4. CASE i = m
  <2>1. i \notin 1 .. n
    BY <1>4
  <2>2. QED
    BY <1>1, <1>2, <1>4, <2>1, PrefixSlip
<1>5. CASE i \in 1 .. n
  <2>1. i \in 1 .. m /\ m \in 1 .. N \ {i} /\ N \in 1 .. N \ {i}
    BY <1>5
  <2>2. Slip(n, SubSeq(r, 1, n), SubSeq(e, 1, n), i)
    BY <1>2, <1>5, PrefixSlip
  <2>3. Slip(m, SubSeq(r, 1, m), SubSeq(e, 1, m), i)
    BY <1>2, <2>1, PrefixSlip
  <2>4. QED
    BY <1>1, <2>1, <2>2, <2>3
<1>6. QED
  BY <1>1, <1>3, <1>4, <1>5

\* A CPF: the slip shows in both check digits, unless each is zero or, in the
\* second, the slip is in the first digit.
LEMMA CpfCaught == ASSUME NEW d \in Numbers(9) PROVE Caught("cpf", d)
<1> DEFINE x == C!CpfDigit(d)
           e == Append(d, x)
           y == C!CpfDigit(e)
           r == Append(e, y)
<1>1. 9 \in Nat \ {0} /\ 10 \in Nat /\ 11 \in Nat /\ 10 = 9 + 1 /\ 11 = 10 + 1 /\ 11 = 9 + 2
  OBVIOUS
<1>2. r = C!Completed("cpf", d)
  BY DEF C!Completed
<1> HIDE DEF r
<1>3. x \in 0 .. 9
  BY <1>1, CheckDigits
<1> HIDE DEF x
<1>4. e \in Numbers(10)
  <2>1. d \in Seq(0 .. 9)
    BY <1>1, NumberIs
  <2>2. e \in Seq(0 .. 9) /\ Len(e) = Len(d) + 1
    BY <1>3, <2>1
  <2> HIDE DEF e
  <2>3. Len(d) = 9
    BY <1>1, NumberIs
  <2>4. QED
    BY <1>1, <2>2, <2>3, IsNumber
<1> HIDE DEF e
<1>5. y \in 0 .. 9
  BY <1>1, <1>4, CheckDigits
<1> HIDE DEF y
<1>6. /\ r \in Numbers(11) /\ SubSeq(r, 1, 9) = d /\ SubSeq(r, 1, 10) = e
      /\ r[10] = x /\ r[11] = y
  <2>1. d \in Seq(0 .. 9)
    BY <1>1, NumberIs
  <2>2. Len(d) = 9
    BY <1>1, NumberIs
  <2>3. d # <<>>
    BY <2>2
  <2>4. /\ r \in Seq(0 .. 9) /\ Len(r) = Len(d) + 2
        /\ SubSeq(r, 1, Len(d)) = d /\ SubSeq(r, 1, Len(d) + 1) = e
        /\ r[Len(d) + 1] = x /\ r[Len(d) + 2] = y
    BY <1>3, <1>5, <2>1, <2>3, TwoAdded DEF e, r
  <2>5. Len(d) + 1 = 10 /\ Len(d) + 2 = 11
    BY <2>2
  <2>6. QED
    BY <1>1, <2>2, <2>4, <2>5, IsNumber
<1>7. /\ Len(r) = 11 /\ C!CpfDigit(SubSeq(r, 1, 9)) = r[10]
      /\ C!CpfDigit(SubSeq(r, 1, 10)) = r[11]
  BY <1>6, NumberIs DEF x, y
<1>8. C!Repeated(r) \/ C!Accepts("cpf", r)
  BY <1>7 DEF C!Accepts, C!validate_cpf
<1>9. ASSUME NEW i, NEW f, Slip(11, r, f, i), C!Accepts("cpf", f)
      PROVE  C!Unguarded("cpf", r, i, f[i])
  <2>1. /\ C!CpfDigit(SubSeq(f, 1, 9)) = f[10]
        /\ C!CpfDigit(SubSeq(f, 1, 10)) = f[11]
    BY <1>9 DEF C!Accepts, C!validate_cpf
  <2>2. \/ f[11] # r[11] /\ SubSeq(f, 1, 10) = SubSeq(r, 1, 10)
        \/ f[10] # r[10] /\ SubSeq(f, 1, 9) = SubSeq(r, 1, 9)
        \/ /\ f[10] = r[10] /\ f[11] = r[11]
           /\ Slip(9, SubSeq(r, 1, 9), SubSeq(f, 1, 9), i)
           /\ Slip(10, SubSeq(r, 1, 10), SubSeq(f, 1, 10), i)
    BY <1>1, <1>9, DocumentSlip
  <2>3. /\ f[10] = r[10] /\ f[11] = r[11]
        /\ Slip(9, SubSeq(r, 1, 9), SubSeq(f, 1, 9), i)
        /\ Slip(10, SubSeq(r, 1, 10), SubSeq(f, 1, 10), i)
    BY <1>7, <2>1, <2>2
  <2>4. C!CpfDigit(SubSeq(f, 1, 9)) = C!CpfDigit(SubSeq(r, 1, 9))
        /\ C!CpfDigit(SubSeq(f, 1, 10)) = C!CpfDigit(SubSeq(r, 1, 10))
    BY <1>7, <2>1, <2>3
  <2>5. r[10] = 0
    BY <1>1, <1>7, <2>3, <2>4, CpfSlip
  <2>6. r[11] = 0 \/ i = 1
    BY <1>1, <1>7, <2>3, <2>4, CpfSlip
  <2>7. QED
    BY <2>5, <2>6 DEF C!Unguarded
<1>10. QED
  BY <1>1, <1>2, <1>6, <1>8, <1>9, CaughtIf

\* A CNPJ: both check digits see every digit, unless each is zero.
LEMMA CnpjCaught == ASSUME NEW d \in Numbers(12) PROVE Caught("cnpj", d)
<1> DEFINE x == C!CnpjDigit(d)
           e == Append(d, x)
           y == C!CnpjDigit(e)
           r == Append(e, y)
<1>1. 12 \in Nat \ {0} /\ 13 \in Nat /\ 14 \in Nat /\ 13 = 12 + 1 /\ 14 = 13 + 1 /\ 14 = 12 + 2
  OBVIOUS
<1>2. r = C!Completed("cnpj", d)
  BY DEF C!Completed
<1> HIDE DEF r
<1>3. x \in 0 .. 9
  BY <1>1, CheckDigits
<1> HIDE DEF x
<1>4. e \in Numbers(13)
  <2>1. d \in Seq(0 .. 9)
    BY <1>1, NumberIs
  <2>2. e \in Seq(0 .. 9) /\ Len(e) = Len(d) + 1
    BY <1>3, <2>1
  <2> HIDE DEF e
  <2>3. Len(d) = 12
    BY <1>1, NumberIs
  <2>4. QED
    BY <1>1, <2>2, <2>3, IsNumber
<1> HIDE DEF e
<1>5. y \in 0 .. 9
  BY <1>1, <1>4, CheckDigits
<1> HIDE DEF y
<1>6. /\ r \in Numbers(14) /\ SubSeq(r, 1, 12) = d /\ SubSeq(r, 1, 13) = e
      /\ r[13] = x /\ r[14] = y
  <2>1. d \in Seq(0 .. 9)
    BY <1>1, NumberIs
  <2>2. Len(d) = 12
    BY <1>1, NumberIs
  <2>3. d # <<>>
    BY <2>2
  <2>4. /\ r \in Seq(0 .. 9) /\ Len(r) = Len(d) + 2
        /\ SubSeq(r, 1, Len(d)) = d /\ SubSeq(r, 1, Len(d) + 1) = e
        /\ r[Len(d) + 1] = x /\ r[Len(d) + 2] = y
    BY <1>3, <1>5, <2>1, <2>3, TwoAdded DEF e, r
  <2>5. Len(d) + 1 = 13 /\ Len(d) + 2 = 14
    BY <2>2
  <2>6. QED
    BY <1>1, <2>2, <2>4, <2>5, IsNumber
<1>7. /\ Len(r) = 14 /\ C!CnpjDigit(SubSeq(r, 1, 12)) = r[13]
      /\ C!CnpjDigit(SubSeq(r, 1, 13)) = r[14]
  BY <1>6, NumberIs DEF x, y
<1>8. C!Repeated(r) \/ C!Accepts("cnpj", r)
  BY <1>7 DEF C!Accepts, C!validate_cnpj
<1>9. ASSUME NEW i, NEW f, Slip(14, r, f, i), C!Accepts("cnpj", f)
      PROVE  C!Unguarded("cnpj", r, i, f[i])
  <2>1. /\ C!CnpjDigit(SubSeq(f, 1, 12)) = f[13]
        /\ C!CnpjDigit(SubSeq(f, 1, 13)) = f[14]
    BY <1>9 DEF C!Accepts, C!validate_cnpj
  <2>2. \/ f[14] # r[14] /\ SubSeq(f, 1, 13) = SubSeq(r, 1, 13)
        \/ f[13] # r[13] /\ SubSeq(f, 1, 12) = SubSeq(r, 1, 12)
        \/ /\ f[13] = r[13] /\ f[14] = r[14]
           /\ Slip(12, SubSeq(r, 1, 12), SubSeq(f, 1, 12), i)
           /\ Slip(13, SubSeq(r, 1, 13), SubSeq(f, 1, 13), i)
    BY <1>1, <1>9, DocumentSlip
  <2>3. /\ f[13] = r[13] /\ f[14] = r[14]
        /\ Slip(12, SubSeq(r, 1, 12), SubSeq(f, 1, 12), i)
        /\ Slip(13, SubSeq(r, 1, 13), SubSeq(f, 1, 13), i)
    BY <1>7, <2>1, <2>2
  <2>4. C!CnpjDigit(SubSeq(f, 1, 12)) = C!CnpjDigit(SubSeq(r, 1, 12))
        /\ C!CnpjDigit(SubSeq(f, 1, 13)) = C!CnpjDigit(SubSeq(r, 1, 13))
    BY <1>7, <2>1, <2>3
  <2>5. r[13] = 0
    BY <1>1, <1>7, <2>3, <2>4, CnpjSlip
  <2>6. r[14] = 0
    BY <1>1, <1>7, <2>3, <2>4, CnpjSlip
  <2>7. QED
    BY <2>5, <2>6 DEF C!Unguarded
<1>10. QED
  BY <1>1, <1>2, <1>6, <1>8, <1>9, CaughtIf

\* A digit less.
LEMMA Removed ==
  ASSUME NEW d \in Seq(0 .. 9), NEW p \in 1 .. Len(d)
  PROVE  /\ C!RemoveAt(d, p) \in Seq(0 .. 9) /\ Len(C!RemoveAt(d, p)) = Len(d) - 1
         /\ \A j \in 1 .. Len(d) - 1 :
               C!RemoveAt(d, p)[j] = IF j < p THEN d[j] ELSE d[j + 1]
<1> DEFINE N == Len(d)
           a == SubSeq(d, 1, p - 1)
           b == SubSeq(d, p + 1, N)
<1>1. N \in Nat
  OBVIOUS
<1>2. C!RemoveAt(d, p) = a \o b
  BY <1>1 DEF C!RemoveAt
<1>3. /\ a \in Seq(0 .. 9) /\ Len(a) = p - 1
      /\ \A j \in 1 .. p - 1 : a[j] = d[j]
  BY <1>1
<1>4. /\ b \in Seq(0 .. 9) /\ Len(b) = N - p
      /\ \A j \in 1 .. N - p : b[j] = d[j + p]
  BY <1>1
<1> HIDE DEF a, b
<1>5. a \o b \in Seq(0 .. 9) /\ Len(a \o b) = N - 1
  <2>1. a \o b \in Seq(0 .. 9) /\ Len(a \o b) = Len(a) + Len(b)
    <3>1. a \in Seq(0 .. 9) /\ b \in Seq(0 .. 9)
      BY <1>3, <1>4
    <3>2. QED
      BY <3>1
  <2>2. Len(a) + Len(b) = N - 1
    BY <1>3, <1>4
  <2>3. QED
    BY <2>1, <2>2
<1>6. ASSUME NEW j \in 1 .. N - 1
      PROVE  (a \o b)[j] = IF j < p THEN d[j] ELSE d[j + 1]
  <2>1. CASE j < p
    BY <1>3, <1>4, <2>1
  <2>2. CASE ~(j < p)
    <3>1. (a \o b)[j] = b[j - (p - 1)]
      BY <1>3, <1>4, <2>2
    <3>2. j - (p - 1) \in 1 .. N - p /\ (j - (p - 1)) + p = j + 1
      BY <2>2
    <3>3. QED
      BY <1>4, <2>2, <3>1, <3>2
  <2>3. QED
    BY <2>1, <2>2
<1>7. QED
  BY <1>2, <1>5, <1>6

\* A slip in another digit stays, one in this digit goes.
LEMMA RemovedSlip ==
  ASSUME NEW N \in Nat, NEW d, NEW e, NEW i, Slip(N, d, e, i), NEW p \in 1 .. N
  PROVE  \/ i = p /\ C!RemoveAt(e, p) = C!RemoveAt(d, p)
         \/ i # p /\ Slip(N - 1, C!RemoveAt(d, p), C!RemoveAt(e, p),
                           IF i < p THEN i ELSE i - 1)
<1> DEFINE n == N - 1
           a == C!RemoveAt(d, p)
           b == C!RemoveAt(e, p)
           k == IF i < p THEN i ELSE i - 1
<1>1. /\ i \in 1 .. N /\ d \in Numbers(N) /\ e \in Numbers(N)
      /\ e[i] # d[i] /\ \A j \in 1 .. N \ {i} : e[j] = d[j]
  BY DEF Slip
<1>2. /\ a \in Seq(0 .. 9) /\ Len(a) = n
      /\ \A j \in 1 .. n : a[j] = IF j < p THEN d[j] ELSE d[j + 1]
  <2>1. d \in Seq(0 .. 9) /\ Len(d) = N
    BY <1>1, NumberIs
  <2>2. QED
    BY <2>1, Removed
<1>3. /\ b \in Seq(0 .. 9) /\ Len(b) = n
      /\ \A j \in 1 .. n : b[j] = IF j < p THEN e[j] ELSE e[j + 1]
  <2>1. e \in Seq(0 .. 9) /\ Len(e) = N
    BY <1>1, NumberIs
  <2>2. QED
    BY <2>1, Removed
<1> HIDE DEF a, b
<1>4. n \in Nat /\ \A j \in 1 .. n : j \in 1 .. N /\ j + 1 \in 1 .. N
  OBVIOUS
<1>5. a \in Numbers(n) /\ b \in Numbers(n)
  <2> HIDE DEF n
  <2>1. QED
    BY <1>2, <1>3, <1>4, IsNumber
<1>6. CASE i = p
  <2>1. \A j \in 1 .. n : b[j] = a[j]
    BY <1>1, <1>2, <1>3, <1>4, <1>6
  <2> HIDE DEF n
  <2>2. QED
    BY <1>4, <1>5, <1>6, <2>1, SameNumber DEF a, b
<1>7. CASE i # p
  <2>1. k \in 1 .. n /\ b[k] # a[k]
    BY <1>1, <1>2, <1>3, <1>7
  <2>2. \A j \in 1 .. n \ {k} : b[j] = a[j]
    BY <1>1, <1>2, <1>3, <1>4, <1>7
  <2>3. Slip(n, a, b, k)
    BY <1>5, <2>1, <2>2 DEF Slip
  <2>4. QED
    BY <1>7, <2>3 DEF a, b
<1>8. QED
  BY <1>6, <1>7

\* A digit put in, and taken out again.
LEMMA Inserted ==
  ASSUME NEW d \in Seq(0 .. 9), NEW p \in 1 .. Len(d), NEW x \in 0 .. 9
  PROVE  LET r == SubSeq(d, 1, p - 1) \o <<x>> \o SubSeq(d, p, Len(d)) IN
         /\ r \in Seq(0 .. 9) /\ Len(r) = Len(d) + 1
         /\ r[p] = x /\ C!RemoveAt(r, p) = d
<1> DEFINE n == Len(d)
           a == SubSeq(d, 1, p - 1)
           b == SubSeq(d, p, n)
           c == a \o <<x>>
           r == c \o b
<1>1. n \in Nat
  OBVIOUS
<1>2. /\ a \in Seq(0 .. 9) /\ Len(a) = p - 1
      /\ \A j \in 1 .. p - 1 : a[j] = d[j]
  OBVIOUS
<1>3. /\ b \in Seq(0 .. 9) /\ Len(b) = n - p + 1
      /\ \A j \in 1 .. n - p + 1 : b[j] = d[j + p - 1]
  <2>1. p \in 1 .. n + 1 /\ n \in p - 1 .. n
    BY <1>1
  <2>2. /\ b \in Seq(0 .. 9) /\ Len(b) = n - p + 1
        /\ \A j \in 1 .. n - p + 1 : b[j] = d[p + j - 1]
    BY <2>1, TextPart
  <2> HIDE DEF b
  <2>3. \A j \in 1 .. n - p + 1 : p + j - 1 = j + p - 1
    OBVIOUS
  <2>4. QED
    BY <2>2, <2>3
<1> HIDE DEF a, b
<1>4. c \in Seq(0 .. 9) /\ Len(c) = Len(a) + 1 /\ c[Len(a) + 1] = x
      /\ \A j \in 1 .. Len(a) : c[j] = a[j]
  <2>1. a \in Seq(0 .. 9) /\ <<x>> \in Seq(0 .. 9) /\ Len(<<x>>) = 1 /\ <<x>>[1] = x
    BY <1>2
  <2>2. QED
    BY <2>1, TextsJoined
<1> HIDE DEF c
<1>5. /\ r \in Seq(0 .. 9) /\ Len(r) = Len(c) + Len(b)
      /\ \A j \in 1 .. Len(c) : r[j] = c[j]
      /\ \A j \in Len(c) + 1 .. Len(c) + Len(b) : r[j] = b[j - Len(c)]
  <2>1. c \in Seq(0 .. 9) /\ b \in Seq(0 .. 9)
    BY <1>3, <1>4
  <2>2. QED
    BY <2>1, TextsJoined
<1> HIDE DEF r
<1>6. Len(c) = p /\ Len(r) = n + 1 /\ c[p] = x /\ \A j \in 1 .. p - 1 : c[j] = d[j]
  BY <1>2, <1>3, <1>4, <1>5
<1>7. r[p] = x
  BY <1>5, <1>6
<1>8. \A j \in p + 1 .. n + 1 : r[j] = d[j - 1]
  <2>1. \A j \in p + 1 .. n + 1 : r[j] = b[j - p]
    BY <1>3, <1>5, <1>6
  <2>2. \A j \in p + 1 .. n + 1 : j - p \in 1 .. n - p + 1 /\ (j - p) + p - 1 = j - 1
    BY <1>1
  <2>3. QED
    BY <1>3, <2>1, <2>2
<1>9. C!RemoveAt(r, p) = d
  <2>1. /\ C!RemoveAt(r, p) \in Seq(0 .. 9) /\ Len(C!RemoveAt(r, p)) = Len(r) - 1
        /\ \A j \in 1 .. Len(r) - 1 : C!RemoveAt(r, p)[j] = IF j < p THEN r[j] ELSE r[j + 1]
    <3>1. p \in 1 .. Len(r)
      BY <1>1, <1>6
    <3>2. QED
      BY <1>5, <3>1, Removed
  <2>2. \A j \in 1 .. n : C!RemoveAt(r, p)[j] = d[j]
    <3>1. TAKE j \in 1 .. n
    <3>2. CASE j < p
      <4>1. C!RemoveAt(r, p)[j] = r[j]
        BY <1>1, <1>6, <2>1, <3>2
      <4>2. j \in 1 .. Len(c) /\ j \in 1 .. p - 1
        BY <1>1, <1>6, <3>2
      <4>3. QED
        BY <1>5, <1>6, <4>1, <4>2
    <3>3. CASE ~(j < p)
      <4>1. C!RemoveAt(r, p)[j] = r[j + 1]
        BY <1>1, <1>6, <2>1, <3>3
      <4>2. j + 1 \in p + 1 .. n + 1 /\ (j + 1) - 1 = j
        BY <1>1, <3>3
      <4>3. QED
        BY <1>8, <4>1, <4>2
    <3>4. QED
      BY <3>2, <3>3
  <2>3. Len(C!RemoveAt(r, p)) = n
    BY <1>1, <1>6, <2>1
  <2>4. QED
    BY <2>1, <2>2, <2>3, SeqEqual
<1>10. QED
  BY <1>5, <1>6, <1>7, <1>9 DEF r, c, a, b

\* The bar of a boleto: the verifier sees every digit, unless it is one.
LEMMA BarCaught == ASSUME NEW d \in Numbers(43) PROVE Caught("bar", d)
<1> DEFINE x == C!mod11_bank(d)
           r == SubSeq(d, 1, 4) \o <<x>> \o SubSeq(d, 5, 43)
<1>1. r = C!Completed("bar", d)
  BY DEF C!Completed
<1>2. x \in 0 .. 9
  <2>1. 43 \in Nat
    OBVIOUS
  <2>2. x \in 1 .. 9
    BY <2>1, CheckDigits
  <2> HIDE DEF x
  <2>3. QED
    BY <2>2
<1> HIDE DEF x
<1>6. /\ 44 \in Nat /\ 5 \in 1 .. 44 /\ 43 = 44 - 1 /\ 43 \in Nat /\ 44 = 43 + 1
      /\ 5 \in 1 .. 43 /\ 5 - 1 = 4
  OBVIOUS
<1>7. r \in Numbers(44) /\ r[5] = x /\ C!RemoveAt(r, 5) = d
  <2>1. d \in Seq(0 .. 9) /\ Len(d) = 43
    BY <1>6, NumberIs
  <2>2. r = SubSeq(d, 1, 5 - 1) \o <<x>> \o SubSeq(d, 5, Len(d))
    BY <1>6, <2>1
  <2> HIDE DEF r
  <2>3. 5 \in 1 .. Len(d)
    BY <2>1
  <2>4. r \in Seq(0 .. 9) /\ Len(r) = Len(d) + 1 /\ r[5] = x /\ C!RemoveAt(r, 5) = d
    <3>1. d \in Seq(0 .. 9)
      BY <2>1
    <3>2. QED
      BY <1>2, <2>2, <2>3, <3>1, Inserted, ZenonT(60)
  <2>5. QED
    BY <1>6, <2>1, <2>4, IsNumber, ZenonT(60)
<1> HIDE DEF r
<1>5. r[5] = x /\ Len(r) = 44
  BY <1>6, <1>7, NumberIs
<1>8. C!RemoveAt(r, 5) = d
  BY <1>7
<1>9. C!Accepts("bar", r)
  BY <1>5, <1>8 DEF C!Accepts, C!validate_barcode, x
<1>10. ASSUME NEW i, NEW f, Slip(44, r, f, i), C!Accepts("bar", f)
       PROVE  C!Unguarded("bar", r, i, f[i])
  <2>1. /\ i \in 1 .. 44 /\ f[i] # r[i] /\ \A j \in 1 .. 44 \ {i} : f[j] = r[j]
        /\ Len(f) = 44
    <3>1. Len(f) = 44
      BY <1>6, <1>10, NumberIs DEF Slip
    <3>2. QED
      BY <1>10, <3>1 DEF Slip
  <2>2. f[1] = 8 \/ C!mod11_bank(C!RemoveAt(f, 5)) = f[5]
    BY <1>10, <2>1 DEF C!Accepts, C!validate_barcode
  <2>3. CASE f[1] = 8
    BY <2>1, <2>3 DEF C!Unguarded
  <2>4. CASE C!mod11_bank(C!RemoveAt(f, 5)) = f[5]
    <3>1. \/ i = 5 /\ C!RemoveAt(f, 5) = d
          \/ i # 5 /\ \E k : Slip(43, d, C!RemoveAt(f, 5), k)
      BY <1>6, <1>8, <1>10, RemovedSlip
    <3>2. i # 5
      BY <1>5, <2>1, <2>4, <3>1 DEF x
    <3>3. f[5] = x
      BY <1>5, <2>1, <3>2
    <3>4. x = 1
      BY <1>6, <2>4, <3>1, <3>2, <3>3, BankSlip DEF x
    <3>5. QED
      BY <1>5, <3>4 DEF C!Unguarded
  <2>5. QED
    BY <2>2, <2>3, <2>4
<1>11. QED
  BY <1>1, <1>6, <1>7, <1>9, <1>10, CaughtIf
\* A field with its check digit, after any text.
LEMMA FieldMade ==
  ASSUME NEW u \in Seq(0 .. 9), NEW v \in Seq(0 .. 9), v # <<>>
  PROVE  LET s == u \o v \o <<C!mod10(v)>> IN
         /\ s \in Seq(0 .. 9) /\ Len(s) = Len(u) + Len(v) + 1
         /\ C!Field(s, Len(u) + 1, Len(u) + Len(v))
<1> DEFINE x == C!mod10(v)
           t == u \o v
           s == t \o <<x>>
<1>1. Len(v) \in Nat /\ v \in Numbers(Len(v)) /\ Len(u) \in Nat
  BY DEF Numbers
<1>2. x \in 0 .. 9
  BY <1>1, CheckDigits
<1> HIDE DEF x
<1>3. <<x>> \in Seq(0 .. 9) /\ Len(<<x>>) = 1 /\ <<x>>[1] = x
  BY <1>2
<1>4. /\ t \in Seq(0 .. 9) /\ Len(t) = Len(u) + Len(v)
      /\ \A j \in Len(u) + 1 .. Len(u) + Len(v) : t[j] = v[j - Len(u)]
  BY TextsJoined
<1> HIDE DEF t
<1>5. /\ s \in Seq(0 .. 9) /\ Len(s) = Len(t) + 1 /\ s[Len(t) + 1] = x
      /\ \A j \in 1 .. Len(t) : s[j] = t[j]
  <2>1. /\ s \in Seq(0 .. 9) /\ Len(s) = Len(t) + Len(<<x>>)
        /\ \A j \in 1 .. Len(t) : s[j] = t[j]
        /\ \A j \in Len(t) + 1 .. Len(t) + Len(<<x>>) : s[j] = <<x>>[j - Len(t)]
    <3>1. t \in Seq(0 .. 9) /\ <<x>> \in Seq(0 .. 9)
      BY <1>3, <1>4
    <3>2. QED
      BY <3>1, TextsJoined
  <2> HIDE DEF s
  <2>2. Len(t) \in Nat
    BY <1>4
  <2>3. Len(t) + 1 \in Len(t) + 1 .. Len(t) + Len(<<x>>) /\ (Len(t) + 1) - Len(t) = 1
    BY <1>3, <2>2
  <2>4. QED
    BY <1>3, <2>1, <2>3
<1> HIDE DEF s
<1> DEFINE p == SubSeq(s, Len(u) + 1, Len(u) + Len(v))
<1>6. /\ p \in Seq(0 .. 9) /\ Len(p) = Len(v)
      /\ \A j \in 1 .. Len(v) : p[j] = s[Len(u) + j]
  <2>1. /\ Len(u) + 1 \in 1 .. Len(s) + 1
        /\ Len(u) + Len(v) \in (Len(u) + 1) - 1 .. Len(s)
    BY <1>1, <1>4, <1>5
  <2>2. /\ p \in Seq(0 .. 9) /\ Len(p) = (Len(u) + Len(v)) - (Len(u) + 1) + 1
        /\ \A j \in 1 .. (Len(u) + Len(v)) - (Len(u) + 1) + 1 :
              p[j] = s[Len(u) + 1 + j - 1]
    BY <1>5, <2>1, TextPart
  <2> HIDE DEF p
  <2>3. /\ (Len(u) + Len(v)) - (Len(u) + 1) + 1 = Len(v)
        /\ \A j \in 1 .. Len(v) : Len(u) + 1 + j - 1 = Len(u) + j
    BY <1>1
  <2>4. QED
    BY <2>2, <2>3
<1>7. \A j \in 1 .. Len(v) : /\ Len(u) + j \in 1 .. Len(t)
                             /\ Len(u) + j \in Len(u) + 1 .. Len(u) + Len(v)
                             /\ (Len(u) + j) - Len(u) = j
  BY <1>1, <1>4
<1>8. p = v
  <2>1. \A j \in 1 .. Len(v) : p[j] = v[j]
    BY <1>4, <1>5, <1>6, <1>7
  <2> HIDE DEF p
  <2>2. QED
    BY <1>6, <2>1, SeqEqual
<1>9. C!Field(s, Len(u) + 1, Len(u) + Len(v))
  <2>1. s[Len(u) + Len(v) + 1] = x
    BY <1>4, <1>5
  <2>2. QED
    BY <1>8, <2>1 DEF C!Field, x
<1>10. QED
  BY <1>4, <1>5, <1>9 DEF s, t, x

\* It stays one whatever follows.
LEMMA FieldStays ==
  ASSUME NEW s \in Seq(0 .. 9), NEW w \in Seq(0 .. 9),
         NEW first \in 1 .. Len(s), NEW last \in first .. Len(s), last + 1 <= Len(s),
         C!Field(s, first, last)
  PROVE  C!Field(s \o w, first, last)
<1> DEFINE t == s \o w
<1>1. /\ t \in Seq(0 .. 9) /\ Len(t) = Len(s) + Len(w)
      /\ \A j \in 1 .. Len(s) : t[j] = s[j]
  BY TextsJoined
<1> HIDE DEF t
<1>2. Len(s) \in Nat /\ Len(w) \in Nat
  OBVIOUS
<1> DEFINE p == SubSeq(s, first, last)
           q == SubSeq(t, first, last)
<1>3. /\ p \in Seq(0 .. 9) /\ Len(p) = last - first + 1
      /\ \A j \in 1 .. last - first + 1 : p[j] = s[first + j - 1]
  BY <1>2, SMTT(20)
<1>4. /\ q \in Seq(0 .. 9) /\ Len(q) = last - first + 1
      /\ \A j \in 1 .. last - first + 1 : q[j] = t[first + j - 1]
  BY <1>1, <1>2, SMTT(20)
<1> HIDE DEF p, q
<1>5. \A j \in 1 .. last - first + 1 : first + j - 1 \in 1 .. Len(s)
  OBVIOUS
<1>6. \A j \in 1 .. last - first + 1 : q[j] = p[j]
  BY <1>1, <1>3, <1>4, <1>5
<1>7. q = p
  BY <1>3, <1>4, <1>6, SeqEqual
<1>8. t[last + 1] = s[last + 1]
  BY <1>1
<1>9. QED
  BY <1>7, <1>8 DEF C!Field, p, q, t

\* How long a part is.
LEMMA Cut ==
  ASSUME NEW d \in Seq(0 .. 9), NEW first \in Nat \ {0}, NEW last \in Nat,
         first <= last, last <= Len(d)
  PROVE  SubSeq(d, first, last) \in Seq(0 .. 9)
         /\ Len(SubSeq(d, first, last)) + first = last + 1
<1>1. first \in 1 .. Len(d) + 1 /\ last \in first - 1 .. Len(d)
  OBVIOUS
<1>2. SubSeq(d, first, last) \in Seq(0 .. 9)
      /\ Len(SubSeq(d, first, last)) = last - first + 1
  BY <1>1, TextPart
<1>3. QED
  BY <1>2

\* A digit put after two texts is put after the second.
LEMMA DigitAtEnd ==
  \A a, b \in Seq(0 .. 9) : \A x \in 0 .. 9 :
    /\ b \o <<x>> \in Seq(0 .. 9)
    /\ a \o b \o <<x>> = a \o (b \o <<x>>)
<1>1. \A x \in 0 .. 9 : <<x>> \in Seq(0 .. 9)
  OBVIOUS
<1>2. QED
  BY <1>1, ConcatAssociative

\* A typed line: each of the three fields sees its own digits.
LEMMA LineCaught == ASSUME NEW d \in Numbers(44) PROVE Caught("line", d)
<1> DEFINE p == SubSeq(d, 1, 9)
           q == SubSeq(d, 10, 19)
           t == SubSeq(d, 20, 29)
           w == SubSeq(d, 30, 44)
           a == p \o <<C!mod10(p)>>
           b == a \o q \o <<C!mod10(q)>>
           c == b \o t \o <<C!mod10(t)>>
           r == c \o w
<1>1. r = C!Completed("line", d)
  BY DEF C!Completed
<1>2. d \in Seq(0 .. 9)
  BY NumberIs
<1>3. Len(d) = 44
  <2>1. 44 \in Nat
    OBVIOUS
  <2>2. QED
    BY <2>1, NumberIs
<1> HIDE DEF p, q, t, w
<1> HIDE DEF a, b, c, r
<1>4. /\ p \in Seq(0 .. 9) /\ Len(p) = 9 /\ q \in Seq(0 .. 9) /\ Len(q) = 10
      /\ t \in Seq(0 .. 9) /\ Len(t) = 10 /\ w \in Seq(0 .. 9) /\ Len(w) = 15
  <2>1. p \in Seq(0 .. 9) /\ Len(p) = 9
    <3>1. 1 \in Nat \ {0} /\ 9 \in Nat /\ 1 <= 9 /\ 9 <= Len(d)
      BY <1>3
    <3>2. p \in Seq(0 .. 9)
      BY <1>2, <3>1, Cut DEF p
    <3>3. Len(p) + 1 = 9 + 1
      BY <1>2, <3>1, Cut DEF p
    <3>4. Len(p) \in Nat
      BY <3>2
    <3>5. \A n \in Nat : n + 1 = 9 + 1 => n = 9
      OBVIOUS
    <3>6. QED
      BY <3>2, <3>3, <3>4, <3>5, Zenon
  <2>2. q \in Seq(0 .. 9) /\ Len(q) = 10
    <3>1. 10 \in Nat \ {0} /\ 19 \in Nat /\ 10 <= 19 /\ 19 <= Len(d)
      BY <1>3
    <3>2. q \in Seq(0 .. 9)
      BY <1>2, <3>1, Cut DEF q
    <3>3. Len(q) + 10 = 19 + 1
      BY <1>2, <3>1, Cut DEF q
    <3>4. Len(q) \in Nat
      BY <3>2
    <3>5. \A n \in Nat : n + 10 = 19 + 1 => n = 10
      OBVIOUS
    <3>6. QED
      BY <3>2, <3>3, <3>4, <3>5, Zenon
  <2>3. t \in Seq(0 .. 9) /\ Len(t) = 10
    <3>1. 20 \in Nat \ {0} /\ 29 \in Nat /\ 20 <= 29 /\ 29 <= Len(d)
      BY <1>3
    <3>2. t \in Seq(0 .. 9)
      BY <1>2, <3>1, Cut DEF t
    <3>3. Len(t) + 20 = 29 + 1
      BY <1>2, <3>1, Cut DEF t
    <3>4. Len(t) \in Nat
      BY <3>2
    <3>5. \A n \in Nat : n + 20 = 29 + 1 => n = 10
      OBVIOUS
    <3>6. QED
      BY <3>2, <3>3, <3>4, <3>5, Zenon
  <2>4. w \in Seq(0 .. 9) /\ Len(w) = 15
    <3>1. 30 \in Nat \ {0} /\ 44 \in Nat /\ 30 <= 44 /\ 44 <= Len(d)
      BY <1>3
    <3>2. w \in Seq(0 .. 9)
      BY <1>2, <3>1, Cut DEF w
    <3>3. Len(w) + 30 = 44 + 1
      BY <1>2, <3>1, Cut DEF w
    <3>4. Len(w) \in Nat
      BY <3>2
    <3>5. \A n \in Nat : n + 30 = 44 + 1 => n = 15
      OBVIOUS
    <3>6. QED
      BY <3>2, <3>3, <3>4, <3>5, Zenon
  <2>5. QED
    BY <2>1, <2>2, <2>3, <2>4
<1>5. /\ Len(p) = 9 /\ Len(q) = 10 /\ Len(t) = 10 /\ Len(w) = 15
  BY <1>4
<1>6. p # <<>> /\ q # <<>> /\ t # <<>>
  <2>1. \A s : s = <<>> => Len(s) = 0
    OBVIOUS
  <2>2. Len(p) # 0 /\ Len(q) # 0 /\ Len(t) # 0
    BY <1>5
  <2>3. QED
    BY <2>1, <2>2, Zenon
<1>7. a \in Seq(0 .. 9) /\ Len(a) = Len(p) + 1 /\ C!Field(a, 1, Len(p))
  <2> USE DEF a
  <2>1. <<>> \in Seq(0 .. 9) /\ Len(<<>>) = 0 /\ <<>> \o p = p
    BY <1>4
  <2>2. LET s == <<>> \o p \o <<C!mod10(p)>> IN
        /\ s \in Seq(0 .. 9) /\ Len(s) = Len(<<>>) + Len(p) + 1
        /\ C!Field(s, Len(<<>>) + 1, Len(<<>>) + Len(p))
    BY <1>4, <1>6, <2>1, FieldMade
  <2>3. a \in Seq(0 .. 9) /\ Len(a) = 0 + Len(p) + 1 /\ C!Field(a, 0 + 1, 0 + Len(p))
    BY <2>1, <2>2, Zenon
  <2>4. Len(p) \in Nat
    BY <1>5
  <2>5. 0 + Len(p) = Len(p) /\ 0 + 1 = 1
    BY <2>4
  <2>6. QED
    BY <2>3, <2>5
<1>8. b \in Seq(0 .. 9) /\ Len(b) = Len(a) + Len(q) + 1
      /\ C!Field(b, Len(a) + 1, Len(a) + Len(q))
  BY <1>4, <1>6, <1>7, FieldMade DEF b
<1>9. c \in Seq(0 .. 9) /\ Len(c) = Len(b) + Len(t) + 1
      /\ C!Field(c, Len(b) + 1, Len(b) + Len(t))
  BY <1>4, <1>6, <1>8, FieldMade DEF c
<1>10. /\ Len(a) \in Nat /\ Len(p) \in Nat /\ Len(q) \in Nat /\ Len(t) \in Nat
       /\ Len(b) \in Nat /\ Len(c) \in Nat /\ Len(w) \in Nat
       /\ Len(p) # 0 /\ Len(q) # 0 /\ Len(t) # 0
  BY <1>5, <1>7, <1>8, <1>9
<1> DEFINE v == q \o <<C!mod10(q)>>
           z == t \o <<C!mod10(t)>>
<1>11. /\ v \in Seq(0 .. 9) /\ z \in Seq(0 .. 9) /\ b = a \o v /\ c = b \o z
  <2>1. q \in Numbers(Len(q)) /\ t \in Numbers(Len(t))
    BY <1>4, <1>10, IsNumber
  <2>2. C!mod10(q) \in 0 .. 9 /\ C!mod10(t) \in 0 .. 9
    BY <1>10, <2>1, CheckDigits
  <2>3. v \in Seq(0 .. 9) /\ b = a \o v
    BY <1>4, <1>7, <2>2, DigitAtEnd, Zenon DEF b
  <2>4. z \in Seq(0 .. 9) /\ c = b \o z
    BY <1>4, <1>8, <2>2, DigitAtEnd, Zenon DEF c
  <2>5. QED
    BY <2>3, <2>4
<1> HIDE DEF v, z
<1>12. C!Field(r, 1, Len(p))
  <2>1. 1 \in 1 .. Len(a) /\ Len(p) \in 1 .. Len(a) /\ Len(p) + 1 <= Len(a)
    BY <1>7, <1>10
  <2>2. C!Field(b, 1, Len(p))
    BY <1>7, <1>11, <2>1, FieldStays
  <2>3. 1 \in 1 .. Len(b) /\ Len(p) \in 1 .. Len(b) /\ Len(p) + 1 <= Len(b)
    BY <1>8, <1>10, <2>1
  <2>4. C!Field(c, 1, Len(p))
    BY <1>8, <1>11, <2>2, <2>3, FieldStays
  <2>5. 1 \in 1 .. Len(c) /\ Len(p) \in 1 .. Len(c) /\ Len(p) + 1 <= Len(c)
    BY <1>9, <1>10, <2>3
  <2>6. QED
    BY <1>4, <1>9, <2>4, <2>5, FieldStays DEF r
<1>13. C!Field(r, Len(a) + 1, Len(a) + Len(q))
  <2>1. /\ Len(a) + 1 \in 1 .. Len(b) /\ Len(a) + Len(q) \in Len(a) + 1 .. Len(b)
        /\ Len(a) + Len(q) + 1 <= Len(b)
    BY <1>8, <1>10
  <2>2. C!Field(c, Len(a) + 1, Len(a) + Len(q))
    BY <1>8, <1>11, <2>1, FieldStays
  <2>3. /\ Len(a) + 1 \in 1 .. Len(c) /\ Len(a) + Len(q) \in Len(a) + 1 .. Len(c)
        /\ Len(a) + Len(q) + 1 <= Len(c)
    BY <1>9, <1>10, <2>1
  <2>4. QED
    BY <1>4, <1>9, <2>2, <2>3, FieldStays DEF r
<1>14. C!Field(r, Len(b) + 1, Len(b) + Len(t))
  <2>1. /\ Len(b) + 1 \in 1 .. Len(c) /\ Len(b) + Len(t) \in Len(b) + 1 .. Len(c)
        /\ Len(b) + Len(t) + 1 <= Len(c)
    BY <1>9, <1>10
  <2>2. QED
    BY <1>4, <1>9, <2>1, FieldStays DEF r
<1>15. r \in Seq(0 .. 9) /\ Len(r) = Len(c) + Len(w)
  BY <1>4, <1>9, TextsJoined DEF r
<1>16. Len(a) = 10 /\ Len(b) = 21 /\ Len(c) = 32 /\ Len(r) = 47
  BY <1>5, <1>7, <1>8, <1>9, <1>15
<1>17. C!Field(r, 1, 9) /\ C!Field(r, 11, 20) /\ C!Field(r, 22, 31)
  <2>1. Len(a) + 1 = 11 /\ Len(a) + Len(q) = 20 /\ Len(b) + 1 = 22 /\ Len(b) + Len(t) = 31
    BY <1>5, <1>16
  <2>2. QED
    BY <1>5, <1>12, <1>13, <1>14, <2>1
<1>18. 47 \in Nat /\ r \in Numbers(47)
  BY <1>15, <1>16, IsNumber
<1>19. C!Accepts("line", r)
  BY <1>16, <1>17 DEF C!Accepts, C!validate_barcode
<1>20. ASSUME NEW i, NEW f, Slip(47, r, f, i), C!Accepts("line", f)
       PROVE  C!Unguarded("line", r, i, f[i])
  <2>1. i \in 1 .. 47 /\ Len(f) = 47
    <3>1. f \in Numbers(47) /\ i \in 1 .. 47
      BY <1>20 DEF Slip
    <3>2. QED
      BY <1>18, <3>1, NumberIs
  <2>2. C!Field(f, 1, 9) /\ C!Field(f, 11, 20) /\ C!Field(f, 22, 31)
    BY <1>20, <2>1 DEF C!Accepts, C!validate_barcode
  <2>3. i \notin 1 .. 9 + 1
    <3>1. 1 \in 1 .. 47 /\ 9 \in 1 .. 47 - 1
      OBVIOUS
    <3>2. QED
      BY <1>17, <1>18, <1>20, <2>2, <3>1, FieldSlip
  <2>4. i \notin 11 .. 20 + 1
    <3>1. 11 \in 1 .. 47 /\ 20 \in 11 .. 47 - 1
      OBVIOUS
    <3>2. QED
      BY <1>17, <1>18, <1>20, <2>2, <3>1, FieldSlip
  <2>5. i \notin 22 .. 31 + 1
    <3>1. 22 \in 1 .. 47 /\ 31 \in 22 .. 47 - 1
      OBVIOUS
    <3>2. QED
      BY <1>17, <1>18, <1>20, <2>2, <3>1, FieldSlip
  <2>6. i > 32
    BY <2>1, <2>3, <2>4, <2>5
  <2>7. QED
    BY <2>6 DEF C!Unguarded
<1>21. QED
  BY <1>1, <1>18, <1>19, <1>20, CaughtIf
\* A utility's bar: each of the four blocks does.
LEMMA UtilityCaught ==
  ASSUME NEW d \in Numbers(44), d[1] = 8 PROVE Caught("utility", d)
<1> DEFINE block(j) == (j - 1) \div 12
           part4(k) == SubSeq(d, 11 * k + 1, 11 * k + 11)
           r == [j \in 1 .. 48 |-> IF j % 12 = 0 THEN C!mod10(part4(block(j)))
                                   ELSE d[j - block(j)]]
<1>1. r = C!Completed("utility", d)
  BY DEF C!Completed
<1>2. 44 \in Nat /\ 48 \in Nat /\ 11 \in Nat
  OBVIOUS
<1>3. d \in Seq(0 .. 9) /\ Len(d) = 44 /\ \A j \in 1 .. 44 : d[j] \in 0 .. 9
  BY <1>2, NumberIs
<1>4. ASSUME NEW k \in 0 .. 3
      PROVE  part4(k) \in Numbers(11) /\ \A j \in 1 .. 11 : part4(k)[j] = d[11 * k + j]
  <2> DEFINE first == 11 * k + 1
             last == 11 * k + 11
  <2>1. first \in 1 .. 44 /\ last \in first .. 44 /\ last - first + 1 = 11
        /\ \A j \in 1 .. 11 : first + j - 1 = 11 * k + j
    OBVIOUS
  <2> HIDE DEF first, last
  <2>2. /\ SubSeq(d, first, last) \in Numbers(last - first + 1)
        /\ \A j \in 1 .. last - first + 1 : SubSeq(d, first, last)[j] = d[first + j - 1]
    BY <1>2, <2>1, Slice
  <2>3. QED
    BY <2>1, <2>2 DEF first, last
<1> HIDE DEF part4
<1>5. \A k \in 0 .. 3 : C!mod10(part4(k)) \in 0 .. 9
  BY <1>2, <1>4, CheckDigits
<1>6. r \in Numbers(48)
  <2>1. \A j \in 1 .. 48 : /\ block(j) \in 0 .. 3
                           /\ j % 12 # 0 => j - block(j) \in 1 .. 44
    OBVIOUS
  <2> HIDE DEF block
  <2>2. \A j \in 1 .. 48 :
          (IF j % 12 = 0 THEN C!mod10(part4(block(j))) ELSE d[j - block(j)]) \in 0 .. 9
    BY <1>3, <1>5, <2>1
  <2>3. QED
    BY <2>2 DEF Numbers
<1>7. ASSUME NEW k \in 0 .. 3 PROVE C!Field(r, 12 * k + 1, 12 * k + 11)
  <2> DEFINE first == 12 * k + 1
             last == 12 * k + 11
  <2>1. first \in 1 .. 48 /\ last \in first .. 48 /\ last - first + 1 = 11
        /\ last + 1 \in 1 .. 48 /\ (last + 1) % 12 = 0 /\ block(last + 1) = k
    OBVIOUS
  <2>2. ASSUME NEW j \in 1 .. 11, NEW m, m = first + j - 1
        PROVE  m \in 1 .. 48 /\ m % 12 # 0 /\ m - block(m) = 11 * k + j
    BY <2>2
  <2> HIDE DEF first, last, block
  <2>3. r[last + 1] = C!mod10(part4(k))
    BY <2>1
  <2>4. \A j \in 1 .. 11 : r[first + j - 1] = d[11 * k + j]
    <3>1. \A m \in 1 .. 48 : m % 12 # 0 => r[m] = d[m - block(m)]
      OBVIOUS
    <3> HIDE DEF r
    <3>2. TAKE j \in 1 .. 11
    <3>3. PICK m : m = first + j - 1
      OBVIOUS
    <3>4. m \in 1 .. 48 /\ m % 12 # 0 /\ m - block(m) = 11 * k + j
      BY <2>2, <3>3
    <3>5. r[m] = d[11 * k + j]
      BY <3>1, <3>4
    <3>6. QED
      BY <3>3, <3>5
  <2> HIDE DEF r
  <2>5. /\ SubSeq(r, first, last) \in Numbers(last - first + 1)
        /\ \A j \in 1 .. last - first + 1 : SubSeq(r, first, last)[j] = r[first + j - 1]
    BY <1>2, <1>6, <2>1, Slice
  <2>6. SubSeq(r, first, last) = part4(k)
    <3>1. /\ SubSeq(r, first, last) \in Numbers(11)
          /\ \A j \in 1 .. 11 : SubSeq(r, first, last)[j] = part4(k)[j]
      BY <1>4, <2>1, <2>4, <2>5
    <3>2. part4(k) \in Numbers(11)
      BY <1>4
    <3>3. QED
      BY <1>2, <3>1, <3>2, SameNumber
  <2>7. C!Field(r, first, last)
    BY <2>3, <2>6 DEF C!Field
  <2>8. QED
    BY <2>7 DEF first, last
<1>8. r[1] = 8
  BY <1>3
<1> HIDE DEF r, block
<1>9. Len(r) = 48
  BY <1>2, <1>6, NumberIs
<1>10. C!Accepts("utility", r)
  BY <1>7, <1>8, <1>9 DEF C!Accepts, C!validate_barcode
<1>11. ASSUME NEW i, NEW f, Slip(48, r, f, i), C!Accepts("utility", f)
       PROVE  FALSE
  <2>1. i \in 1 .. 48 /\ Len(f) = 48
    <3>1. f \in Numbers(48) /\ i \in 1 .. 48
      BY <1>11 DEF Slip
    <3>2. QED
      BY <1>2, <3>1, NumberIs
  <2>2. \A k \in 0 .. 3 : C!Field(f, 12 * k + 1, 12 * k + 11)
    BY <1>11, <2>1 DEF C!Accepts, C!validate_barcode
  <2> DEFINE k == (i - 1) \div 12
  <2>3. k \in 0 .. 3 /\ i \in 12 * k + 1 .. 12 * k + 11 + 1
    BY <2>1
  <2> HIDE DEF k
  <2>4. 12 * k + 1 \in 1 .. 48 /\ 12 * k + 11 \in 12 * k + 1 .. 48 - 1
    BY <2>3
  <2>5. C!Field(r, 12 * k + 1, 12 * k + 11) /\ C!Field(f, 12 * k + 1, 12 * k + 11)
    BY <1>7, <2>2, <2>3
  <2>6. i \notin 12 * k + 1 .. 12 * k + 11 + 1
    BY <1>2, <1>11, <2>4, <2>5, FieldSlip
  <2>7. QED
    BY <2>3, <2>6
<1>12. QED
  BY <1>1, <1>2, <1>6, <1>10, <1>11, CaughtIf

-----------------------------------------------------------------------------
(* The codes that come in.                                                 *)

\* A number that came in is one of its kind.
NumbersInv ==
  came = "number" =>
    /\ what \in C!Kinds
    /\ number \in Numbers(C!Lengths[what])
    /\ what = "utility" => number[1] = 8

\* For every number of digits, whatever kind: slips are caught.
LEMMA NumbersAreCaught ==
  ASSUME NumbersInv, came = "number" PROVE Caught(what, number)
<1>1. /\ what \in C!Kinds /\ number \in Numbers(C!Lengths[what])
      /\ what = "utility" => number[1] = 8
  BY DEF NumbersInv
<1>2. CASE what = "cpf"
  <2>1. number \in Numbers(9)
    BY <1>1, <1>2 DEF C!Lengths
  <2>2. QED
    BY <1>2, <2>1, CpfCaught
<1>3. CASE what = "cnpj"
  <2>1. number \in Numbers(12)
    BY <1>1, <1>3 DEF C!Lengths
  <2>2. QED
    BY <1>3, <2>1, CnpjCaught
<1>4. CASE what = "line"
  <2>1. number \in Numbers(44)
    BY <1>1, <1>4 DEF C!Lengths
  <2>2. QED
    BY <1>4, <2>1, LineCaught
<1>5. CASE what = "bar"
  <2>1. number \in Numbers(43)
    BY <1>1, <1>5 DEF C!Lengths
  <2>2. QED
    BY <1>5, <2>1, BarCaught
<1>6. CASE what = "utility"
  <2>1. number \in Numbers(44) /\ number[1] = 8
    BY <1>1, <1>6 DEF C!Lengths
  <2>2. QED
    BY <1>6, <2>1, UtilityCaught
<1>7. QED
  BY <1>1, <1>2, <1>3, <1>4, <1>5, <1>6 DEF C!Kinds

\* What is typed has the length of its kind.
LEMMA NumbersInvStep ==
  ASSUME C!CodesAssumption, NumbersInv, [C!Next]_text PROVE NumbersInv'
<1>1. ASSUME NEW k \in C!Kinds, NEW first \in C!Digits, NEW increment \in Steps,
             C!Type(k, first, increment)
      PROVE  NumbersInv'
  <2> DEFINE n == C!Lengths[k]
  <2>1. n \in Nat \ {0}
    BY DEF C!Lengths, C!Kinds
  <2>2. number' = [i \in 1 .. n |-> IF i = 1 /\ k = "utility" THEN 8
                                    ELSE (first + i * increment) % 10]
        /\ came' = "number" /\ what' = k
    BY <1>1 DEF C!Type
  <2>3. first \in Nat /\ increment \in Nat
    BY DEF C!CodesAssumption, C!Digits
  <2> HIDE DEF n
  <2>4. \A i \in 1 .. n : (first + i * increment) % 10 \in 0 .. 9
    <3>1. \A x \in Nat : x % 10 \in 0 .. 9
      OBVIOUS
    <3>2. \A i \in 1 .. n : first + i * increment \in Nat
      BY <2>1, <2>3
    <3>3. QED
      BY <3>1, <3>2
  <2>5. number' \in Numbers(n) /\ (k = "utility" => number'[1] = 8)
    BY <2>1, <2>2, <2>4 DEF Numbers
  <2>6. QED
    BY <2>2, <2>5 DEF NumbersInv, n
<1>2. ASSUME NEW charge, NEW value_1, NEW c, NEW d, NEW e,
             C!Scan(charge, value_1, c, d, e)
      PROVE  NumbersInv'
  BY <1>2 DEF C!Scan, NumbersInv
<1>3. CASE UNCHANGED text
  BY <1>3 DEF text, NumbersInv
<1>4. QED
  BY <1>1, <1>2, <1>3 DEF C!Next

\* PaymentCodes: a right CPF, CNPJ, line or bar of any digits is accepted, and no
\* slip of one digit in it is, but where Unguarded says that the check digits
\* cannot tell.
THEOREM SlipsAreCaught == C!Spec => []TyposAreCaught
<1>1. C!Init => NumbersInv
  BY DEF C!Init, NumbersInv
<1>2. NumbersInv /\ [C!Next]_text => NumbersInv'
  BY CustomerAssumption, NumbersInvStep DEF CustomerAssumption
<1>3. NumbersInv => TyposAreCaught
  BY NumbersAreCaught DEF TyposAreCaught, C!TyposAreCaught, Caught, C!Digits
<1>4. QED
  BY <1>1, <1>2, <1>3, PTL DEF C!Spec, C!vars, text

-----------------------------------------------------------------------------
(* The components side by side.                                            *)

\* A behaviour of the five is a behaviour of each.
LEMMA CustomerRuns == CustomerSpec => Spec /\ A!Spec /\ L!Spec /\ F!Spec /\ C!Spec
<1>1. CustomerInit => Init /\ A!Init /\ L!Init /\ F!Init /\ C!Init
  BY DEF CustomerInit
<1>2. [CustomerNext]_<<vars, account, limiter, question, text, part>>
        => /\ [Next]_vars /\ [A!Next]_(A!vars) /\ [L!Next]_(L!vars)
           /\ [F!Next]_(F!vars) /\ [C!Next]_(C!vars)
  <2> SUFFICES ASSUME [CustomerNext]_<<vars, account, limiter, question, text, part>>
               PROVE  /\ [Next]_vars /\ [A!Next]_(A!vars) /\ [L!Next]_(L!vars)
                      /\ [F!Next]_(F!vars) /\ [C!Next]_(C!vars)
    OBVIOUS
  <2>1. /\ (UNCHANGED account => UNCHANGED A!vars)
        /\ (UNCHANGED limiter => UNCHANGED L!vars)
        /\ (UNCHANGED question => UNCHANGED F!vars)
        /\ (UNCHANGED text => UNCHANGED C!vars)
    BY DEF account, A!vars, A!row, A!session, A!history, limiter, L!vars,
           question, F!vars, text, C!vars
  <2>2. /\ Next \/ UNCHANGED vars
        /\ A!Next \/ UNCHANGED account
        /\ L!Next \/ UNCHANGED limiter
        /\ F!Next \/ UNCHANGED question
        /\ C!Next \/ UNCHANGED text
    <3>1. CASE CustomerNext
      BY <3>1, Zenon DEF CustomerNext
    <3>2. CASE UNCHANGED <<vars, account, limiter, question, text, part>>
      BY <3>2, Zenon
    <3>3. QED
      BY <3>1, <3>2
  <2>3. QED
    BY <2>1, <2>2
<1>3. QED
  BY <1>1, <1>2, PTL DEF CustomerSpec, Spec, A!Spec, L!Spec, F!Spec, C!Spec

\* Every variable of every component keeps its type.
THEOREM CustomerTypeCorrect == CustomerSpec => []AllTypesOK
<1>1. AccountInv => A!TypeOK
  BY DEF AccountInv
<1>2. LimiterInv => L!TypeOK
  BY DEF LimiterInv
<1>3. QuestionInv => F!TypeOK
  BY DEF QuestionInv
<1>4. TypeOK /\ A!TypeOK /\ L!TypeOK /\ F!TypeOK /\ C!TypeOK => AllTypesOK
  BY DEF AllTypesOK
<1>5. QED
  BY <1>1, <1>2, <1>3, <1>4, CustomerRuns, TypeCorrect, AccountInvAlways,
     LimiterInvAlways, QuestionInvAlways, CodesTypeCorrect, PTL

\* What is proved of each component holds of the five side by side.
THEOREM CustomerCorrect ==
  CustomerSpec =>
    /\ [](/\ OpenAsPromised /\ OverdrawnOnce
          /\ VerifiedByLiveLink /\ OneAccount
          /\ LimitHolds /\ FeesAgree /\ RiskDecides
          /\ TyposAreCaught /\ CodesAreRead)
    /\ RenewalsAreDue /\ SpentIsRefused /\ RefusedOnlyIfFull
BY CustomerRuns, ChatIsOpenAsPromised, PlanOverdrawsOnce, EveryRenewalIsDue,
   SignedInIsVerifiedInTime, OneRegistration, SpentCodesAreRefused,
   TheLimitHolds, NobodyIsRefusedEarly, FeesAreAsPreviewed, RiskIsJudged,
   SlipsAreCaught, CodesAreReadRight, PTL
=============================================================================
