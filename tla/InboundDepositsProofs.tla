------------------------ MODULE InboundDepositsProofs ------------------------
(* Proofs about InboundDeposits, for any users, deposits and sessions. *)
EXTENDS InboundDeposits, FiniteSetTheorems, TLAPS

\* The webhook being handled is of a deposit without a webhook row, and found a
\* user to credit.
HookIsNew ==
  hook # NoHook =>
    /\ hook \in Hook
    /\ Resolved[hook.deposit] \in Users
    /\ ~HasRow("webhook", hook.deposit)

\* A deployment without a webhook token handles none.
NoWebhooks == hook = NoHook /\ \A r \in rows : r.via = "verify"

IInv == TypeOK /\ HookIsNew /\ CreditsMatchRows /\ (~WebhookOn => NoWebhooks)

LEMMA IInvInit == Init => IInv
BY DepositsAssumption
   DEF Init, IInv, TypeOK, HookIsNew, CreditsMatchRows, NoWebhooks, HasRow

\* The sessions' part of the type invariant, after a step.
SessionTyped ==
  /\ step' \in [Sessions -> {"idle", "authenticated", "checking"}]
  /\ caller' \in [Sessions -> Users \cup {NoUser}]
  /\ \A s \in Sessions : step'[s] # "idle" => caller'[s] \in Users
  /\ listed' \in [Sessions -> SUBSET Deposits]
  /\ batch' \in [Sessions -> SUBSET Deposits]
  /\ saw' \in [Sessions -> Int]

LEMMA CloseSessionTyped ==
  ASSUME IInv, NEW s \in Sessions, CloseSession(s)
  PROVE  SessionTyped
BY DEF IInv, TypeOK, CloseSession, SessionTyped

\* A step of a session that writes no row keeps the invariant.
LEMMA SessionStep ==
  ASSUME IInv, SessionTyped, arrived' \subseteq Deposits, failures' \in 0 .. MaxFailures,
         UNCHANGED <<store, hook>>
  PROVE  IInv'
BY DEF IInv, SessionTyped, TypeOK, store, HookIsNew, CreditsMatchRows, NoWebhooks, HasRow

\* What inserting rows adds to the deposits that have one.
LEMMA RowsAdded ==
  ASSUME NEW via, NEW ds, NEW u, rows' = rows \cup Rows(via, ds, u)
  PROVE  \A w, d : HasRow(w, d)' <=> HasRow(w, d) \/ (w = via /\ d \in ds)
<1> SUFFICES ASSUME NEW w, NEW d
             PROVE  HasRow(w, d)' <=> HasRow(w, d) \/ (w = via /\ d \in ds)
  OBVIOUS
<1>1. HasRow(w, d) => HasRow(w, d)'
  BY DEF HasRow
<1>2. ASSUME w = via, d \in ds PROVE HasRow(w, d)'
  <2>1. [via |-> via, deposit |-> d, user |-> u] \in rows'
    BY <1>2 DEF Rows
  <2>2. QED
    BY <1>2, <2>1 DEF HasRow
<1>3. ASSUME HasRow(w, d)', ~HasRow(w, d) PROVE w = via /\ d \in ds
  <2>1. PICK r \in rows' : r.via = w /\ r.deposit = d
    BY <1>3 DEF HasRow
  <2>2. r \in Rows(via, ds, u)
    BY <1>3, <2>1 DEF HasRow
  <2>3. QED
    BY <2>1, <2>2 DEF Rows
<1>4. QED
  BY <1>1, <1>2, <1>3

\* A batch that is not refused credits deposits no verification had credited, and
\* leaves a row for each.
LEMMA VerifyCommitsStep ==
  ASSUME IInv, NEW s \in Sessions, VerifyCommits(s)
  PROVE  IInv'
<1> USE DEF IInv
<1>1. SessionTyped
  BY CloseSessionTyped DEF VerifyCommits
<1>2. batch[s] \subseteq Deposits /\ caller[s] \in Users
  BY DEF VerifyCommits, TypeOK
<1>3. Cardinality(batch[s]) \in Nat
  BY <1>2, DepositsAssumption, FS_Subset, FS_CardinalityType
<1>4. rows' \subseteq Row
  BY <1>2 DEF VerifyCommits, TypeOK, Rows, Row
<1>5. balance' \in [Users -> Int]
  BY <1>2, <1>3 DEF VerifyCommits, TypeOK
<1>6. credits' \in [Deposits -> Nat]
  BY DEF VerifyCommits, Credited, TypeOK
<1>7. \A d \in Deposits : /\ HasRow("webhook", d)' <=> HasRow("webhook", d)
                          /\ HasRow("verify", d)' <=> HasRow("verify", d) \/ d \in batch[s]
  BY RowsAdded DEF VerifyCommits
<1>8. \A d \in batch[s] : ~HasRow("verify", d)
  BY DEF VerifyCommits, Refused
<1>9. CreditsMatchRows'
  BY <1>2, <1>7, <1>8 DEF VerifyCommits, Credited, CreditsMatchRows, TypeOK
<1>10. HookIsNew' /\ (~WebhookOn => NoWebhooks')
  BY <1>7 DEF VerifyCommits, HookIsNew, Hook, NoWebhooks, Rows
<1>11. QED
  BY <1>1, <1>4, <1>5, <1>6, <1>9, <1>10 DEF VerifyCommits, TypeOK, SessionTyped

LEMMA WebhookReadsStep ==
  ASSUME IInv, NEW d \in Deposits, WebhookReads(d)
  PROVE  IInv'
<1> USE DEF IInv
<1>1. /\ hook' \in Hook /\ hook'.deposit = d
      /\ Resolved[d] \in Users
  BY DepositsAssumption DEF WebhookReads, Hook, TypeOK
<1>2. QED
  BY <1>1 DEF WebhookReads, store, session, TypeOK, HookIsNew, CreditsMatchRows, HasRow

\* The row of the webhook is new, so that its credit is.
LEMMA WebhookCommitsStep ==
  ASSUME IInv, WebhookCommits
  PROVE  IInv'
<1> USE DEF IInv
<1> DEFINE e == hook.deposit
           u == Resolved[e]
<1>1. /\ e \in Deposits /\ u \in Users /\ hook.saw \in Int
      /\ ~HasRow("webhook", e)
      /\ hook' = NoHook /\ WebhookOn
  BY DepositsAssumption DEF WebhookCommits, HookIsNew, Hook, NoWebhooks
<1>2. /\ rows' = rows \cup Rows("webhook", {e}, u)
      /\ Credited({e})
      /\ balance' = [balance EXCEPT ![u] = hook.saw + 1]
  BY DEF WebhookCommits
<1>3. rows' \subseteq Row
  BY <1>1, <1>2 DEF TypeOK, Rows, Row
<1>4. balance' \in [Users -> Int] /\ credits' \in [Deposits -> Nat]
  BY <1>1, <1>2 DEF TypeOK, Credited
<1>5. \A d \in Deposits : /\ HasRow("verify", d)' <=> HasRow("verify", d)
                          /\ HasRow("webhook", d)' <=> HasRow("webhook", d) \/ d = e
  BY <1>2, RowsAdded
<1>6. CreditsMatchRows'
  BY <1>1, <1>2, <1>5 DEF Credited, CreditsMatchRows, TypeOK
<1>7. QED
  BY <1>1, <1>3, <1>4, <1>6 DEF WebhookCommits, session, TypeOK, HookIsNew

LEMMA IInvStep == IInv /\ [Next]_vars => IInv'
<1> SUFFICES ASSUME IInv, [Next]_vars PROVE IInv'
  OBVIOUS
<1>0. SessionTyped \/ session' # session
  BY DEF IInv, SessionTyped, TypeOK, session
<1>1. CASE UNCHANGED vars
  BY <1>0, <1>1, SessionStep DEF vars, IInv, TypeOK
<1>2. ASSUME NEW d \in Deposits, Arrive(d) PROVE IInv'
  BY <1>0, <1>2, SessionStep DEF Arrive, IInv, TypeOK
<1>3. ASSUME NEW s \in Sessions, NEW u \in Users, Begin(s, u) PROVE IInv'
  <2>1. SessionTyped
    BY <1>3 DEF Begin, IInv, TypeOK, SessionTyped
  <2>2. QED
    BY <1>3, <2>1, SessionStep DEF Begin, IInv, TypeOK
<1>4. ASSUME NEW s \in Sessions, List(s) PROVE IInv'
  <2>1. SessionTyped
    BY <1>4 DEF List, IInv, TypeOK, SessionTyped
  <2>2. QED
    BY <1>4, <2>1, SessionStep DEF List, IInv, TypeOK
<1>5. ASSUME NEW s \in Sessions, NEW d \in Deposits, Check(s, d) PROVE IInv'
  <2>1. SessionTyped
    BY <1>5 DEF Check, IInv, TypeOK, SessionTyped
  <2>2. QED
    BY <1>5, <2>1, SessionStep DEF Check, IInv, TypeOK
<1>6. ASSUME NEW s \in Sessions, VerifyCommits(s) PROVE IInv'
  BY <1>6, VerifyCommitsStep
<1>7. ASSUME NEW s \in Sessions, VerifyRefused(s) PROVE IInv'
  BY <1>7, CloseSessionTyped, SessionStep DEF VerifyRefused, IInv, TypeOK
<1>8. ASSUME NEW s \in Sessions, VerifyFails(s) PROVE IInv'
  BY <1>8, CloseSessionTyped, SessionStep, DepositsAssumption
     DEF VerifyFails, IInv, TypeOK
<1>9. ASSUME NEW d \in Deposits, WebhookReads(d) PROVE IInv'
  BY <1>9, WebhookReadsStep
<1>10. CASE WebhookCommits
  BY <1>10, WebhookCommitsStep
<1>11. CASE WebhookFails
  BY <1>11, DepositsAssumption
     DEF WebhookFails, store, session, IInv, TypeOK, HookIsNew, CreditsMatchRows,
         NoWebhooks, HasRow
<1>12. QED
  BY <1>1, <1>2, <1>3, <1>4, <1>5, <1>6, <1>7, <1>8, <1>9, <1>10, <1>11
     DEF Next, Verify, Webhook

LEMMA IInvAlways == Spec => []IInv
BY IInvInit, IInvStep, PTL DEF Spec

\* Rows, sessions and balances keep their types.
THEOREM TypeCorrect == Spec => []TypeOK
<1>1. IInv => TypeOK
  BY DEF IInv
<1>2. QED
  BY <1>1, IInvAlways, PTL

\* Each handler credits a deposit at most once and leaves a row for every credit,
\* in any deployment and however verifications and webhooks interleave.
THEOREM CreditsAlwaysMatchRows == Spec => []CreditsMatchRows
<1>1. IInv => CreditsMatchRows
  BY DEF IInv
<1>2. QED
  BY <1>1, IInvAlways, PTL

\* Without webhooks a deposit is credited at most once, whatever number of users
\* share the payer's masked document and verify at the same time.
THEOREM VerifiedDepositCreditedOnce ==
  ASSUME ~WebhookOn
  PROVE  Spec => []OneCreditPerDeposit
<1>1. IInv => OneCreditPerDeposit
  BY DEF IInv, NoWebhooks, CreditsMatchRows, HasRow, OneCreditPerDeposit
<1>2. QED
  BY <1>1, IInvAlways, PTL

-----------------------------------------------------------------------------
(* No balance is more than the rows account for.                           *)

\* A commit adds to a copy: the copies are accounted for as well.
CopiesAccounted ==
  /\ \A s \in Sessions :
       step[s] # "idle" => saw[s] <= Cardinality(Accounted(caller[s]))
  /\ hook # NoHook => hook.saw <= Cardinality(Accounted(Resolved[hook.deposit]))

AInv == IInv /\ IsFiniteSet(rows) /\ BalanceIsAccounted /\ CopiesAccounted

LEMMA AccountedIsFinite ==
  ASSUME IsFiniteSet(rows), NEW u
  PROVE  IsFiniteSet(Accounted(u)) /\ Cardinality(Accounted(u)) \in Nat
<1>1. Accounted(u) \subseteq rows
  BY DEF Accounted
<1>2. QED
  BY <1>1, FS_Subset, FS_CardinalityType

\* A commit has a row for each deposit.
LEMMA RowsCounted ==
  ASSUME NEW via, NEW ds, NEW u, IsFiniteSet(ds)
  PROVE  IsFiniteSet(Rows(via, ds, u)) /\ Cardinality(Rows(via, ds, u)) = Cardinality(ds)
<1> DEFINE R == Rows(via, ds, u)
           f == [d \in ds |-> [via |-> via, deposit |-> d, user |-> u]]
<1>1. f \in [ds -> R]
  BY DEF Rows
<1>2. IsInjective(f)
  BY DEF IsInjective
<1>3. \A r \in R : r.deposit \in ds /\ f[r.deposit] = r
  BY DEF Rows
<1>4. f \in Bijection(ds, R)
  BY <1>1, <1>2, <1>3 DEF Bijection, Injection, Surjection
<1>5. QED
  BY <1>4, FS_Bijection DEF ExistsBijection

\* A commit of new rows accounts for its deposits, and for nobody else.
LEMMA RowsAccount ==
  ASSUME IsFiniteSet(rows), NEW via, NEW ds, NEW u, IsFiniteSet(ds),
         \A d \in ds : ~HasRow(via, d),
         rows' = rows \cup Rows(via, ds, u)
  PROVE  /\ IsFiniteSet(rows')
         /\ Cardinality(Accounted(u)') = Cardinality(Accounted(u)) + Cardinality(ds)
         /\ \A w : Cardinality(Accounted(w)) <= Cardinality(Accounted(w)')
<1> DEFINE R == Rows(via, ds, u)
<1>1. IsFiniteSet(R) /\ Cardinality(R) = Cardinality(ds) /\ Cardinality(ds) \in Nat
  BY RowsCounted, FS_CardinalityType
<1>2. IsFiniteSet(rows')
  BY <1>1, FS_Union
<1>3. Accounted(u)' = Accounted(u) \cup R
  BY DEF Accounted, Rows
<1>4. Accounted(u) \cap R = {}
  BY DEF Accounted, Rows, HasRow
<1>5. Cardinality(Accounted(u)') = Cardinality(Accounted(u)) + Cardinality(ds)
  BY <1>1, <1>3, <1>4, AccountedIsFinite, FS_Union, FS_EmptySet, SMTT(30)
<1>6. ASSUME NEW w PROVE Cardinality(Accounted(w)) <= Cardinality(Accounted(w)')
  <2>1. Accounted(w) \subseteq Accounted(w)' /\ Accounted(w)' \subseteq rows'
    BY DEF Accounted
  <2>2. QED
    BY <1>2, <2>1, FS_Subset
<1>7. QED
  BY <1>2, <1>5, <1>6

\* A copy that is new is of the balance of now.
LEMMA NothingCommitted ==
  ASSUME AInv, IInv', UNCHANGED <<rows, balance>>,
         \A s \in Sessions : step'[s] # "idle" =>
           \/ step[s] # "idle" /\ saw'[s] = saw[s] /\ caller'[s] = caller[s]
           \/ caller'[s] \in Users /\ saw'[s] = balance[caller'[s]],
         hook' # NoHook =>
           \/ hook' = hook
           \/ /\ Resolved[hook'.deposit] \in Users
              /\ hook'.saw = balance[Resolved[hook'.deposit]]
  PROVE  AInv'
<1>1. \A u : Accounted(u)' = Accounted(u)
  BY DEF Accounted
<1>2. BalanceIsAccounted'
  BY <1>1 DEF AInv, BalanceIsAccounted
<1>3. ASSUME NEW s \in Sessions, step'[s] # "idle"
      PROVE  saw'[s] <= Cardinality(Accounted(caller[s])')
  <2>1. PICK u : u = caller'[s]
    OBVIOUS
  <2>2. saw'[s] <= Cardinality(Accounted(u))
    BY <1>3, <2>1 DEF AInv, CopiesAccounted, BalanceIsAccounted
  <2>3. Accounted(caller[s])' = Accounted(u)
    BY <2>1 DEF Accounted
  <2>4. QED
    BY <2>2, <2>3
<1>4. ASSUME hook' # NoHook
      PROVE  hook'.saw <= Cardinality(Accounted(Resolved[hook.deposit])')
  <2>1. PICK u : u = Resolved[hook'.deposit]
    OBVIOUS
  <2>2. hook'.saw <= Cardinality(Accounted(u))
    BY <1>4, <2>1 DEF AInv, CopiesAccounted, BalanceIsAccounted
  <2>3. Accounted(Resolved[hook.deposit])' = Accounted(u)
    BY <2>1 DEF Accounted
  <2>4. QED
    BY <2>2, <2>3
<1>5. QED
  BY <1>2, <1>3, <1>4 DEF AInv, CopiesAccounted

\* The balance that is written is a copy and what the new rows account for; the
\* other copies lag behind.
LEMMA Committed ==
  ASSUME AInv, IInv', NEW via, NEW ds, NEW u \in Users, NEW n \in Int,
         IsFiniteSet(ds), \A d \in ds : ~HasRow(via, d),
         rows' = rows \cup Rows(via, ds, u),
         n <= Cardinality(Accounted(u)),
         \A w \in Users : \/ balance'[w] = balance[w]
                          \/ w = u /\ balance'[w] = n + Cardinality(ds),
         \A s \in Sessions : step'[s] # "idle" =>
           step[s] # "idle" /\ saw'[s] = saw[s] /\ caller'[s] = caller[s],
         hook' # NoHook => hook' = hook
  PROVE  AInv'
<1> USE DEF AInv
<1>1. /\ IsFiniteSet(rows')
      /\ Cardinality(Accounted(u)') = Cardinality(Accounted(u)) + Cardinality(ds)
      /\ \A w : Cardinality(Accounted(w)) <= Cardinality(Accounted(w)')
  BY RowsAccount
<1>2. \A w : /\ Cardinality(Accounted(w)) \in Nat
             /\ Cardinality(Accounted(w)') \in Nat
  <2>1. ASSUME NEW w PROVE Cardinality(Accounted(w)')  \in Nat
    <3>1. Accounted(w)' \subseteq rows'
      BY DEF Accounted
    <3>2. QED
      BY <1>1, <3>1, FS_Subset, FS_CardinalityType
  <2>2. QED
    BY <2>1, AccountedIsFinite
<1>3. Cardinality(ds) \in Nat
  BY FS_CardinalityType
<1>4. \A w \in Users : balance'[w] <= Cardinality(Accounted(w)')
  BY <1>1, <1>2, <1>3 DEF BalanceIsAccounted, IInv, TypeOK
<1>5. ASSUME NEW s \in Sessions, step'[s] # "idle"
      PROVE  saw'[s] <= Cardinality(Accounted(caller[s])')
  <2>1. PICK w : w = caller[s] /\ w = caller'[s]
    BY <1>5
  <2>2. saw'[s] <= Cardinality(Accounted(w)) /\ saw'[s] \in Int
    BY <1>5, <2>1 DEF CopiesAccounted, IInv, TypeOK
  <2>3. Accounted(caller[s])' = Accounted(w)'
    BY <2>1 DEF Accounted
  <2>4. QED
    BY <1>1, <1>2, <2>2, <2>3
<1>6. ASSUME hook' # NoHook
      PROVE  hook'.saw <= Cardinality(Accounted(Resolved[hook.deposit])')
  <2>1. PICK w : w = Resolved[hook.deposit] /\ w = Resolved[hook'.deposit]
    BY <1>6
  <2>2. hook'.saw <= Cardinality(Accounted(w)) /\ hook'.saw \in Int
    BY <1>6, <2>1 DEF CopiesAccounted, IInv, HookIsNew, Hook
  <2>3. Accounted(Resolved[hook.deposit])' = Accounted(w)'
    BY <2>1 DEF Accounted
  <2>4. QED
    BY <1>1, <1>2, <2>2, <2>3
<1>7. QED
  BY <1>1, <1>4, <1>5, <1>6 DEF BalanceIsAccounted, CopiesAccounted

LEMMA AInvInit == Init => AInv
<1> SUFFICES ASSUME Init PROVE AInv
  OBVIOUS
<1>1. IInv
  BY IInvInit
<1>2. IsFiniteSet(rows)
  BY FS_EmptySet DEF Init
<1>3. \A u \in Users : balance[u] = 0 /\ Cardinality(Accounted(u)) \in Nat
  BY <1>2, AccountedIsFinite DEF Init
<1>4. QED
  BY <1>1, <1>2, <1>3 DEF Init, AInv, BalanceIsAccounted, CopiesAccounted

LEMMA AInvStep == AInv /\ [Next]_vars => AInv'
<1> SUFFICES ASSUME AInv, [Next]_vars PROVE AInv'
  OBVIOUS
<1>0. IInv /\ IInv'
  BY IInvStep DEF AInv
<1>1. ASSUME NEW s \in Sessions, CloseSession(s), UNCHANGED <<rows, balance, hook>>
      PROVE  AInv'
  BY <1>0, <1>1, NothingCommitted DEF CloseSession, IInv, TypeOK
<1>2. ASSUME UNCHANGED <<rows, balance, step, caller, saw>>,
             hook' = hook \/ hook' = NoHook
      PROVE  AInv'
  BY <1>0, <1>2, NothingCommitted
<1>3. ASSUME NEW s \in Sessions, NEW u \in Users, Begin(s, u) PROVE AInv'
  BY <1>0, <1>3, NothingCommitted DEF Begin, store, IInv, TypeOK
<1>4. ASSUME NEW s \in Sessions, List(s) PROVE AInv'
  BY <1>0, <1>4, NothingCommitted DEF List, store, IInv, TypeOK
<1>5. ASSUME NEW s \in Sessions, VerifyCommits(s) PROVE AInv'
  <2>1. PICK u \in Users : u = caller[s]
    BY <1>0, <1>5 DEF VerifyCommits, IInv, TypeOK
  <2>2. PICK ds : ds = batch[s]
    OBVIOUS
  <2>3. ds \subseteq Deposits /\ IsFiniteSet(ds)
    BY <1>0, <2>2, DepositsAssumption, FS_Subset DEF IInv, TypeOK
  <2>4. PICK n \in Int : n = saw[s] /\ n <= Cardinality(Accounted(u))
    BY <1>0, <1>5, <2>1 DEF VerifyCommits, AInv, CopiesAccounted, IInv, TypeOK
  <2>5. \A w \in Users : \/ balance'[w] = balance[w]
                         \/ w = u /\ balance'[w] = n + Cardinality(ds)
    BY <1>0, <1>5, <2>1, <2>2, <2>4 DEF VerifyCommits, IInv, TypeOK
  <2>6. \A t \in Sessions : step'[t] # "idle" =>
           step[t] # "idle" /\ saw'[t] = saw[t] /\ caller'[t] = caller[t]
    BY <1>0, <1>5 DEF VerifyCommits, CloseSession, IInv, TypeOK
  <2>7. /\ \A d \in ds : ~HasRow("verify", d)
        /\ rows' = rows \cup Rows("verify", ds, u)
        /\ hook' = hook
    BY <1>5, <2>1, <2>2 DEF VerifyCommits, Refused
  <2>8. QED
    BY <1>0, <2>3, <2>4, <2>5, <2>6, <2>7, Committed
<1>6. ASSUME NEW d \in Deposits, WebhookReads(d) PROVE AInv'
  <2>1. Resolved[d] \in Users /\ hook'.deposit = d /\ hook'.saw = balance[Resolved[d]]
    BY <1>6, DepositsAssumption DEF WebhookReads
  <2>2. QED
    BY <1>0, <1>6, <2>1, NothingCommitted DEF WebhookReads, store, session
<1>7. CASE WebhookCommits
  <2>1. PICK e \in Deposits : e = hook.deposit /\ ~HasRow("webhook", e)
    BY <1>0, <1>7 DEF WebhookCommits, IInv, HookIsNew, Hook
  <2>2. PICK u \in Users : u = Resolved[e]
    BY <1>0, <1>7, <2>1 DEF WebhookCommits, IInv, HookIsNew
  <2>3. PICK n \in Int : n = hook.saw /\ n <= Cardinality(Accounted(u))
    BY <1>0, <1>7, <2>1, <2>2
       DEF WebhookCommits, AInv, CopiesAccounted, IInv, HookIsNew, Hook
  <2>4. PICK ds : ds = {e}
    OBVIOUS
  <2>5. IsFiniteSet(ds) /\ Cardinality(ds) = 1
    BY <2>4, FS_Singleton
  <2>6. \A w \in Users : \/ balance'[w] = balance[w]
                         \/ w = u /\ balance'[w] = n + Cardinality(ds)
    BY <1>0, <1>7, <2>1, <2>2, <2>3, <2>5 DEF WebhookCommits, IInv, TypeOK
  <2>7. /\ rows' = rows \cup Rows("webhook", ds, u)
        /\ hook' = NoHook /\ UNCHANGED <<step, saw, caller>>
    BY <1>7, <2>1, <2>2, <2>4 DEF WebhookCommits, session
  <2>8. \A d \in ds : ~HasRow("webhook", d)
    BY <2>1, <2>4
  <2>9. QED
    BY <1>0, <2>3, <2>5, <2>6, <2>7, <2>8, Committed
<1>8. QED
  BY <1>1, <1>2, <1>3, <1>4, <1>5, <1>6, <1>7
     DEF Next, Verify, Webhook, Arrive, Check, VerifyRefused, VerifyFails,
         WebhookFails, vars, store, session

\* In any deployment and schedule, with any number of users, deposits and
\* sessions, stale balances lose credits but invent none.
THEOREM BalancesAreAccounted == Spec => []BalanceIsAccounted
<1>1. AInv => BalanceIsAccounted
  BY DEF AInv
<1>2. QED
  BY <1>1, AInvInit, AInvStep, PTL DEF Spec

-----------------------------------------------------------------------------
(* One credit with webhooks, when they come first.                         *)

\* PromptSpec takes the steps of Spec that list no deposit whose webhook finds
\* a customer before the row of that webhook is there.
Prompt ==
  \A s \in Sessions, d \in Deposits :
    d \in listed'[s] \ listed[s] /\ Resolved[d] # NoUser => HasRow("webhook", d)

\* Every deposit that a webhook can credit is one that a verification recognises,
\* by the payment it names or by the transaction the webhook names.
Recognised == \A d \in Deposits : Resolved[d] # NoUser => d \in Linked \cup Referenced

\* What a webhook can credit is listed after its row is there, and then left out
\* of the batch: no verification ever credits it.
LeftToWebhooks ==
  \A d \in Deposits :
    IF Resolved[d] # NoUser
    THEN /\ ~HasRow("verify", d)
         /\ \A s \in Sessions : /\ d \notin batch[s]
                                /\ d \in listed[s] => HasRow("webhook", d)
    ELSE ~HasRow("webhook", d)

\* A session that is closed, or only begins, lists and takes nothing.
LEMMA NothingTaken ==
  ASSUME LeftToWebhooks, rows' = rows,
         \A s \in Sessions : listed'[s] \subseteq listed[s] /\ batch'[s] \subseteq batch[s]
  PROVE  LeftToWebhooks'
<1>1. \A via, d : HasRow(via, d)' <=> HasRow(via, d)
  BY DEF HasRow
<1>2. QED
  BY <1>1 DEF LeftToWebhooks

LEMMA CloseTakesNothing ==
  ASSUME IInv, NEW s \in Sessions, CloseSession(s)
  PROVE  \A r \in Sessions : listed'[r] \subseteq listed[r] /\ batch'[r] \subseteq batch[r]
BY DEF IInv, TypeOK, CloseSession

LEMMA LeftToWebhooksInit == Init => LeftToWebhooks
BY DEF Init, LeftToWebhooks, HasRow

LEMMA LeftToWebhooksStep ==
  ASSUME Recognised, IInv, LeftToWebhooks, [Next /\ Prompt]_vars
  PROVE  LeftToWebhooks'
<1>1. CASE UNCHANGED vars
  BY <1>1, NothingTaken DEF vars, store, session
<1>2. ASSUME NEW d \in Deposits, Arrive(d) PROVE LeftToWebhooks'
  BY <1>2, NothingTaken DEF Arrive, store, session
<1>3. ASSUME NEW s \in Sessions, NEW u \in Users, Begin(s, u) PROVE LeftToWebhooks'
  BY <1>3, NothingTaken DEF Begin, store
<1>4. ASSUME NEW s \in Sessions, List(s), Prompt PROVE LeftToWebhooks'
  <2>1. rows' = rows /\ batch' = batch
    BY <1>4 DEF List, store
  <2>2. \A via, d : HasRow(via, d)' <=> HasRow(via, d)
    BY <2>1 DEF HasRow
  <2>3. ASSUME NEW d \in Deposits, Resolved[d] # NoUser, NEW r \in Sessions, d \in listed'[r]
        PROVE  HasRow("webhook", d)
    BY <1>4, <2>3 DEF Prompt, LeftToWebhooks
  <2>4. QED
    BY <2>1, <2>2, <2>3 DEF LeftToWebhooks
<1>5. ASSUME NEW s \in Sessions, NEW d \in Deposits, Check(s, d) PROVE LeftToWebhooks'
  <2>1. rows' = rows
    BY <1>5 DEF Check, store
  <2>2. \A via, e : HasRow(via, e)' <=> HasRow(via, e)
    BY <2>1 DEF HasRow
  <2>3. \A r \in Sessions : listed'[r] \subseteq listed[r]
    BY <1>5 DEF Check, IInv, TypeOK
  <2>4. Resolved[d] # NoUser => Processed(d)
    BY <1>5 DEF Check, LeftToWebhooks, Recognised, Processed
  <2>5. ASSUME NEW e \in Deposits, Resolved[e] # NoUser, NEW r \in Sessions
        PROVE  e \notin batch'[r]
    <3>1. e \notin batch[r]
      BY <2>5 DEF LeftToWebhooks
    <3>2. CASE e = d
      BY <1>5, <2>4, <2>5, <3>1, <3>2 DEF Check, IInv, TypeOK
    <3>3. CASE e # d
      BY <1>5, <3>1, <3>3 DEF Check, IInv, TypeOK
    <3>4. QED
      BY <3>2, <3>3
  <2>6. QED
    BY <2>2, <2>3, <2>5 DEF LeftToWebhooks
<1>6. ASSUME NEW s \in Sessions, VerifyCommits(s) PROVE LeftToWebhooks'
  <2>1. \A d \in Deposits : /\ HasRow("webhook", d)' <=> HasRow("webhook", d)
                            /\ HasRow("verify", d)' <=> HasRow("verify", d) \/ d \in batch[s]
    BY <1>6, RowsAdded DEF VerifyCommits
  <2>2. \A r \in Sessions : listed'[r] \subseteq listed[r] /\ batch'[r] \subseteq batch[r]
    BY <1>6, CloseTakesNothing DEF VerifyCommits
  <2>3. QED
    BY <2>1, <2>2 DEF LeftToWebhooks
<1>7. ASSUME NEW s \in Sessions, VerifyRefused(s) \/ VerifyFails(s) PROVE LeftToWebhooks'
  BY <1>7, CloseTakesNothing, NothingTaken DEF VerifyRefused, VerifyFails, store
<1>8. ASSUME NEW d \in Deposits, WebhookReads(d) PROVE LeftToWebhooks'
  BY <1>8, NothingTaken DEF WebhookReads, store, session
<1>9. CASE WebhookCommits
  <2>1. /\ Resolved[hook.deposit] # NoUser
        /\ listed' = listed /\ batch' = batch
    BY <1>9, DepositsAssumption DEF WebhookCommits, session, IInv, HookIsNew
  <2>2. \A d \in Deposits :
          /\ HasRow("verify", d)' <=> HasRow("verify", d)
          /\ HasRow("webhook", d)' <=> HasRow("webhook", d) \/ d = hook.deposit
    BY <1>9, RowsAdded DEF WebhookCommits
  <2>3. QED
    BY <2>1, <2>2 DEF LeftToWebhooks
<1>10. CASE WebhookFails
  BY <1>10, NothingTaken DEF WebhookFails, store, session
<1>11. QED
  BY <1>1, <1>2, <1>3, <1>4, <1>5, <1>6, <1>7, <1>8, <1>9, <1>10
     DEF Next, Verify, Webhook

\* With webhooks that come before the list, and name what the verification knows
\* the payment by, a deposit is credited at most once: whatever number of users
\* share the payer's masked document, and whatever else interleaves or fails.
THEOREM PromptDepositCreditedOnce ==
  ASSUME Recognised
  PROVE  PromptSpec => []OneCreditPerDeposit
<1>1. IInv /\ LeftToWebhooks => OneCreditPerDeposit
  BY DEF IInv, TypeOK, LeftToWebhooks, CreditsMatchRows, OneCreditPerDeposit
<1>2. PromptSpec => Init /\ [][Next /\ Prompt]_vars
  BY PTL DEF PromptSpec, Prompt
<1>3. IInv /\ [Next /\ Prompt]_vars => IInv'
  BY IInvStep
<1>4. IInv /\ LeftToWebhooks /\ [Next /\ Prompt]_vars => LeftToWebhooks'
  BY LeftToWebhooksStep
<1>5. QED
  BY <1>1, <1>2, <1>3, <1>4, IInvInit, LeftToWebhooksInit, PTL
=============================================================================
