---------------------------- MODULE InboundDeposits ----------------------------
(***************************************************************************)
(* PIX received without a charge: deposits by the platform's static QR     *)
(* code, and payments to the virtual key of a customer.  Two handlers      *)
(* credit them, each with a row of its own in transacoes_pix.              *)
(*                                                                         *)
(* The webhook (PAYMENT_RECEIVED, PAYMENT_CONFIRMED) looks for the id of   *)
(* the payment, finds the customer, and inserts a row with that id.        *)
(* POST /pix/deposito/verificar lists the credits at Asaas, takes those    *)
(* whose payer's document is the caller's, skips what it recognises as     *)
(* processed, and commits the others in one batch, with the id of the PIX  *)
(* transaction.  The two ids differ.  Verifications run on worker threads, *)
(* webhooks on the event loop, one at a time.                              *)
(***************************************************************************)
EXTENDS Integers, FiniteSets

CONSTANTS
  Users,
  NoUser,
  Deposits,    \* payments received at Asaas, all of value 1
  Senders,     \* Senders[d]: the users whose document matches the payer's, more
               \* than one when Asaas masks it
  Resolved,    \* Resolved[d]: the user the webhook finds, or NoUser
  Linked,      \* deposits whose PIX transaction names its payment
  Referenced,  \* deposits whose webhook names the PIX transaction
  Sessions,    \* worker threads
  WebhookOn,   \* whether the deployment has a webhook token
  MaxFailures  \* bound: handlers that fail half way

ASSUME DepositsAssumption ==
  /\ NoUser \notin Users
  /\ Senders \in [Deposits -> SUBSET Users]
  /\ Resolved \in [Deposits -> Users \cup {NoUser}]
  /\ Linked \subseteq Deposits
  /\ Referenced \subseteq Deposits
  /\ IsFiniteSet(Deposits)
  /\ WebhookOn \in BOOLEAN
  /\ MaxFailures \in Nat

VARIABLES
  arrived,   \* the deposits that reached Asaas
  rows,      \* transacoes_pix: rows inserted for deposits
  balance,   \* balance[u]: users.saldo
  credits,   \* credits[d]: commits that credited somebody for d
  step,      \* step[s]: how far the verification has come
  caller,    \* caller[s]: the user it authenticated
  listed,    \* listed[s]: deposits of Asaas' list it has still to look at
  batch,     \* batch[s]: deposits it is going to credit
  saw,       \* saw[s]: the balance of the caller in the session
  hook,      \* the webhook being handled, or NoHook
  failures   \* handlers that failed half way

store == <<rows, balance, credits>>
session == <<step, caller, listed, batch, saw>>
vars == <<arrived, store, session, hook, failures>>

Row == [via : {"webhook", "verify"}, deposit : Deposits, user : Users]
Hook == [deposit : Deposits, saw : Int]
NoHook == [deposit |-> NoUser, saw |-> 0]

TypeOK ==
  /\ arrived \subseteq Deposits
  /\ rows \subseteq Row
  /\ balance \in [Users -> Int]
  /\ credits \in [Deposits -> Nat]
  /\ step \in [Sessions -> {"idle", "authenticated", "checking"}]
  /\ caller \in [Sessions -> Users \cup {NoUser}]
  /\ \A s \in Sessions : step[s] # "idle" => caller[s] \in Users
  /\ listed \in [Sessions -> SUBSET Deposits]
  /\ batch \in [Sessions -> SUBSET Deposits]
  /\ saw \in [Sessions -> Int]
  /\ hook \in Hook \cup {NoHook}
  /\ failures \in 0 .. MaxFailures

Init ==
  /\ arrived = {} /\ rows = {}
  /\ balance = [u \in Users |-> 0]
  /\ credits = [d \in Deposits |-> 0]
  /\ step = [s \in Sessions |-> "idle"]
  /\ caller = [s \in Sessions |-> NoUser]
  /\ listed = [s \in Sessions |-> {}]
  /\ batch = [s \in Sessions |-> {}]
  /\ saw = [s \in Sessions |-> 0]
  /\ hook = NoHook
  /\ failures = 0

HasRow(via, d) == \E r \in rows : r.via = via /\ r.deposit = d

\* External: a payment is received at Asaas.
Arrive(d) ==
  /\ d \notin arrived
  /\ arrived' = arrived \cup {d}
  /\ UNCHANGED <<store, session, hook, failures>>

-----------------------------------------------------------------------------
(* POST /pix/deposito/verificar.                                           *)

\* get_current_user loads the account; the session never reloads it.
Begin(s, u) ==
  /\ step[s] = "idle"
  /\ step' = [step EXCEPT ![s] = "authenticated"]
  /\ caller' = [caller EXCEPT ![s] = u]
  /\ saw' = [saw EXCEPT ![s] = balance[u]]
  /\ UNCHANGED <<arrived, store, listed, batch, hook, failures>>

CloseSession(s) ==
  /\ step' = [step EXCEPT ![s] = "idle"]
  /\ caller' = [caller EXCEPT ![s] = NoUser]
  /\ listed' = [listed EXCEPT ![s] = {}]
  /\ batch' = [batch EXCEPT ![s] = {}]
  /\ saw' = [saw EXCEPT ![s] = 0]

\* Asaas lists fifty credits of the last two days; an error is an empty list.
List(s) ==
  /\ step[s] = "authenticated"
  /\ step' = [step EXCEPT ![s] = "checking"]
  /\ \E found \in SUBSET arrived : listed' = [listed EXCEPT ![s] = found]
  /\ UNCHANGED <<arrived, store, caller, batch, saw, hook, failures>>

\* Faulty variant of Processed: the correlation id is not looked at.
ProcessedByPaymentOnly(d) ==
  \/ HasRow("verify", d)
  \/ d \in Linked /\ HasRow("webhook", d)

\* The three checks: the key of an earlier verification, the payment's id, and
\* the PIX transaction's id as the correlation id of the webhook's row.
Processed(d) ==
  \/ HasRow("verify", d)
  \/ d \in Linked /\ HasRow("webhook", d)
  \/ d \in Referenced /\ HasRow("webhook", d)

Check(s, d) ==
  /\ step[s] = "checking" /\ d \in listed[s]
  /\ listed' = [listed EXCEPT ![s] = @ \ {d}]
  /\ batch' = [batch EXCEPT ![s] =
                 IF caller[s] \in Senders[d] /\ ~Processed(d) THEN @ \cup {d} ELSE @]
  /\ UNCHANGED <<arrived, store, step, caller, saw, hook, failures>>

Rows(via, ds, u) == [via : {via}, deposit : ds, user : {u}]
Credited(ds) == credits' = [d \in Deposits |-> credits[d] + IF d \in ds THEN 1 ELSE 0]

\* Faulty variant of Refused: the key of a verification names its caller.
RefusedToCaller(s) ==
  \E r \in rows : r.via = "verify" /\ r.deposit \in batch[s] /\ r.user = caller[s]

\* The unique index on idempotency_key refuses the batch.
Refused(s) == \E d \in batch[s] : HasRow("verify", d)

VerifyCommits(s) ==
  /\ step[s] = "checking" /\ listed[s] = {}
  /\ ~Refused(s)
  /\ rows' = rows \cup Rows("verify", batch[s], caller[s])
  /\ Credited(batch[s])
  /\ balance' = [balance EXCEPT ![caller[s]] =
                   IF batch[s] = {} THEN @ ELSE saw[s] + Cardinality(batch[s])]
  /\ CloseSession(s)
  /\ UNCHANGED <<arrived, hook, failures>>

\* Faulty variant of VerifyRefused: the balance is committed before the rows.
BalanceCommittedFirst(s) ==
  /\ step[s] = "checking" /\ listed[s] = {}
  /\ Refused(s)
  /\ balance' = [balance EXCEPT ![caller[s]] = saw[s] + Cardinality(batch[s])]
  /\ CloseSession(s)
  /\ UNCHANGED <<arrived, rows, credits, hook, failures>>

\* The whole batch is rolled back, balance included.
VerifyRefused(s) ==
  /\ step[s] = "checking" /\ listed[s] = {}
  /\ Refused(s)
  /\ CloseSession(s)
  /\ UNCHANGED <<arrived, store, hook, failures>>

\* The handler raises, or the process dies.
VerifyFails(s) ==
  /\ step[s] # "idle"
  /\ failures < MaxFailures /\ failures' = failures + 1
  /\ CloseSession(s)
  /\ UNCHANGED <<arrived, store, hook>>

-----------------------------------------------------------------------------
(* The webhook of the payment.                                             *)

\* No row has the payment's id, and a user is found.  Otherwise the webhook is
\* answered with nothing done.
WebhookReads(d) ==
  /\ WebhookOn
  /\ hook = NoHook
  /\ d \in arrived
  /\ ~HasRow("webhook", d)
  /\ Resolved[d] # NoUser
  /\ hook' = [deposit |-> d, saw |-> balance[Resolved[d]]]
  /\ UNCHANGED <<arrived, store, session, failures>>

WebhookCommits ==
  /\ hook # NoHook
  /\ LET u == Resolved[hook.deposit] IN
       /\ rows' = rows \cup Rows("webhook", {hook.deposit}, u)
       /\ Credited({hook.deposit})
       /\ balance' = [balance EXCEPT ![u] = hook.saw + 1]
  /\ hook' = NoHook
  /\ UNCHANGED <<arrived, session, failures>>

\* Answered with 500, and delivered again.
WebhookFails ==
  /\ hook # NoHook
  /\ failures < MaxFailures /\ failures' = failures + 1
  /\ hook' = NoHook
  /\ UNCHANGED <<arrived, store, session>>

-----------------------------------------------------------------------------
Verify(s) ==
  \/ \E u \in Users : Begin(s, u)
  \/ List(s)
  \/ \E d \in Deposits : Check(s, d)
  \/ VerifyCommits(s) \/ VerifyRefused(s) \/ VerifyFails(s)

Webhook == (\E d \in Deposits : WebhookReads(d)) \/ WebhookCommits \/ WebhookFails

Next ==
  \/ \E d \in Deposits : Arrive(d)
  \/ \E s \in Sessions : Verify(s)
  \/ Webhook

Spec == Init /\ [][Next]_vars

\* The schedules in which a deposit whose webhook finds a customer is listed
\* only after that webhook.
PromptSpec ==
  Init /\ [][Next /\ \A s \in Sessions, d \in Deposits :
                       d \in listed'[s] \ listed[s] /\ Resolved[d] # NoUser
                         => HasRow("webhook", d)]_vars

-----------------------------------------------------------------------------
(* Properties.                                                             *)

\* A deposit is credited once, however verifications interleave, whoever shares
\* the masked document, and whichever batch fails: verification recognises what
\* the webhook credited, by the payment's id or by the correlation id, as long as
\* the webhook was first (DepositCreditedOnce shows what happens when it was not).
OneCreditPerDeposit == \A d \in Deposits : credits[d] <= 1

\* In any deployment each of the two handlers credits a deposit at most once, and
\* leaves its row for every credit.
CreditsMatchRows ==
  \A d \in Deposits :
    credits[d] = (IF HasRow("webhook", d) THEN 1 ELSE 0)
                 + (IF HasRow("verify", d) THEN 1 ELSE 0)

\* A balance is never more than the rows account for: a refused batch leaves
\* nothing behind, and a stale balance loses credits but invents none.
Accounted(u) == {r \in rows : r.user = u}
BalanceIsAccounted == \A u \in Users : balance[u] <= Cardinality(Accounted(u))

-----------------------------------------------------------------------------
(* What comments of the code say of deposits, and the code does not do.     *)

\* "Idempotent: safe to call repeatedly without double-credit risk"
\* (router.py:1297).  The webhook looks for the id of the payment, the row of a
\* verification has the id of the PIX transaction: the webhook credits again what
\* a verification credited before it.
DepositCreditedOnce == OneCreditPerDeposit
=============================================================================
