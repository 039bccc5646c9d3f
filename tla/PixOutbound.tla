----------------------------- MODULE PixOutbound -----------------------------
(***************************************************************************)
(* Outbound PIX of one customer account under the deferred-debit model.    *)
(*                                                                         *)
(* A request to pay (POST /pix/transacoes with an external key, or POST    *)
(* /pix/qrcode/pagar) runs on a worker thread: it loads the account to     *)
(* authenticate the caller, checks for a duplicate and for funds, inserts  *)
(* a CREATED row that it flushes but does not commit, calls the payment    *)
(* service provider (PSP, Asaas), and commits the row as PROCESSING with a *)
(* PENDING ledger entry.  The session keeps the account object it loaded:  *)
(* the checks use the balance of the authentication, not the current one.  *)
(*                                                                         *)
(* The account is debited later, by the TRANSFER_DONE webhook.             *)
(* TRANSFER_FAILED reverses the ledger entry.  The confirm and cancel      *)
(* endpoints write the status of a row they read without a lock.           *)
(*                                                                         *)
(* The threads of the requests interleave between any two steps; a webhook *)
(* is one step, because it runs with the transaction row and the payer row *)
(* locked FOR UPDATE.                                                      *)
(***************************************************************************)
EXTENDS Integers, FiniteSets, FiniteSetsExt

CONSTANTS
  Requests,     \* requests to pay; a request inserts at most one row
  Keys,         \* idempotency keys; the PSP identifies a transfer by its key
  Payloads,     \* QR code payloads
  NoPayload,    \* the payload of a request that pays to a PIX key
  NoTransfer,   \* the transfer of a row whose id is not the PSP's
  KeyOf,        \* the idempotency key a request carries
  PayloadOf,    \* the QR payload it pays, or NoPayload
  Scheduled,    \* the requests with a scheduled date
  Dynamic,      \* the QR requests whose payload does not state the amount
  Total,        \* value plus fee of each request
  Deposit,      \* the balance of the account at the start
  MaxInFlight,  \* bound: requests being handled at the same time
  MaxCrashes    \* bound: process crashes

ASSUME RequestAssumption ==
  /\ KeyOf \in [Requests -> Keys]
  /\ PayloadOf \in [Requests -> Payloads \cup {NoPayload}]
  /\ Scheduled \subseteq {r \in Requests : PayloadOf[r] = NoPayload}
  /\ Dynamic \subseteq {r \in Requests : PayloadOf[r] # NoPayload}
  /\ Total \in [Requests -> Nat]
  /\ Deposit \in Int
  /\ MaxInFlight \in Nat
  /\ MaxCrashes \in Nat
  /\ NoPayload \notin Payloads
  /\ NoTransfer \notin Keys

VARIABLES
  gateway,     \* the gateway the deployment is configured with
  pc,          \* pc[r]: where the handler of request r is
  seen,        \* seen[r]: the balance r's session loaded, 0 without one
  status,      \* status[r]: committed PixStatus of r's row, or "ABSENT"
  ledger,      \* ledger[r]: status of r's ledger entry, or "NONE"
  transfer,    \* transfer[r]: the PSP transfer whose id r's row has
  psp,         \* psp[k]: state at the PSP of the transfer with key k
  doneAcked,   \* the transfers whose TRANSFER_DONE was answered with 200
  debits,      \* debits[r]: how often the account was debited for r
  balance,     \* users.saldo of the account
  confirming,  \* rows read by a confirm handler that has not written yet
  cancelling,  \* rows read by a cancel handler that has not written yet
  crashes,     \* crashes so far
  overlapped   \* a session was opened, or the account debited, while another
               \* session was open (history)

rows == <<status, ledger, transfer>>
session == <<pc, seen>>
vars == <<gateway, session, rows, psp, doneAcked, debits, balance,
          confirming, cancelling, crashes, overlapped>>

PixStatus == {"CREATED", "PROCESSING", "CONFIRMED", "FAILED", "CANCELED", "SCHEDULED"}
LedgerEntryStatus == {"PENDING", "SETTLED", "REVERSED"}
PspStates == {"NONE", "ACCEPTED", "DONE", "FAILED", "REFUNDED"}
Steps == {"start", "authenticated", "checked", "flushed", "dispatched", "answered"}

TypeOK ==
  /\ gateway \in {"none", "sandbox", "production"}
  /\ pc \in [Requests -> Steps]
  /\ seen \in [Requests -> Int]
  /\ status \in [Requests -> PixStatus \cup {"ABSENT"}]
  /\ ledger \in [Requests -> LedgerEntryStatus \cup {"NONE"}]
  /\ transfer \in [Requests -> Keys \cup {NoTransfer}]
  /\ psp \in [Keys -> PspStates]
  /\ doneAcked \subseteq Keys
  /\ debits \in [Requests -> Nat]
  /\ balance \in Int
  /\ confirming \subseteq Requests
  /\ cancelling \subseteq Requests
  /\ crashes \in 0 .. MaxCrashes
  /\ overlapped \in BOOLEAN

Init ==
  /\ gateway \in {"none", "sandbox", "production"}
  /\ pc = [r \in Requests |-> "start"]
  /\ seen = [r \in Requests |-> 0]
  /\ status = [r \in Requests |-> "ABSENT"]
  /\ ledger = [r \in Requests |-> "NONE"]
  /\ transfer = [r \in Requests |-> NoTransfer]
  /\ psp = [k \in Keys |-> "NONE"]
  /\ doneAcked = {}
  /\ debits = [r \in Requests |-> 0]
  /\ balance = Deposit
  /\ confirming = {}
  /\ cancelling = {}
  /\ crashes = 0
  /\ overlapped = FALSE

-----------------------------------------------------------------------------
(* What the handlers read.                                                 *)

Rows == {r \in Requests : status[r] # "ABSENT"}
IsQr(r) == PayloadOf[r] # NoPayload

\* Requests whose row is inserted in a transaction that is still open.
Uncommitted == {r \in Requests : pc[r] \in {"flushed", "dispatched"}}
InFlight == {r \in Requests : pc[r] \notin {"start", "answered"}}

\* Faulty variant of Conflict: idempotency_key without its unique index.
HashConflictOnly(r, q) == IsQr(r) /\ PayloadOf[q] = PayloadOf[r]

\* The unique indexes on idempotency_key and on (user_id, payload_hash).
\* A scheduled request and one paying to a key have no payload hash.
Conflict(r, q) ==
  \/ KeyOf[q] = KeyOf[r]
  \/ IsQr(r) /\ PayloadOf[q] = PayloadOf[r]

\* A committed row answers the request: the same idempotency key, or the
\* same QR payload paid or being paid.
Duplicate(r) ==
  \/ \E q \in Rows : KeyOf[q] = KeyOf[r]
  \/ \E q \in Rows :
       /\ IsQr(r) /\ PayloadOf[q] = PayloadOf[r]
       /\ status[q] \in {"CONFIRMED", "PROCESSING"}

\* A balance less what is reserved by the rows awaiting their webhook.
get_available_balance(saldo) ==
  saldo - MapThenSumSet(LAMBDA r : Total[r], {r \in Rows : status[r] = "PROCESSING"})

-----------------------------------------------------------------------------
(* The request handlers: create_pix and pay_pix_qrcode.                    *)

Answer(r) ==
  /\ pc' = [pc EXCEPT ![r] = "answered"]
  /\ seen' = [seen EXCEPT ![r] = 0]
Goto(r, step) == pc' = [pc EXCEPT ![r] = step] /\ UNCHANGED seen
Unaffected == UNCHANGED <<gateway, doneAcked, debits, balance,
                          confirming, cancelling, crashes, overlapped>>

\* get_current_user loads the account; the session never reloads it.
Authenticate(r) ==
  /\ pc[r] = "start"
  /\ Cardinality(InFlight) < MaxInFlight
  /\ pc' = [pc EXCEPT ![r] = "authenticated"]
  /\ seen' = [seen EXCEPT ![r] = balance]
  /\ overlapped' = (overlapped \/ InFlight # {})
  /\ UNCHANGED <<gateway, rows, psp, doneAcked, debits, balance,
                 confirming, cancelling, crashes>>

\* A duplicate is answered with the row it repeats.  A request may also be
\* refused: inactive account, antifraud score, funds, or no gateway.
AnswerWithoutRow(r) ==
  /\ pc[r] = "authenticated"
  /\ Answer(r)
  /\ UNCHANGED <<rows, psp>> /\ Unaffected

\* Faulty variant of HasFunds: get_balance in place of get_available_balance.
HasBalance(r) == seen[r] >= Total[r]

HasFunds(r) == get_available_balance(seen[r]) >= Total[r]

\* A payload without an amount is let through on any positive balance.
Admit(r) ==
  /\ pc[r] = "authenticated"
  /\ ~Duplicate(r)
  /\ IF r \in Dynamic THEN get_available_balance(seen[r]) > 0
                      ELSE r \in Scheduled \/ HasFunds(r)
  /\ IsQr(r) => gateway = "production"
  /\ Goto(r, "checked")
  /\ UNCHANGED <<rows, psp>> /\ Unaffected

\* Faulty variant of InsertRefused: only a repeated payload ends the wait.
RefusedByHashOnly(r) ==
  /\ pc[r] = "checked"
  /\ \E q \in Rows : HashConflictOnly(r, q)
  /\ Answer(r)
  /\ UNCHANGED <<rows, psp>> /\ Unaffected

\* The INSERT waits while another open transaction holds the same index
\* entry, and fails if a committed row does.
InsertRefused(r) ==
  /\ pc[r] = "checked"
  /\ \E q \in Rows : Conflict(r, q)
  /\ Answer(r)
  /\ UNCHANGED <<rows, psp>> /\ Unaffected

Insert(r) ==
  /\ pc[r] = "checked"
  /\ \A q \in Rows \cup Uncommitted : ~Conflict(r, q)
  /\ IF r \in Scheduled
     THEN /\ Answer(r)
          /\ status' = [status EXCEPT ![r] = "SCHEDULED"]
     ELSE /\ Goto(r, "flushed")
          /\ UNCHANGED status
  /\ UNCHANGED <<ledger, transfer, psp>> /\ Unaffected

\* External: the PSP honours the idempotency key, so a repeated key meets the
\* transfer it already has.
Accept(k) == psp' = [psp EXCEPT ![k] = IF @ = "NONE" THEN "ACCEPTED" ELSE @]

Dispatch(r) ==
  /\ pc[r] = "flushed"
  /\ gateway # "none"
  /\ Accept(KeyOf[r])
  /\ Goto(r, "dispatched")
  /\ UNCHANGED rows /\ Unaffected

\* The call raises; when the answer was lost, the PSP has the transfer.
DispatchRaises(r) ==
  /\ pc[r] = "flushed"
  /\ gateway # "none"
  /\ \/ Accept(KeyOf[r])
     \/ UNCHANGED psp
  /\ status' = [status EXCEPT ![r] = "FAILED"]
  /\ Answer(r)
  /\ UNCHANGED <<ledger, transfer>> /\ Unaffected

\* PROCESSING and its PENDING ledger entry are committed together.  Only the
\* QR route gives the row the id the PSP returned, if it returned one.
CommitProcessing(r) ==
  /\ \/ pc[r] = "dispatched"
     \/ pc[r] = "flushed" /\ gateway = "none"
  /\ IsQr(r) => HasFunds(r)
  /\ status' = [status EXCEPT ![r] = "PROCESSING"]
  /\ ledger' = [ledger EXCEPT ![r] = "PENDING"]
  /\ \/ IsQr(r) /\ transfer' = [transfer EXCEPT ![r] = KeyOf[r]]
     \/ UNCHANGED transfer
  /\ Answer(r)
  /\ UNCHANGED psp /\ Unaffected

\* The QR route checks the funds again with the amount the PSP resolved.
QrShortAfterDispatch(r) ==
  /\ pc[r] = "dispatched"
  /\ IsQr(r) /\ ~HasFunds(r)
  /\ status' = [status EXCEPT ![r] = "FAILED"]
  /\ Answer(r)
  /\ UNCHANGED <<ledger, transfer, psp>> /\ Unaffected

\* Neither the PSP nor the payload gives an amount: 500, and the session is
\* closed without a commit.
QrAmountUnknown(r) ==
  /\ pc[r] = "dispatched"
  /\ r \in Dynamic
  /\ Answer(r)
  /\ UNCHANGED <<rows, psp>> /\ Unaffected

\* The process dies: open transactions and half-done handlers are gone.
Crash ==
  /\ crashes < MaxCrashes
  /\ crashes' = crashes + 1
  /\ pc' = [r \in Requests |-> IF r \in InFlight THEN "answered" ELSE pc[r]]
  /\ seen' = [r \in Requests |-> 0]
  /\ confirming' = {} /\ cancelling' = {}
  /\ UNCHANGED <<gateway, rows, psp, doneAcked, debits, balance, overlapped>>

-----------------------------------------------------------------------------
(* The PSP and its webhooks.                                               *)

\* External: the PSP carries a transfer out, rejects it, or refunds it later.
PspSettles(k) ==
  /\ \/ psp[k] = "ACCEPTED" /\ psp' = [psp EXCEPT ![k] = "DONE"]
     \/ psp[k] = "ACCEPTED" /\ psp' = [psp EXCEPT ![k] = "FAILED"]
     \/ psp[k] = "DONE" /\ psp' = [psp EXCEPT ![k] = "REFUNDED"]
  /\ UNCHANGED <<session, rows>> /\ Unaffected

settle_ledger_entries(entry) == IF entry = "PENDING" THEN "SETTLED" ELSE entry
reverse_ledger_entries(entry) == IF entry = "PENDING" THEN "REVERSED" ELSE entry

\* The row a transfer webhook finds, its id being the transfer's.
Matches(r, k) == r \in Rows /\ transfer[r] = k

\* Faulty variants of DoneApplies and FailedApplies: only the repetition of the
\* same webhook is recognised.
DoneNotRepeated(r) == status[r] # "CONFIRMED"
FailedNotRepeated(r) == status[r] # "FAILED"

\* The state machine the two webhooks enforce on the row they find.
DoneApplies(r) == status[r] = "PROCESSING"
FailedApplies(r) == status[r] = "PROCESSING"

\* A webhook is delivered at least once, at any time after its event, and any
\* number of times.  The row may be missing, or in a state the event does not
\* apply to: the answer is 200 all the same.
TransferDone(k) ==
  /\ psp[k] \in {"DONE", "REFUNDED"}
  /\ doneAcked' = doneAcked \cup {k}
  /\ \/ \E r \in Requests :
          /\ Matches(r, k) /\ DoneApplies(r)
          /\ status' = [status EXCEPT ![r] = "CONFIRMED"]
          /\ ledger' = [ledger EXCEPT ![r] = settle_ledger_entries(@)]
          /\ debits' = [debits EXCEPT ![r] = @ + 1]
          /\ balance' = balance - Total[r]
     \/ /\ \A r \in Requests : ~(Matches(r, k) /\ DoneApplies(r))
        /\ UNCHANGED <<status, ledger, debits, balance>>
  /\ overlapped' = (overlapped \/ (balance' # balance /\ InFlight # {}))
  /\ UNCHANGED <<gateway, session, transfer, psp, confirming, cancelling,
                 crashes>>

TransferFailed(k) ==
  /\ psp[k] \in {"FAILED", "REFUNDED"}
  /\ \E r \in Requests :
       /\ Matches(r, k) /\ FailedApplies(r)
       /\ status' = [status EXCEPT ![r] = "FAILED"]
       /\ ledger' = [ledger EXCEPT ![r] = reverse_ledger_entries(@)]
  /\ UNCHANGED <<session, transfer, psp>> /\ Unaffected

-----------------------------------------------------------------------------
(* POST /pix/transacoes/confirmar and DELETE /pix/transacoes/{id}.         *)

\* confirm_pix returns a CONFIRMED row unchanged; any other status goes on.
ConfirmRead(r) ==
  /\ r \in Rows /\ status[r] # "CONFIRMED"
  /\ confirming' = confirming \cup {r}
  /\ UNCHANGED <<gateway, session, rows, psp, doneAcked, debits, balance,
                 cancelling, crashes, overlapped>>

ConfirmWrite(r) ==
  /\ r \in confirming
  /\ confirming' = confirming \ {r}
  /\ status' = [status EXCEPT ![r] = "CONFIRMED"]
  /\ UNCHANGED <<gateway, session, ledger, transfer, psp, doneAcked, debits,
                 balance, cancelling, crashes, overlapped>>

CancelRead(r) ==
  /\ status[r] = "SCHEDULED"
  /\ cancelling' = cancelling \cup {r}
  /\ UNCHANGED <<gateway, session, rows, psp, doneAcked, debits, balance,
                 confirming, crashes, overlapped>>

CancelWrite(r) ==
  /\ r \in cancelling
  /\ cancelling' = cancelling \ {r}
  /\ status' = [status EXCEPT ![r] = "CANCELED"]
  /\ UNCHANGED <<gateway, session, ledger, transfer, psp, doneAcked, debits,
                 balance, confirming, crashes, overlapped>>

-----------------------------------------------------------------------------
Handle(r) ==
  \/ Authenticate(r) \/ AnswerWithoutRow(r) \/ Admit(r)
  \/ InsertRefused(r) \/ Insert(r)
  \/ Dispatch(r) \/ DispatchRaises(r)
  \/ CommitProcessing(r) \/ QrShortAfterDispatch(r) \/ QrAmountUnknown(r)

Next ==
  \/ \E r \in Requests :
       \/ Handle(r)
       \/ ConfirmRead(r) \/ ConfirmWrite(r)
       \/ CancelRead(r) \/ CancelWrite(r)
  \/ \E k \in Keys : PspSettles(k) \/ TransferDone(k) \/ TransferFailed(k)
  \/ Crash

Spec == Init /\ [][Next]_vars

\* A worker thread goes on until its request is answered.
FairSpec == Spec /\ \A r \in Requests : WF_vars(Handle(r))

-----------------------------------------------------------------------------
(* Properties.                                                             *)

\* The account is debited for a payment exactly when its ledger entry is
\* settled, and then once, whatever webhooks are repeated or reordered and
\* whatever the confirm endpoint writes in between.
DebitMatchesLedger ==
  \A r \in Requests : debits[r] = IF ledger[r] = "SETTLED" THEN 1 ELSE 0

\* A settled entry belongs to a CONFIRMED row whose transfer the PSP really
\* carried out, and a reversed one to a transfer it failed or refunded.
SettledOnlyIfPaid ==
  \A r \in Requests :
    /\ ledger[r] = "SETTLED" =>
         /\ status[r] = "CONFIRMED"
         /\ transfer[r] \in Keys
         /\ psp[transfer[r]] \in {"DONE", "REFUNDED"}
    /\ ledger[r] = "REVERSED" =>
         /\ status[r] \in {"FAILED", "CONFIRMED"}
         /\ transfer[r] \in Keys
         /\ psp[transfer[r]] \in {"FAILED", "REFUNDED"}

\* No transfer is charged to the account twice, not even when several
\* requests carry its key or its payload and one of them died half way.
OneDebitPerTransfer ==
  \A r, q \in Requests :
    debits[r] > 0 /\ debits[q] > 0 /\ transfer[r] = transfer[q] => r = q

\* As long as requests are handled one at a time and no webhook debits the
\* account under an open session, what is reserved never exceeds the balance,
\* so no webhook overdraws the account: neither lost answers, crashes and
\* refunds nor the confirm endpoint break the reservation.  (Otherwise a payment
\* may settle after a request has loaded the account: it is no longer pending,
\* nor yet taken from the balance the request checks.)
SpendableNonNegative == ~overlapped => get_available_balance(balance) >= 0

\* An admitted request is answered: no handler waits for ever for an index
\* entry that another open transaction holds.
AdmittedIsAnswered ==
  \A r \in Requests : (pc[r] = "checked") ~> (pc[r] = "answered")

\* The deferred debit is exactly-once settlement: every step of the handlers
\* is a step of OutboundSettlement or leaves its variables alone.
VerdictsOf(state) ==
  CASE state = "DONE" -> {"done"}
    [] state = "FAILED" -> {"failed"}
    [] state = "REFUNDED" -> {"done", "failed"}
    [] OTHER -> {}

ReservationOf(entry) ==
  CASE entry = "PENDING" -> "pending"
    [] entry = "SETTLED" -> "settled"
    [] entry = "REVERSED" -> "reversed"
    [] OTHER -> "none"

Settlement == INSTANCE OutboundSettlement WITH
  Payments <- Requests, Transfers <- Keys, TransferOf <- KeyOf,
  verdict <- [k \in Keys |-> VerdictsOf(psp[k])],
  reservation <- [r \in Requests |-> ReservationOf(ledger[r])]

ImplementsSettlement == Settlement!Spec
=============================================================================
