------------------------------ MODULE PixCharges ------------------------------
(***************************************************************************)
(* The charges of one receiver, and the credits they bring to its account. *)
(*                                                                         *)
(* Seven handlers move the status of a charge.  Each loads the row into    *)
(* its session, decides, loads the account, and commits status and balance *)
(* together; none locks a row, and the balance is written as the value     *)
(* loaded plus the value of the charge.  The account a handler loads is    *)
(* the one its session loaded to authenticate the caller, when the caller  *)
(* is the receiver.  Endpoints run on worker threads and interleave at     *)
(* will.  The PSP's payment webhooks run to their end one after the other  *)
(* on the event loop, but interleave with the workers.                     *)
(***************************************************************************)
EXTENDS Integers, FiniteSets, FiniteSetsExt

CONSTANTS
  Charges,      \* the receiver's charges, all of value 1
  Workers,      \* worker threads
  Loop,         \* the event loop
  Tasks,        \* what the handlers may be asked to do
  NoTask,       \* the task of an idle session
  Opening,      \* the balance of the receiver at the start
  MaxDebits,    \* bound: outbound payments debited meanwhile
  MaxFailures,  \* bound: handlers that fail half way
  MaxCredits    \* bound: credits of a charge after which it is left alone

\* "verify" is the owner's verification or polling of a charge, "receive" the
\* confirmation of a receipt, "pay" the payment of the charge's QR code by a
\* customer of the platform, "sync" and "confirm" the endpoints that only move
\* the status, "webhook" PAYMENT_RECEIVED or PAYMENT_CONFIRMED.  own: the caller
\* is the receiver itself.
TaskKinds == {"verify", "receive", "pay", "sync", "confirm", "webhook"}

ASSUME ChargesAssumption ==
  /\ Tasks \subseteq [kind : TaskKinds, charge : Charges, own : BOOLEAN]
  /\ \A t \in Tasks : /\ t.kind = "verify" => t.own
                      /\ t.kind = "webhook" => ~t.own
  /\ NoTask \notin Tasks
  /\ Loop \notin Workers
  /\ IsFiniteSet(Charges)
  /\ Opening \in Int
  /\ MaxDebits \in Nat
  /\ MaxFailures \in Nat
  /\ MaxCredits \in Nat

VARIABLES
  status,    \* status[c]: committed PixStatus of the charge, or "ABSENT"
  psp,       \* psp[c]: the charge at the PSP, or "NONE" for a local one
  balance,   \* users.saldo of the receiver
  credits,   \* credits[c]: commits that credited the receiver for c
  inside,    \* inside[c]: commits that debited a payer of the platform for c
  debits,    \* debits by TRANSFER_DONE meanwhile
  failures,  \* handlers that failed half way
  step,      \* step[s]: how far the session has come
  task,      \* task[s]: what it was asked to do
  row,       \* row[s]: status of the charge in the session's copy of the row
  saw        \* saw[s]: balance in the session's copy of the account

store == <<status, balance, credits, inside>>
session == <<step, task, row, saw>>
vars == <<store, psp, debits, failures, session>>

Sessions == Workers \cup {Loop}
Statuses == {"ABSENT", "CREATED", "CONFIRMED", "FAILED", "CANCELED"}
PspStates == {"NONE", "PENDING", "RECEIVED", "OVERDUE", "REFUNDED"}
Steps == {"idle", "authenticated", "read", "ready"}

TypeOK ==
  /\ status \in [Charges -> Statuses]
  /\ psp \in [Charges -> PspStates]
  /\ balance \in Int
  /\ credits \in [Charges -> Nat]
  /\ inside \in [Charges -> Nat]
  /\ debits \in 0 .. MaxDebits
  /\ failures \in 0 .. MaxFailures
  /\ step \in [Sessions -> Steps]
  /\ task \in [Sessions -> Tasks \cup {NoTask}]
  /\ row \in [Sessions -> Statuses]
  /\ saw \in [Sessions -> Int]

Init ==
  /\ status = [c \in Charges |-> "ABSENT"]
  /\ psp = [c \in Charges |-> "NONE"]
  /\ balance = Opening
  /\ credits = [c \in Charges |-> 0]
  /\ inside = [c \in Charges |-> 0]
  /\ debits = 0 /\ failures = 0
  /\ step = [s \in Sessions |-> "idle"]
  /\ task = [s \in Sessions |-> NoTask]
  /\ row = [s \in Sessions |-> "ABSENT"]
  /\ saw = [s \in Sessions |-> 0]

-----------------------------------------------------------------------------
(* Charges and their payment.                                              *)

\* The two creating endpoints first create the charge at Asaas; the row takes its
\* id.  /charges/create raises when that fails.
CreateAtAsaas(c) ==
  /\ status[c] = "ABSENT"
  /\ status' = [status EXCEPT ![c] = "CREATED"]
  /\ psp' = [psp EXCEPT ![c] = "PENDING"]
  /\ UNCHANGED <<balance, credits, inside, debits, failures, session>>

\* Without a gateway, and in /cobrar when it refuses or does not answer, the
\* charge is a local simulation under an id of its own.
CreateLocally(c) ==
  /\ status[c] = "ABSENT"
  /\ status' = [status EXCEPT ![c] = "CREATED"]
  /\ UNCHANGED <<balance, credits, inside, psp, debits, failures, session>>

CreateCharge(c) == CreateAtAsaas(c) \/ CreateLocally(c)

\* External: the payer pays, late perhaps, or the charge expires, or a payment
\* is refunded.
PspMoves(c) ==
  /\ \/ psp[c] \in {"PENDING", "OVERDUE"} /\ psp' = [psp EXCEPT ![c] = "RECEIVED"]
     \/ psp[c] = "PENDING" /\ psp' = [psp EXCEPT ![c] = "OVERDUE"]
     \/ psp[c] = "RECEIVED" /\ psp' = [psp EXCEPT ![c] = "REFUNDED"]
  /\ UNCHANGED <<store, debits, failures, session>>

\* TRANSFER_DONE of an outbound payment debits the account, its row locked, on
\* the event loop.
TransferDoneDebit ==
  /\ step[Loop] = "idle"
  /\ debits < MaxDebits
  /\ debits' = debits + 1
  /\ balance' = balance - 1
  /\ UNCHANGED <<status, credits, inside, psp, failures, session>>

-----------------------------------------------------------------------------
(* The handlers.                                                           *)

CloseSession(s) ==
  /\ step' = [step EXCEPT ![s] = "idle"]
  /\ task' = [task EXCEPT ![s] = NoTask]
  /\ row' = [row EXCEPT ![s] = "ABSENT"]
  /\ saw' = [saw EXCEPT ![s] = 0]

Elsewhere == UNCHANGED <<psp, debits, failures>>

\* Authenticating the receiver loads its account into the session.
Begin(s, t) ==
  /\ step[s] = "idle"
  /\ credits[t.charge] < MaxCredits
  /\ t.kind = "webhook" <=> s = Loop
  /\ t.kind = "webhook" => psp[t.charge] \in {"RECEIVED", "REFUNDED"}
  /\ step' = [step EXCEPT ![s] = "authenticated"]
  /\ task' = [task EXCEPT ![s] = t]
  /\ saw' = [saw EXCEPT ![s] = IF t.own THEN balance ELSE 0]
  /\ UNCHANGED <<store, row>> /\ Elsewhere

\* Faulty variant of GoesOn: every handler goes on from a created charge only.
GoesOnFromCreated(kind, found) == found = "CREATED"

\* The status a handler goes on from; any other answers the request.  The
\* webhook and confirm_pix stop at a confirmed row only.
GoesOn(kind, found) ==
  /\ found # "ABSENT"
  /\ kind \in {"verify", "receive", "pay"} => found = "CREATED"
  /\ kind \in {"confirm", "webhook"} => found # "CONFIRMED"

ReadRow(s) ==
  /\ step[s] = "authenticated"
  /\ LET found == status[task[s].charge] IN
       IF GoesOn(task[s].kind, found)
       THEN /\ step' = [step EXCEPT ![s] = "read"]
            /\ row' = [row EXCEPT ![s] = found]
            /\ UNCHANGED <<task, saw>>
       ELSE CloseSession(s)
  /\ UNCHANGED store /\ Elsewhere

\* get_charge_status and the status_map of sync_pix_charge_status.  A local
\* charge is unknown to the PSP: the call raises.
StatusOf(answer) ==
  CASE answer = "PENDING"  -> "CREATED"
    [] answer = "RECEIVED" -> "CONFIRMED"
    [] answer = "OVERDUE"  -> "FAILED"
    [] answer = "REFUNDED" -> "CANCELED"

\* Faulty variant of Paid: whatever is no longer pending was paid.
NotPending(kind, answer) == kind = "verify" => answer # "PENDING"

Paid(kind, answer) == kind = "verify" => answer = "RECEIVED"

AskPsp(s) ==
  /\ step[s] = "read"
  /\ task[s].kind \in {"verify", "sync"}
  /\ LET answer == psp[task[s].charge] IN
       IF /\ answer # "NONE"
          /\ StatusOf(answer) # row[s]
          /\ Paid(task[s].kind, answer)
       THEN /\ step' = [step EXCEPT ![s] = "ready"]
            /\ row' = [row EXCEPT ![s] = StatusOf(answer)]
            /\ UNCHANGED <<task, saw>>
       ELSE CloseSession(s)
  /\ UNCHANGED store /\ Elsewhere

\* Faulty variant of AccountCopy: the account is read again from the database.
AccountRefreshed(s) == balance

\* Loading the receiver gives the copy the session has, if it has one.
AccountCopy(s) == IF task[s].own THEN saw[s] ELSE balance

\* The receiver is loaded after the row; confirm_pix makes no use of it.
LoadReceiver(s) ==
  /\ step[s] = "read"
  /\ task[s].kind \in {"receive", "pay", "confirm", "webhook"}
  /\ step' = [step EXCEPT ![s] = "ready"]
  /\ row' = [row EXCEPT ![s] = "CONFIRMED"]
  /\ saw' = [saw EXCEPT ![s] = AccountCopy(s)]
  /\ UNCHANGED <<task, store>> /\ Elsewhere

Crediting(kind) == kind \in {"verify", "receive", "pay", "webhook"}

\* Status and balance are written in one commit: the copies of the session.
Commit(s) ==
  /\ step[s] = "ready"
  /\ LET t == task[s] IN
       /\ status' = [status EXCEPT ![t.charge] = row[s]]
       /\ IF Crediting(t.kind)
          THEN /\ balance' = saw[s] + 1
               /\ credits' = [credits EXCEPT ![t.charge] = @ + 1]
          ELSE UNCHANGED <<balance, credits>>
       /\ IF t.kind = "pay" /\ ~t.own
          THEN inside' = [inside EXCEPT ![t.charge] = @ + 1]
          ELSE UNCHANGED inside
  /\ CloseSession(s)
  /\ Elsewhere

\* The handler raises, or the process dies: the session is rolled back.  The
\* webhook is answered with 500, and delivered again.
Fail(s) ==
  /\ step[s] # "idle"
  /\ failures < MaxFailures
  /\ failures' = failures + 1
  /\ CloseSession(s)
  /\ UNCHANGED <<store, psp, debits>>

-----------------------------------------------------------------------------
Advance(s) == ReadRow(s) \/ AskPsp(s) \/ LoadReceiver(s) \/ Commit(s)

Next ==
  \/ \E c \in Charges : CreateCharge(c) \/ PspMoves(c)
  \/ TransferDoneDebit
  \/ \E s \in Sessions :
       \/ \E t \in Tasks : Begin(s, t)
       \/ Advance(s)
       \/ Fail(s)

Spec == Init /\ [][Next]_vars

\* A handler goes on until it answers, and the PSP delivers the webhook of a
\* payment again until it is answered with 200.
FairSpec ==
  /\ Spec
  /\ \A s \in Sessions : WF_vars(Advance(s))
  /\ \A t \in Tasks : t.kind = "webhook" => SF_vars(Begin(Loop, t))

-----------------------------------------------------------------------------
(* Properties.                                                             *)

\* The receiver is credited for a charge only if it was paid: at the PSP, or
\* by a payer of the platform who was debited in the same commit.  Tasks must
\* not include "receive", which credits on the caller's word, nor a receiver
\* paying its own charge, which moves no money.
CreditsArePaid ==
  \A c \in Charges :
    credits[c] > 0 => psp[c] \in {"RECEIVED", "REFUNDED"} \/ inside[c] > 0

\* When only the receiver's own sessions confirm its charges, then however they
\* interleave the account never holds more than the confirmed charges brought:
\* two that confirm the same charge both write the balance of before.
Confirmed == {c \in Charges : status[c] = "CONFIRMED"}
NeverOverCredited == balance <= Opening + Cardinality(Confirmed)

\* A payment that reached the PSP is credited in the end, whichever handler
\* sees it first and whichever fails, and even if the charge was overdue before.
\* Where the sync or the confirm endpoint is used, which move the status and
\* credit nobody, the charge is at least confirmed.
StatusMovedAlone(c) ==
  \E t \in Tasks : t.charge = c /\ t.kind \in {"sync", "confirm"}
PaidIsCredited ==
  \A c \in Charges :
    (psp[c] = "RECEIVED")
      ~> (credits[c] > 0 \/ (StatusMovedAlone(c) /\ status[c] = "CONFIRMED"))
=============================================================================
