--------------------------- MODULE InternalTransfers ---------------------------
(***************************************************************************)
(* Money that moves between accounts of the platform, with no call to the  *)
(* PSP.  Three routes move it: a PIX to the key of a customer (create_pix  *)
(* and execute_internal_transfer), the payment of a customer's charge by   *)
(* its QR code, and an administrator's transfer from the Matrix account.   *)
(* Two more write the same balances: the deposit endpoint, and the webhook *)
(* TRANSFER_DONE, which debits a PIX that left the platform earlier.       *)
(*                                                                         *)
(* Each loads the accounts it touches into its session and writes sums to  *)
(* them in one commit.  The caller's account is loaded by authentication   *)
(* and not again.  Only the webhook locks a row, its payer's.  Webhook and *)
(* administrator's transfer run on the event loop, one at a time.          *)
(***************************************************************************)
EXTENDS Integers, FiniteSets

CONSTANTS
  Accounts,
  Matrix,       \* the platform's own account
  Opening,      \* balances at the start
  Requests,     \* requests, and events of webhooks
  Route,        \* which handler takes a request
  Caller,       \* the account authentication loads, none for a webhook
  Payer, Payee, \* a deposit has no payer, a webhook no payee: any account
  Value,
  Fee,          \* PIX_MAINTENANCE_FEE; the webhook's margin is as much
  IndexEntries, \* keys of the unique indexes of transacoes_pix
  KeyOf,        \* the idempotency key of the payer's row
  OtherOf,      \* that of the payee's row, or payer and payload of a charge
  MaxInFlight   \* bound: requests in flight at a time

Routes == {"key", "charge", "matrix", "deposit", "webhook"}

ASSUME TransferAssumption ==
  /\ Matrix \in Accounts
  /\ Opening \in [Accounts -> Nat]
  /\ Route \in [Requests -> Routes]
  /\ Payer \in [Requests -> Accounts] /\ Payee \in [Requests -> Accounts]
  /\ Value \in [Requests -> Nat \ {0}]
  /\ Fee \in Nat
  /\ KeyOf \in [Requests -> IndexEntries] /\ OtherOf \in [Requests -> IndexEntries]

VARIABLES
  balance,   \* balance[a]: users.saldo
  pc,        \* pc[r]: how far request r has come, "idle" again if it failed
  copy,      \* copy[r]: the balances in the session of r
  debited,   \* debited[a]: what commits have taken from a, in total
  credited,  \* credited[a]: what they have given to it
  drawn      \* drawn[a]: the part of debited[a] that webhooks took

history == <<debited, credited, drawn>>
vars == <<balance, pc, copy, history>>

Closed == [a \in Accounts |-> 0]

\* Every variable has its type, and a request that is not in flight holds no
\* copy of a balance.
TypeOK ==
  /\ balance \in [Accounts -> Int]
  /\ pc \in [Requests -> {"idle", "authenticated", "loaded", "done"}]
  /\ copy \in [Requests -> [Accounts -> Int]]
  /\ \A r \in Requests : pc[r] \notin {"authenticated", "loaded"} => copy[r] = Closed
  /\ debited \in [Accounts -> Nat]
  /\ credited \in [Accounts -> Nat]
  /\ drawn \in [Accounts -> Nat]

Init ==
  /\ balance = Opening
  /\ pc = [r \in Requests |-> "idle"]
  /\ copy = [r \in Requests |-> Closed]
  /\ debited = Closed /\ credited = Closed /\ drawn = Closed

-----------------------------------------------------------------------------
(* What a request does to accounts and rows.                               *)

Done == {r \in Requests : pc[r] = "done"}
InFlight == {r \in Requests : pc[r] \in {"authenticated", "loaded"}}

OnLoop(r) == Route[r] \in {"matrix", "webhook"}
LoopFree == \A r \in Requests : ~(OnLoop(r) /\ pc[r] = "loaded")

\* A customer who pays a charge of their own is credited and not debited
\* ("self-deposit").
SelfDeposit(r) == Route[r] = "charge" /\ Payer[r] = Payee[r]

FeeOf(r) ==
  IF Route[r] \in {"charge", "webhook"} /\ ~SelfDeposit(r) THEN Fee ELSE 0

Debit(r, a) ==
  IF a = Payer[r] /\ Route[r] # "deposit" /\ ~SelfDeposit(r)
  THEN Value[r] + FeeOf(r) ELSE 0

Credit(r, a) ==
  (IF a = Payee[r] /\ Route[r] # "webhook" THEN Value[r] ELSE 0)
  + (IF a = Matrix THEN FeeOf(r) ELSE 0)

Touched(r) == {a \in Accounts : Debit(r, a) + Credit(r, a) > 0}

\* The rows a request inserts, as the unique indexes see them.
Entries(r) ==
  IF Route[r] \in {"deposit", "webhook"} \/ SelfDeposit(r) THEN {}
  ELSE {KeyOf[r], OtherOf[r]}

Index == UNION {Entries(r) : r \in Done}

-----------------------------------------------------------------------------
CloseSession(r, how) ==
  /\ pc' = [pc EXCEPT ![r] = how]
  /\ copy' = [copy EXCEPT ![r] = Closed]

\* Authentication loads the caller's account; a webhook has no caller.
Authenticated(r, a) == Route[r] # "webhook" /\ a = Caller[r]

Authenticate(r) ==
  /\ pc[r] = "idle"
  /\ Cardinality(InFlight) < MaxInFlight
  /\ pc' = [pc EXCEPT ![r] = "authenticated"]
  /\ copy' = [copy EXCEPT ![r] =
               [a \in Accounts |-> IF Authenticated(r, a) THEN balance[a] ELSE 0]]
  /\ UNCHANGED <<balance, history>>

\* The row of an earlier request answers this one: by the idempotency key, and
\* for a charge by its payload too.
Known(r) ==
  CASE Route[r] = "key"    -> KeyOf[r] \in Index
    [] Route[r] = "charge" -> {KeyOf[r], OtherOf[r]} \cap Index # {}
    [] OTHER               -> FALSE

\* The copies of the session: the caller's is the one of the authentication, the
\* others are loaded now.
Loaded(r) ==
  [a \in Accounts |->
     IF a \notin Touched(r) THEN 0
     ELSE IF Authenticated(r, a) THEN copy[r][a]
     ELSE balance[a]]

\* Faulty variant of HasFunds: the fee is not looked at.
HasValue(r, seen) ==
  Route[r] \in {"key", "charge", "matrix"} /\ ~SelfDeposit(r)
    => seen[Payer[r]] >= Value[r]

\* The balance is checked, not what is left of it after the PIX that wait for
\* their webhook.  The webhook debits whatever the balance.
HasFunds(r, seen) ==
  Route[r] \in {"key", "charge", "matrix"} /\ ~SelfDeposit(r)
    => seen[Payer[r]] >= Value[r] + FeeOf(r)

\* The other accounts are loaded, and the request is admitted.
Load(r) ==
  /\ pc[r] = "authenticated"
  /\ OnLoop(r) => LoopFree
  /\ ~Known(r)
  /\ Route[r] \in {"key", "matrix"} => Payer[r] # Payee[r]
  /\ HasFunds(r, Loaded(r))
  /\ pc' = [pc EXCEPT ![r] = "loaded"]
  /\ copy' = [copy EXCEPT ![r] = Loaded(r)]
  /\ UNCHANGED <<balance, history>>

\* An answer without a transfer: an earlier row, no funds, no such charge, the
\* antifraud rules, an account that is not active.  The client may ask again.
Refuse(r) ==
  /\ pc[r] = "authenticated"
  /\ CloseSession(r, "idle")
  /\ UNCHANGED <<balance, history>>

\* Faulty variant of IndexRefuses: only the payer's row has a unique key.
KeyTaken(r) == Entries(r) # {} /\ KeyOf[r] \in Index

IndexRefuses(r) == Entries(r) \cap Index # {}

\* SELECT FOR UPDATE: the row of the webhook's payer is not written by others.
LockedByOther(r, a) ==
  \E s \in Requests \ {r} : pc[s] = "loaded" /\ Route[s] = "webhook" /\ a = Payer[s]

\* Faulty variant of Written: a fee that goes to the payee overwrites the value,
\* both computed from the same copy.
WrittenTwice(r, a) ==
  IF a = Matrix /\ a = Payee[r] /\ FeeOf(r) > 0
  THEN copy[r][a] + 2 * Credit(r, a)
  ELSE copy[r][a] - Debit(r, a) + Credit(r, a)

\* Value and fee are added to one object if payee and Matrix are one account.
Written(r, a) == copy[r][a] - Debit(r, a) + Credit(r, a)

\* The rows and the balances are written in one transaction.
Commit(r) ==
  /\ pc[r] = "loaded"
  /\ ~IndexRefuses(r)
  /\ \A a \in Touched(r) : ~LockedByOther(r, a)
  /\ CloseSession(r, "done")
  /\ balance' = [a \in Accounts |-> IF a \in Touched(r) THEN Written(r, a) ELSE balance[a]]
  /\ debited' = [a \in Accounts |-> debited[a] + Debit(r, a)]
  /\ credited' = [a \in Accounts |-> credited[a] + Credit(r, a)]
  /\ drawn' = [a \in Accounts |->
                 IF Route[r] = "webhook" THEN drawn[a] + Debit(r, a) ELSE drawn[a]]

\* Rolled back: refused by the index, chosen to end a deadlock, or an error.  The
\* client asks again, perhaps, and the webhook is delivered again.
Fails(r) ==
  /\ pc[r] = "loaded"
  /\ CloseSession(r, "idle")
  /\ UNCHANGED <<balance, history>>

Next ==
  \E r \in Requests :
    Authenticate(r) \/ Load(r) \/ Refuse(r) \/ Commit(r) \/ Fails(r)

Spec == Init /\ [][Next]_vars

-----------------------------------------------------------------------------
(* Properties.                                                             *)

\* Stale copies lose updates, but whatever the interleaving no account holds
\* more than it was ever given, nor less than it was ever charged.
BalanceWithinHistory ==
  \A a \in Accounts :
    /\ balance[a] <= Opening[a] + credited[a]
    /\ balance[a] >= Opening[a] - debited[a]

\* Transfers inside the platform overdraw nobody: an account is negative by no
\* more than webhooks have taken from it, although transfers spend what is
\* reserved for them and check balances that may be out of date.
OverdrawnByWebhooksOnly == \A a \in Accounts : balance[a] >= -drawn[a]

\* Requests that race past the lookup of one key, or one whose key is that of
\* another's second row, move money once: no two that moved it share an entry.
OneTransferPerKey ==
  \A r, s \in Done : r # s => Entries(r) \cap Entries(s) = {}

\* "an application-level mutex (simulating what the real app does via
\* database-level locks in PostgreSQL) ... Only one should succeed; the other
\* must see insufficient funds" (tests/test_concurrency.py:84).  No row of a
\* payer is locked: two transfers check one balance, and both are carried out.
SpentOnlyOnce ==
  \A a \in Accounts : debited[a] - drawn[a] <= Opening[a] + credited[a]
=============================================================================
