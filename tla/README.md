# A model of BioCodeTechPay's money movements

BioCodeTechPay is a FastAPI application over one SQL database, in front of a payment
service provider (PSP), Asaas. Customers hold a balance (`users.saldo`), send and receive
PIX, pay boletos; the platform holds an account of its own, the *Matrix* account, and all
the money lies in one account at Asaas. This directory models, checks and proves what moves
those balances: which handler writes what, in which order, on what it read, and what happens
when it is interrupted, repeated or overtaken.

- [The system](#the-system)
- [Modules and code](#modules-and-code)
- [Runs](#runs)
- [Proofs](#proofs)
- [Where the code and its comments disagree](#where-the-code-and-its-comments-disagree)
- [Not modelled](#not-modelled)
- [Plan](#plan)

To check a run: `tlc -config <run>.cfg <module>.tla`; to check the proofs of a component:
`tlapm <module>Proofs.tla`. `PROJECT.json` lists runs, mutants, theorems, hazards, and the
source lines of every definition.

## The system

Paths are below `src/app/`.

| Component | State | Operations | Interacts with |
|---|---|---|---|
| Outbound PIX: `pix/service.py` `create_pix`, `pix/router.py` `pay_pix_qrcode` | rows of `transacoes_pix` (type SENT), `ledger_entries`, `users.saldo` | create, pay a QR code, confirm, cancel; webhooks `TRANSFER_DONE`, `TRANSFER_FAILED` | Asaas; audit; internal transfers |
| Charges: `pix/router.py` 690-740, 1029-1280, 2293-2638, `pix/service.py` 742-790 | rows of type RECEIVED, the receiver's balance | charge, refresh, verify, receive, sync, confirm, internal payment, webhooks `PAYMENT_*` | Asaas; internal payers |
| Deposits: `pix/router.py` 1283-1425, 2298-2609 | rows per deposit, balances | verify against Asaas' list; webhook | Asaas |
| Calls to Asaas: `adapters/asaas_adapter.py` | `CircuitBreaker` (state, count, time of the last failure), tenacity's attempts | `_make_request`, retry, breaker | every handler, the audit loop |
| Balance audit: `core/audit_worker.py`, `web_routes.py` 1023-1367 | none of its own; writes the Matrix account | audit each minute, administrator's audit | Asaas, all accounts |
| Matrix administration: `web_routes.py` 684-987, `core/matrix.py` | Matrix account | transfer, to-owner, to-asaas, asaas transfer, `credit_fee` | audit, Asaas |
| Internal transfers: `pix/internal_transfer.py` | two accounts, two rows | find recipient, execute | outbound endpoints |
| Boletos: `boleto/service.py` | row, balance, Matrix account | validate, query, pay | none (nothing is paid at Asaas) |
| Subscription: `minha_conta/service.py`, gate in `ia/router.py` 38-57 | subscription row, balance | subscribe by balance or card, cancel, trial, grant, renew on expiry, chat gate | accounts, advisor |
| Accounts: `auth/router.py`, `auth/service.py` | user row: verification link, recovery code, hash | register, verify, resend, login, logout, recover, deposit | every endpoint authenticates |
| Rate limiters: `auth/router.py` 39-58, `web_routes.py` 24-45 | a deque per client | check and append | login, registration, public pages |
| AI advisor: `ia/router.py` | queue and tasks of one question | race the models in waves, stream or answer | subscription gate |
| Connection pool: `core/database.py` | fifteen connections | take, give back, time out | every handler, the event loop |
| Fees: `core/fees.py`; antifraud: `antifraude/rules.py` | none | tables, score, projection | payments, withdrawals |
| Codes: `core/pix_emv.py`, `core/document_validator.py`, check digits in `boleto/service.py` | none | write, parse, verify | payments, registration |
| Cards, instalments, e-mail, metrics, pages | own rows, or none | CRUD, text | read only |

**Concurrency.** One process. `def` endpoints run on worker threads and interleave at any
point; `async def` ones (webhooks, `/admin/*`, the audit loop) run on the event loop, each
without an interruption from the others unless it awaits. Every request has a SQLAlchemy
session (`core/database.py` 107-113) with `autoflush=False` over READ COMMITTED, so that

- an object loaded once in a session is not read again: authentication loads the user
  (`auth/dependencies.py` 71-113), and all later reads of that user give the same copy;
- a balance is written as an absolute value computed from the copy: concurrent updates can
  be lost, and only the `TRANSFER_*` webhook takes row locks;
- `flush` makes a row visible to nobody, but its unique index entries make another
  transaction's INSERT of the same key wait, then fail if the first commits.

**Failure.** A handler may raise half way (rollback), the process may die, a call to Asaas
may be rejected, time out, or be carried out with its answer lost; webhooks come at least
once, at any time after their event, in any order, and are repeated only until they are
answered with 200.

What makes each component correct: outbound, a payment is debited exactly once if and only if the
PSP executed it, and what is promised is covered; charges and deposits, money is credited if and
only if it arrived, once; breaker, open if and only if the threshold was reached, and never for
good; audit, it converges and does not overdraw what it corrects; subscription, the chat is open
for the days that were promised, and renewals are agreed to and due; accounts, who signs in proved
the address, and who compares a used code is refused; limiter, the limit holds; advisor, one model
is heard, whole, without the thoughts it begins with, and every question ends; pool, nobody waits
for ever, every connection comes back and no event is lost; fees and risk, what is shown is what
is taken, and more risk is never judged better; codes, what is written is what is read, and slips
are caught. `PROJECT.json` lists the hazards behind these under `hazards`.

## Modules and code

`OutboundSettlement` is the abstract specification of an outbound payment: reserved once,
then settled together with the one debit or reversed with none, after the PSP's verdict.

**`PixOutbound`** (`service.py` 42-479, `router.py` 1579-2278) has one action per step a
request takes between two points where others can get in: `Authenticate`, `Admit` or
`AnswerWithoutRow`, `Insert` or `InsertRefused`, `Dispatch` or `DispatchRaises`, then
`CommitProcessing`, `QrShortAfterDispatch` or `QrAmountUnknown`. `create_pix` and
`pay_pix_qrcode` have the same skeleton; where they differ, the actions ask `IsQr(r)`
(second check of the funds, the id of the PSP's transfer written to the row, payload hash).
A row exists for others (`status`) only once committed; until then it shows in `pc` and in
the index entries that `Insert` respects. `seen[r]` is the balance in the session of `r`.
`overlapped` is history: that a session was opened, or the account debited, while another session
was open. `gateway` is `none`, `sandbox` or `production`: without one, a transfer to a key becomes
PROCESSING with no dispatch, and a QR payment is refused unless production. A webhook is one
step, since it runs with the row and the payer locked. `ConfirmRead`/`ConfirmWrite` and
`CancelRead`/`CancelWrite` are the unlocked endpoints. `Crash` loses open transactions. An
antifraud refusal, an inactive account and all answers that leave no row are
`AnswerWithoutRow`. The internal routes of the two endpoints are in `InternalTransfers`. Left
out: `/pix/payments/execute`, which asks for a committed row in the status CREATED that
neither endpoint leaves behind.

**`QrDispatch`** opens up what `PixOutbound.Dispatch` takes as one step: `pay_qr_code`
(`asaas_adapter.py` 409-791) with its detours. A call is on a route: `native`, `canonical` (the
PSP's own code of the charge behind a dynamic code, after `FetchCharge`), `transfer` to the key
in the code. `Timeout`, `NotRepeated` and `FallBack` are what `_make_request` and its caller make
of silence, errors and "unsupported"; `Answer` and `Failed` what the router does with the
outcome. `late` holds requests whose client gave up and which the PSP may serve all the same.
What the parsers of `core/pix_emv.py` tell apart (key, amount, URL) is the record type `Codes`.
`GatewayDispatch` is the abstract specification: one payment per idempotency key, and the value
answered is the value moved, or not told.

**`InternalTransfers`** has the five routes on which accounts are written from the copies of a
session: the transfer by key (`internal_transfer.py`), the payer's side of a charge paid inside
the platform, the transfer of the Matrix account to a customer, the deposit endpoint, and the
debit of a `TRANSFER_DONE`. They share `Authenticate`, `Load`, `Commit`, `Refuse`, `Fails`; a
route is told apart by `Debit`, `Credit`, `FeeOf`, `Entries` (its rows in the unique indexes), by
whether it runs on the event loop (`OnLoop`) and which balance is the stale one of the
authentication (`Loaded`). `debited`, `credited` and `drawn` record what commits have booked.

**`PixCharges`** folds the seven handlers that move a charge into one skeleton, told apart by
the `kind` of the task: load the row (`ReadRow`), ask Asaas (`AskPsp`: verify, sync) or load
the receiver (`LoadReceiver`: receive, pay, confirm, webhook), `Commit`. What differs is in
four operators: `GoesOn` (the status each goes on from), `StatusOf` (the map of the PSP's
statuses), `Paid`, `Crediting`. A charge is created at Asaas (`CreateAtAsaas`) or is a local
simulation (`CreateLocally`), which the PSP does not know. `own` says whether the caller is the
receiver, which decides `AccountCopy`: the stale copy of the authentication, or the current
balance. Every charge has value 1.

**`InboundDeposits`** has the steps of `verify_static_deposit` and of the webhook of a payment
without a charge. Asaas' list is any subset of what arrived: it is limited to fifty credits
of two days, and empty on errors. Whom the webhook finds and whose document matches are
constants (`Resolved`, `Senders`); `Linked` and `Referenced` say which of its two ids the PSP
reveals for a deposit. Payments of the platform's own charges are `PixCharges`' subject.

**`CircuitBreaker`** is `_make_request` under `@retry` with the shared `CircuitBreaker`. A
thread can lose the GIL at a call, so `record_failure` is two steps, split at
`time.monotonic` (`CountFailure`, `JudgeFailure`), the property `state` is two steps when the
timeout is over (`FindDue`, `Probe`), and `record_success` is one. Time is counted in ticks
up to `RecoveryTimeout`, the count up to the threshold: the code compares no larger values.

**`BalanceAudit`** follows one pass of `_run_single_audit` (`ReadBalances`, `AskAsaas`,
`Reread`, `Correct`) or of the administrator's `matrix_audit` (`auditor = "admin"`), against
all handlers that move the Matrix account, the customers' balances (their sum) or the money
at Asaas. `arriving` and `leaving` are movements Asaas has made and no webhook has booked.
`LoopFree` holds the handlers of the event loop back while another of them is half way;
deposits credited by verification, boletos, charges paid inside the platform and Asaas itself
are not held back. `DepositSimulated`, `SubscriptionPaid` and `UserDeleted` change what the
customers hold with nothing on the other side: to the audit they are differences like others.

**`Subscription`** has the handlers of `minha_conta/service.py` and the chat's gate. A handler is
two steps: `Authenticate` loads the account on a worker thread, and the rest runs on the event
loop in one (`subscribe_with_balance`, `Renew`, `Lapse`, `ChatGate`, ...), on the balance of then
(`saw`); only creating the row makes the session read the balance again (`BalanceCopy`). Time
counts days. `covered` and `agreed` are history: the last day ever promised, and whether the
customer's last word was to pay.

**`CustomerAccounts`** is the account of one person: each handler of `auth/router.py` loads the row
(`step` "loaded"), works on a hash, commits the columns it touched, and mails afterwards.
Between these steps others come in, a handler may be lost, and mail may not arrive. Links and
codes are numbers in the order they are generated; a confirmation compares its code with the one
in the row in the step that loads it. `born`, `usedAge`, `spent` and `accepted` are history.

**`RateLimiter`** is one client's window statement by statement (`Create`, `Fetch`, `Purge`, `Pop`,
`Check`, `Let`), with threads switched between any two; a deque is named after the thread that
created it. `raced` remembers that two threads were inside at once.

**`AdvisorRace`** is one question. For `/chat/stream`, a task per model (`Chunk`, `Done`, `Fails`)
feeds the wave's queue through a parser, and the reader (`NextWave`, `Read`, `GetTimesOut`,
`BudgetFound`) commits to the first token; for `/chat`, `Ask` and `Choose`. The parser is that of
`_probe` (`ia/router.py` 390-436): `phase` is its state, `pre` what it has buffered, `Buffer` and
`Drop` what it makes of the next chunk. It looks for one block of thoughts, anywhere in what it has
buffered; text in front of `<think>` is dropped with the block, and once it streams everything is
passed on, a later `<think>` included. A chunk is a sequence of `Parts`: the tags, another tag (or
the beginning of one), text, a thought of the block the stream begins with, an `aside` of a later
one. Models send what is `WellFormed`, a thought being what stands in such a block; `mind` is where
the model really is, which the parser cannot see. A token is known by its model, its number and
what of the model's thinking it carries (`aloud`).

**`ConnectionPool`** has sessions that take a connection, give it back with a commit and take one
again, the webhook's wait on the event loop itself, and `get_db`'s closing of the session
(`CloseSession`), to which the loop has to come round (`LoopFree`). `GiveUp` is the pool's timeout;
the webhook is then answered with 500 and delivered again, or, in the part of the handler whose
errors are acknowledged, lost. A page that opens a second session on
the loop (`web_routes.py` 157-170) blocks it in the same way, until the same timeout; it is not
modelled apart.

**`FeesAndRisk`** and **`PaymentCodes`** are the pure functions, in cents and in digits; a state is one
question to them, or one code that came in. `FeeCharged` is what each handler takes, per route: to
another bank by key or by QR code, inside the platform by key (nothing) or by QR code
(`PIX_MAINTENANCE_FEE`), and for what is received; `get_pix_fee_preview` is what the page shows, and
`fee_label` the minimum its label names. The checksum of a BR code is an arbitrary function,
so that nothing depends on the polynomial. Ids of charges are texts with hyphens, which `Stripped`
removes for the field that names the charge and the key keeps.

`Services` (race, breaker, pool) and `Customer` (subscription, account, limiter, fees and risk,
codes) put components side by side that share no state: the variable `part` says which one a
behaviour belongs to, and the others stay as they are. The `MC*` modules hold TLC's instances.
`PixOutboundClaims` and the last definitions of `InternalTransfers` (`SpentOnlyOnce`) and
`InboundDeposits` hold formulas that comments and tests promise and the code does not keep;
`*Proofs` hold the theorems. Definitions named "Faulty variant of ..." are not part of a
specification: they are the mutants of `PROJECT.json`, the way a plausible bug would change the
definition after them, and each breaks the property it is listed with.

## Runs

Distinct states in brackets.

| Run | Checks | Instance |
|---|---|---|
| `outbound` (138,178) | `DebitMatchesLedger`, `SettledOnlyIfPaid`, `OneDebitPerTransfer`, `SpendableNonNegative`, `ImplementsSettlement`, `AdmittedIsAnswered` | three QR requests in flight at once, one with the key and one with the payload of the first; or a scheduled transfer; or two QR requests, one of which turns out too dear; one crash |
| `charges` (370,508) | `CreditsArePaid`, `PaidIsCredited` | two charges, a worker and the event loop, one debit, one failure; sync and confirm act on the first charge only |
| `own_charges` (745,572) | `NeverOverCredited` | the receiver's own handlers: two workers and the loop, two charges, one debit, one failure |
| `audit` (247,449) | `MatrixNonNegative`, `Converges` | three movements of money; amounts and costs on both sides of the cap and of the Matrix balance |
| `deposits` (58,630) | `OneCreditPerDeposit`, `CreditsMatchRows`, `BalanceIsAccounted` | three deposits, two users, two sessions, webhooks, one failure |
| `qr_dispatch` (269,394) | `ImplementsGateway`, `CallEnds` | one code of any kind the adapter tells apart, two calls under its key, three attempts a request, one crash |
| `transfers` (80,351) | `BalanceWithinHistory`, `OverdrawnByWebhooksOnly`, `OneTransferPerKey` | eight requests on three accounts, two in flight: a PIX and its repetition, a charge of the Matrix account and one of the payer's own, an administrator's transfer to the administrator, a webhook, a deposit, and a PIX whose key is that of another's second row |
| `services` (248,774) | `AnswerIsFaithful`, `NothingLeftBehind`, `RaceEnds` | race: three models in waves of two, two chunks each out of four kinds, both endpoints |
| | `OpensAtThreshold`, `Recovers`, `CallsEnd` | breaker: a caller and the audit loop, threshold 2, two attempts |
| | `PoolServes`, `ConnectionsComeBack` | pool: two workers and the webhook on two connections, three requests |
| `customer` (339,629) | `OpenAsPromised`, `OverdrawnOnce`, `RenewalsAreDue` | subscription: two sessions, price 2 of a balance of 2, plan of 2 days, trial of 1, five days |
| | `VerifiedByLiveLink`, `OneAccount`, `SpentIsRefused` | account: two handlers, three secrets, links that live for 2 |
| | `LimitHolds`, `RefusedOnlyIfFull` | limiter: two threads, one request per window, four calls |
| | `FeesAgree`, `RiskDecides` | fees: values on both sides of every threshold |
| | `TyposAreCaught`, `CodesAreRead` | codes: numbers in steps, every slip of one digit; ids and checksums that spell tags |

The types (`TypeOK`) of every module are a theorem (`TypeCorrect`, `TypesHold`, ...), and those of
the components of `Customer` an invariant of its run as well (`AllTypesOK`). A
property with several parts is named for what they say together, and has a mutant for each.

**What they show.** `outbound`: whatever webhooks are lost, repeated or reordered, whatever is
confirmed in between, an account is debited for a payment once, exactly when its ledger entry is
settled, which takes a transfer the PSP executed; requests that share a key or a payload cannot
debit one transfer twice, nor block each other on the index for ever; what is reserved never
exceeds the balance as long as sessions overlap neither each other nor a debit (sequential
requests, that is: overlapping ones are promised nothing, and do overdraw); and all of it is
exactly-once settlement. `charges`: no handler credits a charge nobody paid, but for
`receive_pix`, which takes the caller's word for it, and a receiver who pays a charge of their
own; that a paid charge is not credited twice is not said here but, of the receiver's own
handlers, by `own_charges`. And a payment is credited in the end, also when its charge was overdue
before and when handlers fail; where sync or confirm, which credit nobody, see the charge first,
it is at least confirmed. `own_charges`: the stale copies the receiver's sessions write lose
credits but create none. `audit`: corrections computed from three moments do not overdraw the
Matrix account, and end. `deposits`: verification recognises what the webhook credited by either
id, two users with one masked document cannot both be credited, and a refused batch leaves no
balance behind. `qr_dispatch`: through every chain of timeouts, refusals, detours and late
service, a key moves money once, because all routes carry one key; the value the router books is
the value moved, because a code that states an amount is never paid with another; and a call ends.
`transfers`: lost updates lose money one way or the other, but no interleaving gives an account
more than was credited to it or takes more than was debited; only webhooks overdraw, although
funds are checked on old copies; and the two keys of a transfer's rows keep repeated or colliding
requests from moving money twice. `services`: losers that go on talking, waves that fail and
customers who leave do not mix two answers or tear a hole into one; the block of thoughts that a
stream begins with stays hidden, in whatever pieces and behind whatever tags it comes, unless the
stream ends inside it; later blocks are passed on, as the code does. Whichever way an answer ends,
no call is leaked and no question left open; no interleaving inside the breaker's lock-free
methods leaves it open with a low count or loses an opening, and no straggler keeps it shut; and
the pool, which can block the very loop that would refill it, gets out of it by its timeout: the
webhook is processed in the end, and every connection comes back. `customer`: whatever
subscribing, cancelling, trial, grant, expiry and renewal are put in which order, the chat is open
for exactly what was promised and no renewal comes unasked or early; stale copies of the balance
overdraw it by one price at most; stale copies of the row sign in nobody unverified, and do not
bring a code back that has set a password: who compares it from then on is refused (two who
compared it before either committed are not, and both set a password). The limiter is right for
requests one at a time, and n threads at once let n(n-1)/2 more through than their number of
limits. For payments to and from other banks the fee that is previewed is the fee that is taken,
with at least a real of margin and, for companies, up to a real above what the label says; inside
the platform less is taken than shown; what the projection overstates is exactly the fee on what
companies receive. And check digits catch what they can.

**Bounds.** `MaxInFlight`, `MaxCrashes`, `MaxDebits`, `MaxFailures`, `MaxCredits`, `MaxEvents`
bound what the environment does. Three requests are the least that has a repeated key and a
repeated payload at the same time; one crash already separates what is committed from what is not,
and a second could only repeat it. A charge is left alone after two credits: the second is what
every property on credits is about. Two calls under one key are all that can overlap in
`qr_dispatch`, the second after a crash or a rollback; three attempts are the code's. The
transfers have at most two requests in flight (`MaxInFlight`): a stale copy takes one writer and
one overtaker, and its four invariants are proved for any number. Two callers are the least that
race inside the breaker while an answer of before is on its way; the threshold is 2 rather than
the code's 5, and two attempts rather than three, to keep liveness feasible, and the theorem on
the breaker holds for all values. In `audit`, costs of 0 and 2, deposits of 3 and 6 and a cap of 4
give differences within and above the cap, and with a Matrix balance of 3, corrections it can and
cannot pay. Three models and waves of two are the least with a loser in a wave and a wave after
it; two chunks and the four of `MCChunks` give blocks that come in pieces, behind a tag, behind
text and behind another block, and streams that end inside each; longer streams and all other
chunks are the theorem's. Two workers and the webhook are the least that can all wait on two
connections, and a third request shows a worker come again. In `customer`, a plan of two days and
a trial of one are told apart from each other and from none, five days hold two periods and a
lapse; two stale copies are the least that race. Links that live for two, with a wait of one
before the next, can be replaced while they live and after; three secrets are a link, its
replacement and a code. Two threads race on one deque, and four calls in four units of time fill
and empty a window of one; a third thread makes too many states to check on every run, and is
where the proof is needed (below). Fees are asked for one cent, for the values where the minimum,
the percentage and the rounding meet, and on both sides of each rule of the antifraud; the
properties of codes range over every single slip of the numbers typed. Amounts are in cents; where
only "credited or not" matters they are 1.

**Schedules.** `SpendableNonNegative` speaks of the states before sessions, or a session and a
debit, have `overlapped`, and says nothing of requests handled at the same time; the other
behaviours of `outbound` go on and are under its other properties. `own_charges` has only tasks of
the receiver (`OwnerTasks`). `deposits` is checked under `PromptSpec`: a deposit whose webhook
will find a customer is listed only after it. Without these restrictions the properties fail, as
told below. Deadlock is not checked where the instance ends on its own: all requests answered, all
events used up.

**Fairness.** Worker threads and handlers that have started go on (`WF` of `Handle(r)`, of
`Advance(s)`, of `Continue(c)`): the interpreter schedules threads, and the database ends every
wait. `Begin(Loop, webhook)` is strongly fair: Asaas repeats a webhook until it is answered with
200. In `services`, time passes for the breaker and the audit loop, which runs for ever
(`audit_worker.py` 448-494), calls again. In `audit` the loop audits again and again (strongly, as
the event loop is sometimes taken), and Asaas is not unavailable for ever. In `qr_dispatch` a call
that has begun goes on (`WF` of `Handle(c)`): the HTTP client's timeout fires. The advisor's
handler goes on, its timed wait for the queue included, and a call of `/chat` has a timeout (`WF`
of `Handle`, `CallEnds`); tasks that only feed the queue are assumed nothing of. A session's own
steps go on, those that need the event loop whenever it comes round often enough (`SF` of
`Finish(s)`; `get_db` closes in a `finally`), and Asaas delivers the webhook again (`WF` of
`Deliver`). No fairness is assumed of customers, of the PSP's answers and verdicts, or of
administrators.

## Proofs

All for arbitrary constants under the named assumptions of the modules (`RequestAssumption`,
`ChargesAssumption`, `BreakerAssumption`, `AuditAssumption`, `CallAssumption`, `LimiterAssumption`, ...),
which say little more than what kind of thing each constant is. Six say more, of things outside
the code or of its tables: `CallAssumption`, that a dynamic code which states an amount states the
one of its charge; `QrDispatch.Recognised`, that the PSP recognises an idempotency key on
whichever endpoint it comes; `RaceAssumption`, that the roster names no model twice;
`LimiterAssumption`, that there are finitely many threads; `CodesAssumption`, that the id of a charge
fits its column of 36 characters and an amount the two digits of a length; and
`InboundDepositsProofs.Recognised`, of `PromptDepositCreditedOnce` only, that the PSP reveals one of
its two ids for a deposit whose webhook finds a user. `ReservedIsThere` also assumes that the
account starts with no debt.

| Module | Theorem | States |
|---|---|---|
| `PixOutboundProofs` | `TypeCorrect`, `DebitsMatchLedger`, `SettlementIsPaid`, `TransferDebitedOnce` | the safety properties of `outbound`, any number of requests, keys, crashes |
| | `ReservedIsThere` | `SpendableNonNegative`, any requests, totals and balance, while sessions overlap neither each other nor a debit |
| | `OutboundImplementsSettlement` | `Spec => Settlement!Spec` under the refinement mapping |
| `PixChargesProofs` | `TypeCorrect`; `OwnerNeverOverCredited`; `CreditsAlwaysPaid` | `NeverOverCredited`, if the tasks are the receiver's own; `CreditsArePaid`, if no task takes the caller's word |
| `BalanceAuditProofs` | `TypeCorrect`; `MatrixStaysNonNegative` | `MatrixNonNegative`, any amounts, fees, cap |
| `QrDispatchProofs` | `TypesHold`; `DispatchImplementsGateway` | `Spec => Gateway!Spec`: any codes, calls, keys, attempts |
| `InternalTransfersProofs` | `TypeCorrect`; `BalancesWithinHistory`; `TransfersNeverOverdraw`; `KeysMoveMoneyOnce` | the safety properties of the transfers in `transfers`, any accounts, requests, values and number in flight |
| `InboundDepositsProofs` | `TypeCorrect`; `CreditsAlwaysMatchRows`; `BalancesAreAccounted`; `VerifiedDepositCreditedOnce`; `PromptDepositCreditedOnce` | `CreditsMatchRows` and `BalanceIsAccounted` in every schedule; `OneCreditPerDeposit` without webhooks, and under `PromptSpec` |
| `CustomerProofs` | `TypeCorrect`; `ChatIsOpenAsPromised`; `PlanOverdrawsOnce`; `EveryRenewalIsDue` | the properties of the subscription, any sessions, prices and periods |
| | `SignedInIsVerifiedInTime`; `OneRegistration`; `SpentCodesAreRefused` | `VerifiedByLiveLink`, `OneAccount`, `SpentIsRefused`, any number of handlers |
| | `TheLimitHolds`; `NobodyIsRefusedEarly` | `LimitHolds`, `RefusedOnlyIfFull`, any number of threads, any limit and window |
| | `FeesAreAsPreviewed`; `RiskIsJudged` | `FeesAgree` and `RiskDecides` for every amount, hour and number of attempts |
| | `SlipsAreCaught` | `TyposAreCaught` for any digits, not only those that go up in steps |
| | `WrittenIsRead`; `ChecksumDecides`; `CodesAreReadRight` | `CodesAreRead` for any ids, amounts and checksums |
| | `CustomerTypeCorrect`; `CustomerCorrect` | `AllTypesOK` and all of these for the composition the run checks |
| `ServicesProofs` | `RaceTypeCorrect`; `OneModelAnswers`; `CallsAreEnded` | `AnswerIsFaithful`, `NothingLeftBehind`, any roster, waves, chunks and streams |
| | `BreakerTypeCorrect`; `StateAgreesWithCount` | `OpensAtThreshold`, any threads, any threshold |
| | `PoolTypeCorrect` | no more connections are held than there are, any workers and connections |
| | `ServicesCorrect` | `AnswerIsFaithful`, `NothingLeftBehind` and `OpensAtThreshold` for the composition the run checks |

All but one of the safety properties need a strengthening (`IInv` of each module), shown to
hold initially and to be kept by every action:

- *Outbound.* The webhooks and `confirm_pix` look at the status of a row, the properties
  speak of its ledger entry; `ReservedWhileProcessing` ties the two: a PROCESSING row has a
  PENDING entry, a scheduled one, or one a cancel handler has read as scheduled, has none.
  `UncommittedUnseen` says that a request still being handled has no row others can see, and
  `OwnTransfer` that a row carries the transfer of its own key or none. That no transfer is
  charged twice follows from `KeysDiffer`: rows in the table, committed or not, have
  different keys, which is what the unique index and its waiting INSERT are for. The
  refinement maps `TransferDone` to `Settle` or a stutter, `TransferFailed` to `Reverse`,
  `CommitProcessing` to `Reserve`; the invariant gives the verdict the abstract step asks for.
- *Reservations.* `SpendableNonNegative` is about the sum over a set of rows that every step
  changes. What is needed of such sums, that a row more or less changes them by its total, is
  proved of the community modules' fold for any finite set, from the smallest set that would
  disagree. `Afforded` carries the invariant: while no session overlapped another, the one that is
  open has seen the balance of now, and a transfer that was admitted and has no row yet is still
  affordable.
- *Charges.* A commit writes the session's copy plus one, so `CopiesBounded` bounds the copies:
  by `Opening + |Confirmed|` when they are loaded, and by `Opening + |Confirmed \ {c}|` once
  the session has read its charge `c` as CREATED, which another session's confirmation of
  `c` does not disturb. Lemmas on adding a charge to a set come from `FiniteSetTheorems`. That
  credits are paid needs `SessionsPaid`: a session that is going to credit has seen the PSP's
  receipt, which is not taken back (`Received`), or debits its payer in the same commit.
- *Breaker* (`BreakerInv`). `OpensAtThreshold` is inductive with the types: a thread inside
  `record_failure` stands for an opening not yet written.
- *Pool* (`PoolInv`). That no more sessions hold a connection than there are needs `Holders`: a session
  that waits holds none, so that taking one adds one. That they all come back is liveness, and TLC's.
- *Race* (`RaceInv`). That one voice is heard without a gap is about tokens still on the queue:
  `Numbered` and `Ordered` say that those of a model which may still be shown follow what was
  shown, in order; `Complete`, that none is missing, so that an answer closed with "done" is whole;
  `Unstarted`, that a model behind the wave has said nothing, for which the roster must not repeat
  itself.
- *Thoughts.* What the parser knows and where the model is are tied together by `Sound`: while it
  buffers, no `<think>` is in the buffer and the model does not think; once it streams, the model
  has spoken. A thought the parser holds is `Guarded`: a `<think>` is in front of it, no `</think>`
  is, and one is behind it unless the model still thinks. So dropping up to the first `</think>`
  drops all thoughts (`ChunkSound`), a model that has spoken has none left to say
  (`SpeakersSpeak`), and what the end of a stream flushes shows a thought only of a block that
  never ended (`FlushHides`).
- *Audit.* The Matrix account is written from copies (`live`, `paying`, `sending`):
  `CopiesNonNegative` says that none is negative, and that a transfer waiting for Asaas is
  at most the balance it was read from.
- *QR dispatch.* The detours answer with the charge's value, not with that of the payment, which
  may be an earlier route's or call's: `PaidAsStated` says the two agree, `RepliesAreTrue` that a
  reply "paid" follows a payment, `TransferIsPriced` that no transfer is made of nothing.
- *Transfers.* A commit writes sums of copies, so the bounds on balances must hold of the copies
  it will write (`CopiesBounded`); they only widen, so a copy stays within them however old.
  `FundsChecked` says that a loaded request has the funds in its own copy.
- *Deposits.* `CreditsMatchRows` needs `HookIsNew`: the webhook in hand has no row yet, since
  webhooks are handled one at a time. A batch is checked against rows of an earlier moment;
  what keeps it safe is the index at the commit (`Refused`). Without webhooks all rows are
  verifications' (`NoWebhooks`), and one credit per deposit follows. When webhooks come first,
  `LeftToWebhooks` divides the deposits: one whose webhook finds a user is listed only once its row is
  there, so that no batch has it; any other has no webhook's row. A commit writes a copy and
  what its rows account for, so `CopiesAccounted` says that copies are accounted for too; that
  a batch adds as many rows as deposits is a bijection (`RowsCounted`).
- *Subscription.* `RowAgrees`: an active row expires on the last day promised, any other is past
  it, and the promise never reaches further than a payment of today would; so a trial or a
  payment takes nothing away. `LastWord`: an active plan that renews is one the customer last
  agreed to. `OverdrawnByPlan`: without a row, the account is not overdrawn, so that the one
  debit that is not checked against what it is written to is the first.

- *Account* (`AccountInv`). A handler writes what it computed on a row it loaded long ago. Two facts
  hold the links and codes together: `RowFirst`, that there is a row before anybody works on one or
  signs in, and `SecretsApart`: the row's link is as old as the row says, whatever is in use was
  written, and what a handler is about to write was not and is its own. `CodeUnspent`, that the code in
  the row has set no password, is what refuses a spent one.
- *Limiter* (`LimiterInv`). Alone (`OneAtATime`): what passed is `Spread` over the windows, the deque is
  its end (`EndOfPassed`), and the thread inside has dropped what is too old (`Progress`), so that
  a refusal finds the window full. Together: each thread can create a deque of its own over the
  one before, and each deque takes those who are in at the same time. There is an order of the
  threads (`SomeOrder`) in which a thread's deque is used by nobody behind it, and the deque of the
  `i`-th holds at most `MaxReq - 1 + i`; whoever enters a deque may trade places in that order. The
  sum is the bound. The proof corrected the model: the bound that two threads bear out, one more
  per further thread, is wrong from three on, and TLC shows a run of three that exceeds it. With
  n(n-1)/2 it is exact.
- *Fees and risk* (`QuestionInv`). Percentages and rounding are integer divisions; the proof splits at
  the minimum and bounds the remainder of each division.
- *Checksum.* Of all places that read as the tag, the last is where the tag was written, or the
  checksum itself when it reads so: a tag written just before leaves room for no other that
  overlaps it.
- *BR codes.* `Walk` and `Stripped` are recursive functions, of which TLA+ says nothing before their
  equation is known to have a solution. `WalkExists` and `StripsExist` build one, from the end of the
  text on and from the start of the id. Then a field written in front of a text that can be walked
  is read and leaves the rest to be walked (`FieldIsRead`); ten of them in a row are the code, and what
  the id or the checksum spells inside a field is never walked over.
- *Slips.* A weighted sum is a fold over places. That it has a value is shown for each number of
  places (`SumsExist`), and that it is a number and changes by what one term changes, from the
  smallest set of places that would disagree. A slip at one place changes the sum by
  that place's weight times the slip, which 11 does not divide (nor 10, for the doubled digits of a
  line), so that the remainder changes; `Unguarded` are the places where two remainders
  give one check digit.

The compositions (`CustomerRuns`, `ComponentsRun`) need nothing but that a step of one component is a
stutter of the others.

Only model-checked is liveness: `AdmittedIsAnswered`, `PaidIsCredited`, `Recovers`, `CallsEnd`,
`CallEnds`, `Converges`, `RaceEnds`, `PoolServes`, `ConnectionsComeBack`. Fairness and ENABLED are
out of the prover's reach. So is induction over data in general (the library's induction theorems
take an operator as a parameter): where a sum or a walk over a text had to be reasoned about, the
induction is spelled out for it, as the smallest counterexample or the least number.
`OneCreditPerDeposit` does not hold in every schedule (`claim_verify_idempotent`), which is why
its two theorems name the schedules they are about. RECURSIVE operators these modules have none.

## Where the code and its comments disagree

Each of these is a run that TLC ends with a counterexample.

| Run | Comment | What the code does |
|---|---|---|
| `claim_done_debited` | `pix/router.py:1976` "Debit happens at webhook TRANSFER_DONE confirmation" | a webhook that comes before the commit, or after `confirm_pix`, is answered with 200 and dropped |
| `claim_double_spend` | `tests/test_concurrency.py:82` "Only one should succeed; the other must see insufficient funds", thanks to "database-level locks" | two transfers inside the platform check one balance, lock nothing, and are both carried out |
| `claim_verify_idempotent` | `pix/router.py:1297` "without double-credit risk" | the webhook does not recognise the id verification recorded |

Others, met while modelling and present in the models, though no run is spent on them:

- `pix/service.py:45` "Prevents overdraw when multiple transfers are in-flight awaiting webhook
  confirmation": the balance is that of the authentication, the rows in flight are those of now. A
  transfer whose webhook comes in between is in neither: two are admitted on the money of one, and both
  are debited (why `SpendableNonNegative` excepts what `overlapped`). And transfers inside the platform
  spend what is reserved, without asking for it.
- `auth/router.py:513` "Single-use: token is cleared after successful reset": two confirmations that
  compared one code before either committed both set a password (why `SpentIsRefused` speaks of those
  who compare it afterwards).
- `ia/router.py:333` "strips thinking tokens": only a block found before anything was passed on is held
  back. A later one is passed on as the answer (an `aside`), and ordinary text in front of the first
  `<think>` is dropped with the block.
- `pix/router.py:649` "display the exact platform fee before the user confirms a transfer": the preview
  always asks for the fee of an external payment, whoever is paid; inside the platform nothing is taken
  for a transfer, and 1.00 for a QR code.
- `pix/service.py:280` "prevents orphaned PSP transactions if the app crashes between dispatch
  and persist": the row is flushed, not committed, before the dispatch; a crash rolls it back.
- `pix/service.py:257` "Balance debit is DEFERRED to webhook confirmation": the row of a transfer
  to a key keeps a local id, the webhook looks for the PSP's, and nothing is ever debited.
- `pix/router.py:2149` "SELECT FOR UPDATE prevents concurrent balance mutation": handlers that
  credit lock nothing, and write a sum computed before the debit over it.
- `pix/models.py:120` "prevents the same user from paying the same QR twice": the constraint
  sees committed rows only; after a crash the payload is paid again under another key.
- `pix/router.py:2125` "only PROCESSING -> CONFIRMED is valid": `confirm_pix` confirms failed
  and cancelled rows.
- `pix/router.py:1165` "Enforces One-Time Use": `sync` reopens a charge paid inside the
  platform.
- `pix/router.py:709` "The check is idempotent": a webhook and a lazy refresh that both read
  CREATED credit twice.
- `pix/router.py:1290` "deposits made to the platform static QR code": the verification
  credits payers of other customers' virtual keys too.
- `adapters/asaas_adapter.py:721` takes `valor.modalidadeAlteracao` for an amount when a charge
  has no `original`; it is a flag that says whether the payer may change the amount. (In
  `QrDispatch` a charge's amount is whatever the adapter finds; that a flag is not found in its
  place is part of `CallAssumption`.)
- `adapters/asaas_adapter.py:84` "after 3 consecutive failures": the threshold is 5; line 209
  "fails fast": a rejection is retried with waits; line 30, `OPEN -> HALF_OPEN`: a late success
  closes an open breaker; line 31 "Thread-safe via GIL": two threads may leave it half open
  with a count of zero.
- `core/audit_worker.py:15` "Auto-correction cap": surpluses have none; line 270 "accumulated
  platform margin": deposits in flight are swept as well.
- `web_routes.py:1187` "surplus sweep is always allowed": the administrator's sweep adds a
  float to a Decimal and raises (so does the transfer from Asaas to the Matrix account).
- `minha_conta/service.py:38-39` promises the renewal of a plan that has run out; the chat's gate
  (`ia/router.py` 38-57) marks it EXPIRED first, funds or not, and only a page view that comes
  before renews. Two clicks on "subscribe" pay twice for one period.
- `ia/router.py:319` "Commits to the first model that delivers a real content token": a stream that
  ends without a token ends the race with an empty answer, and a thought that is cut off by the
  end of its stream is shown.
- `auth/router.py:45`: of requests that enter the limiter at once, each thread's is let through, and
  the first ones can empty the store (`LimitHolds` says by how much).
- `pix/router.py` 200-208 "Returns True when valid": a BR code whose right checksum reads `6304` is
  refused, and a text without a checksum that happens to spell the tag is checked for one.
- Check digits let single slips pass where `Unguarded` says: after the third field of a typed
  boleto line, in bars that seem to be a utility's, and where one digit stands for two or three
  remainders.
- `core/fees.py`: the projection counts a fee on what companies receive that
  `calculate_pix_receive_fee` no longer charges; `calculate_pix_service_fee` is -2.00 for what is
  received while `fee_breakdown` says 0. The label of a company's fee says "mín. R$ 3,00" (line 293)
  where the least that is charged is 4.00, and the docstrings of lines 20-43, 210-222 and 340 give
  2.50, 3.00 and a margin of 0.50; `web_routes.py` 1425-1447 shows minimums of 3.00 and 2.50 as well.
  "Internal" payments are free by line 241, and the maintenance fee is for external operations by
  line 108, while the internal QR payment takes it (`pix/router.py` 1673-1730).

## Not modelled

- Cards and the instalment simulation: rows without a protocol, and powers of a rate in floating
  point. So are the advisor's financial snapshot, the scores and the prompt they become, and the
  growth over several months, which repeats the projection.
- The query of a boleto, which makes up its answer; the fee of boletos and its display.
- The CRC polynomial (the checksum is any function), and the URLs of dynamic codes: of codes of
  other banks `QrDispatch` has what the parsers tell apart.
- Signatures and expiry of tokens: cookies count as a session or none. `/pix/payments/execute` asks
  for a row no endpoint leaves behind.
- E-mail, logs, metrics, pages and scripts are output or one-off maintenance; the end-of-day
  report repeats the audit and rounds what it prints.
- Deadlocks of row locks: the locks of the `TRANSFER_DONE` webhook are modelled as atomicity, and in
  `InternalTransfers` as locks of the payer's row; the deadlock they can have with an internal
  payment that involves the Matrix account appears as the rollback the database ends it with
  (`Fails`).
- Fees, cents and rounding are constants of the modules that move money, and computed in
  `FeesAndRisk` only.

## Plan

Done, in this order: outbound PIX (`OutboundSettlement`, `PixOutbound`) with its refinement;
credits (`PixCharges`, `InboundDeposits`); `CircuitBreaker`; `BalanceAudit`; `QrDispatch` under
`GatewayDispatch`; `InternalTransfers`; `Subscription`; their proofs; `CustomerAccounts`,
`RateLimiter`, `AdvisorRace`, `ConnectionPool`, `FeesAndRisk`, `PaymentCodes`; and the proofs of their
invariants, of the reservation, of what BR codes and check digits are for, and of deposits under
prompt webhooks. Left: `Subscription` composed with the accounts of `InternalTransfers`, where its
debits would meet others than `OtherMovement`.
