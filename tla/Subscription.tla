----------------------------- MODULE Subscription -----------------------------
(***************************************************************************)
(* A customer's subscription to the advisor, in days.                      *)
(*                                                                         *)
(* Authentication loads the customer's account on a worker thread; the     *)
(* handler then runs on the event loop without giving it up, so handlers   *)
(* are atomic and read the subscription fresh, but the balance they check  *)
(* and write is the one authentication saw, unless a commit of their own   *)
(* came in between.  Nothing renews a subscription by itself: the page of  *)
(* the account does when it finds the period over, and the chat's gate     *)
(* closes what it finds over.                                              *)
(***************************************************************************)
EXTENDS Integers

CONSTANTS
  Sessions,   \* the requests that can be in flight
  NoTask,     \* the task of an idle session
  Price,      \* SUBSCRIPTION_AMOUNT
  Days,       \* SUBSCRIPTION_DAYS
  TrialDays,  \* TRIAL_HOURS, in days
  Opening,    \* the balance at the start
  MaxTime,    \* bound: days that pass
  MaxMoves    \* bound: other movements of the account

ASSUME SubscriptionAssumption ==
  /\ Price \in Nat \ {0}
  /\ TrialDays \in Nat /\ Days \in Nat
  /\ TrialDays <= Days
  /\ Opening \in Nat
  /\ MaxTime \in Nat /\ MaxMoves \in Nat

Tasks == {"page", "balance", "card", "cancel", "trial", "grant", "chat"}
ASSUME NoTaskAssumption == NoTask \notin Tasks

VARIABLES
  today,      \* days since the start, from 1
  balance,    \* users.saldo of the customer
  status,     \* the row's SubscriptionStatus, "ABSENT" without a row
  expires,    \* expires_at, 0 for none
  autoRenew,  \* auto_renew
  trialUsed,  \* trial_used
  task,       \* task[s]: what the session was asked to do
  saw,        \* saw[s]: the balance in its copy of the account
  moves,      \* other movements of the account so far
  renewals,   \* automatic renewals paid from the balance
  covered,    \* the last day the customer was ever promised, 0 for none
  agreed      \* the customer's last word was to pay for the plan

rowFields == <<status, expires, autoRenew, trialUsed>>
history == <<renewals, covered, agreed>>
vars == <<today, balance, rowFields, task, saw, moves, history>>

\* Every variable has its type, and an idle session holds no copy.
TypeOK ==
  /\ today \in 1 .. MaxTime + 1
  /\ balance \in Int
  /\ status \in {"ABSENT", "INACTIVE", "ACTIVE", "EXPIRED"}
  /\ expires \in 0 .. MaxTime + 1 + Days
  /\ autoRenew \in BOOLEAN /\ trialUsed \in BOOLEAN
  /\ task \in [Sessions -> Tasks \cup {NoTask}]
  /\ saw \in [Sessions -> Int]
  /\ \A s \in Sessions : task[s] = NoTask => saw[s] = 0
  /\ moves \in 0 .. MaxMoves
  /\ renewals \in Nat
  /\ covered \in 0 .. MaxTime + 1 + Days
  /\ agreed \in BOOLEAN

Init ==
  /\ today = 1
  /\ balance = Opening
  /\ status = "ABSENT" /\ expires = 0
  /\ autoRenew = TRUE /\ trialUsed = FALSE
  /\ task = [s \in Sessions |-> NoTask]
  /\ saw = [s \in Sessions |-> 0]
  /\ moves = 0
  /\ renewals = 0 /\ covered = 0 /\ agreed = FALSE

-----------------------------------------------------------------------------
(* The world around the handlers.                                          *)

NextDay ==
  /\ today <= MaxTime
  /\ today' = today + 1
  /\ UNCHANGED <<balance, rowFields, task, saw, moves, history>>

\* Other handlers credit the account, or debit what it holds.
OtherMovement ==
  /\ moves < MaxMoves
  /\ moves' = moves + 1
  /\ \/ balance' = balance + 1
     \/ balance >= 1 /\ balance' = balance - 1
  /\ UNCHANGED <<today, rowFields, task, saw, history>>

\* get_current_user.  The caller of a grant is the administrator.
Authenticate(s, t) ==
  /\ task[s] = NoTask
  /\ task' = [task EXCEPT ![s] = t]
  /\ saw' = [saw EXCEPT ![s] = IF t = "grant" THEN 0 ELSE balance]
  /\ UNCHANGED <<today, balance, rowFields, moves, history>>

\* Faulty variant of Answer: the copy of the account outlives the request.
AnswerKept(s) ==
  /\ task' = [task EXCEPT ![s] = NoTask]
  /\ saw' = saw
  /\ UNCHANGED <<today, moves>>

Answer(s) ==
  /\ task' = [task EXCEPT ![s] = NoTask]
  /\ saw' = [saw EXCEPT ![s] = 0]
  /\ UNCHANGED <<today, moves>>

-----------------------------------------------------------------------------
(* What the handlers have in common.                                       *)

\* _get_or_create: the columns of a new row have their defaults.
Found == IF status = "ABSENT" THEN "INACTIVE" ELSE status

Over == status = "ACTIVE" /\ expires < today

Affords(s) == saw[s] >= Price

\* Faulty variant of BalanceCopy: the check of a moment ago is trusted for a
\* balance that is read again.
BalanceAgain(s) == balance

\* The balance a debit is computed from: committing a new row expired the
\* session's copy.
BalanceCopy(s) == IF status = "ABSENT" THEN balance ELSE saw[s]

Larger(m, n) == IF m >= n THEN m ELSE n

\* Faulty variant of Activate: auto_renew is left as it was.
ActivateAsRenewing(days, renew) ==
  /\ status' = "ACTIVE"
  /\ expires' = today + days
  /\ autoRenew' = autoRenew
  /\ covered' = Larger(covered, today + days)
  /\ agreed' = renew

\* The customer has the plan from now on, to be renewed or not.
Activate(days, renew) ==
  /\ status' = "ACTIVE"
  /\ expires' = today + days
  /\ autoRenew' = renew
  /\ covered' = Larger(covered, today + days)
  /\ agreed' = renew

\* A refused request leaves behind the row it may have created.
Refuse(s) ==
  /\ Answer(s)
  /\ status' = Found
  /\ UNCHANGED <<balance, expires, autoRenew, trialUsed, history>>

-----------------------------------------------------------------------------
(* The handlers.                                                           *)

\* get_subscription, for the page: _check_expiry renews from the balance.
Renew(s) ==
  /\ task[s] = "page"
  /\ Over /\ autoRenew /\ Affords(s)
  /\ balance' = BalanceCopy(s) - Price
  /\ expires' = today + Days
  /\ covered' = Larger(covered, today + Days)
  /\ renewals' = renewals + 1
  /\ Answer(s)
  /\ UNCHANGED <<status, autoRenew, trialUsed, agreed>>

Lapse(s) ==
  /\ task[s] = "page"
  /\ Over /\ ~(autoRenew /\ Affords(s))
  /\ status' = "EXPIRED"
  /\ Answer(s)
  /\ UNCHANGED <<balance, expires, autoRenew, trialUsed, history>>

ShowPage(s) ==
  /\ task[s] = "page"
  /\ ~Over
  /\ Refuse(s)

\* The balance is checked before the row is created.
subscribe_with_balance(s) ==
  /\ task[s] = "balance"
  /\ IF Affords(s)
     THEN /\ Activate(Days, TRUE)
          /\ balance' = BalanceCopy(s) - Price
          /\ Answer(s)
          /\ UNCHANGED <<trialUsed, renewals>>
     ELSE /\ Answer(s)
          /\ UNCHANGED <<balance, rowFields, history>>

\* The charge of the card is simulated.  A card that is blocked or somebody
\* else's is refused before the row is created.
subscribe_with_card(s) ==
  /\ task[s] = "card"
  /\ \/ /\ Activate(Days, TRUE)
        /\ UNCHANGED <<trialUsed, renewals>>
     \/ UNCHANGED <<rowFields, history>>
  /\ Answer(s)
  /\ UNCHANGED balance

cancel_subscription(s) ==
  /\ task[s] = "cancel"
  /\ IF Found = "ACTIVE"
     THEN /\ autoRenew' = FALSE
          /\ agreed' = FALSE
          /\ Answer(s)
          /\ UNCHANGED <<balance, status, expires, trialUsed, renewals, covered>>
     ELSE Refuse(s)

\* Faulty variant of TrialRefused: an active plan does not refuse the trial.
TrialRefusedIfUsed == trialUsed

TrialRefused == trialUsed \/ Found = "ACTIVE"

activate_trial(s) ==
  /\ task[s] = "trial"
  /\ IF TrialRefused
     THEN Refuse(s)
     ELSE /\ Activate(TrialDays, FALSE)
          /\ trialUsed' = TRUE
          /\ Answer(s)
          /\ UNCHANGED <<balance, renewals>>

admin_grant_subscription(s) ==
  /\ task[s] = "grant"
  /\ Activate(Days, FALSE)
  /\ Answer(s)
  /\ UNCHANGED <<balance, trialUsed, renewals>>

\* _require_active_subscription: what the chat's gate lets through.
Admits == status = "ACTIVE" /\ ~Over

ChatGate(s) ==
  /\ task[s] = "chat"
  /\ status' = IF Over THEN "EXPIRED" ELSE status
  /\ Answer(s)
  /\ UNCHANGED <<balance, expires, autoRenew, trialUsed, history>>

Handle(s) ==
  \/ Renew(s) \/ Lapse(s) \/ ShowPage(s)
  \/ subscribe_with_balance(s) \/ subscribe_with_card(s)
  \/ cancel_subscription(s) \/ activate_trial(s)
  \/ admin_grant_subscription(s) \/ ChatGate(s)

Next ==
  \/ NextDay \/ OtherMovement
  \/ \E s \in Sessions : Handle(s) \/ \E t \in Tasks : Authenticate(s, t)

Spec == Init /\ [][Next]_vars

-----------------------------------------------------------------------------
(* Properties.                                                             *)

\* The chat is open exactly as long as the customer was ever promised, by
\* payment, trial or grant: nothing that happens in between, in whatever
\* order, takes away a day, and nothing adds one.
OpenAsPromised == Admits <=> today <= covered

\* The plan is renewed at the customer's expense only if their last word was
\* to pay for it, and only when everything they were promised is over: not
\* after a trial or a grant, not after cancelling, not twice for one period.
RenewalsAreDue ==
  [][renewals' > renewals => agreed /\ covered < today]_vars

\* The plan overdraws the account at most once and by no more than its price:
\* the first payment from the balance is checked against the copy and written
\* to the balance that is read again when the row is new.
OverdrawnOnce == balance >= -Price
=============================================================================
