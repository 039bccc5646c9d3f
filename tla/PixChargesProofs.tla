--------------------------- MODULE PixChargesProofs ---------------------------
(***************************************************************************)
(* Proof that the receiver's own sessions never over-credit its account,   *)
(* for any number of charges and threads.                                  *)
(*                                                                         *)
(* The copy of the account was loaded to authenticate the receiver, before *)
(* the copy of the charge.  A session that goes on has seen the charge     *)
(* unconfirmed, so its copy of the balance holds at most what the other    *)
(* confirmed charges brought; confirmed charges stay confirmed, and the    *)
(* commit adds the value of this one.                                      *)
(*                                                                         *)
(* And proof that nobody is credited for a charge that was not paid, when  *)
(* no handler takes the caller's word: what makes a session go on, the     *)
(* PSP's answer or its webhook, is not taken back.                         *)
(***************************************************************************)
EXTENDS PixCharges, FiniteSetTheorems, TLAPS

\* The receiver itself verifies, receives or pays; nothing else confirms.
OwnerTasksOnly ==
  \A t \in Tasks : t.own /\ t.kind \in {"verify", "receive", "pay"}

\* A session at work has a task.
TypeInv == TypeOK /\ \A s \in Sessions : step[s] # "idle" => task[s] \in Tasks

\* It has read its charge as CREATED before it decides to confirm it.
SessionsConfirm ==
  \A s \in Sessions :
    /\ step[s] \in {"read", "ready"} => status[task[s].charge] # "ABSENT"
    /\ step[s] = "read" => row[s] = "CREATED"
    /\ step[s] = "ready" => row[s] = "CONFIRMED"

\* What the session's copy of the balance can hold at most.
CopiesBounded ==
  \A s \in Sessions :
    /\ step[s] = "authenticated" => saw[s] <= Opening + Cardinality(Confirmed)
    /\ step[s] \in {"read", "ready"} =>
         saw[s] <= Opening + Cardinality(Confirmed \ {task[s].charge})

IInv == TypeInv /\ SessionsConfirm /\ CopiesBounded /\ NeverOverCredited

-----------------------------------------------------------------------------
LEMMA ConfirmedFinite ==
  /\ IsFiniteSet(Confirmed) /\ Cardinality(Confirmed) \in Nat
  /\ \A c : IsFiniteSet(Confirmed \ {c}) /\ Cardinality(Confirmed \ {c}) \in Nat
<1>1. Confirmed \subseteq Charges /\ IsFiniteSet(Charges)
  BY ChargesAssumption DEF Confirmed
<1>2. \A c : Confirmed \ {c} \subseteq Charges
  BY <1>1
<1>3. QED
  BY <1>1, <1>2, FS_Subset, FS_CardinalityType

LEMMA ConfirmedFiniteNext ==
  IsFiniteSet(Confirmed') /\ \A c : IsFiniteSet(Confirmed' \ {c})
<1>1. Confirmed' \subseteq Charges /\ IsFiniteSet(Charges)
  BY ChargesAssumption DEF Confirmed
<1>2. \A c : Confirmed' \ {c} \subseteq Charges
  BY <1>1
<1>3. QED
  BY <1>1, <1>2, FS_Subset

\* Confirming more charges never lowers a bound on the balance.
LEMMA BoundsGrow ==
  ASSUME Confirmed \subseteq Confirmed'
  PROVE  /\ Cardinality(Confirmed) <= Cardinality(Confirmed')
         /\ Cardinality(Confirmed') \in Nat
         /\ \A c : /\ Cardinality(Confirmed \ {c}) <= Cardinality(Confirmed' \ {c})
                   /\ Cardinality(Confirmed' \ {c}) \in Nat
<1>1. \A c : Confirmed \ {c} \subseteq Confirmed' \ {c}
  OBVIOUS
<1>2. QED
  BY <1>1, ConfirmedFiniteNext, FS_Subset, FS_CardinalityType

-----------------------------------------------------------------------------
(* Type correctness, whatever the handlers are asked to do.                *)

LEMMA TaskTypes ==
  ASSUME NEW t \in Tasks
  PROVE  t.charge \in Charges /\ t.kind \in TaskKinds
BY ChargesAssumption

LEMMA TypeInit == Init => TypeInv
BY ChargesAssumption DEF Init, TypeInv, TypeOK, Statuses, PspStates, Steps

LEMMA TypeStep == TypeInv /\ [Next]_vars => TypeInv'
<1> SUFFICES ASSUME TypeInv, [Next]_vars PROVE TypeInv'
  OBVIOUS
<1> USE DEF TypeInv, TypeOK, Steps, store, session, CloseSession, Elsewhere
<1>1. ASSUME NEW c \in Charges, CreateCharge(c) PROVE TypeInv'
  BY <1>1 DEF CreateCharge, CreateAtAsaas, CreateLocally, Statuses, PspStates
<1>2. ASSUME NEW c \in Charges, PspMoves(c) PROVE TypeInv'
  BY <1>2 DEF PspMoves, PspStates
<1>3. CASE TransferDoneDebit
  BY <1>3, ChargesAssumption DEF TransferDoneDebit
<1>4. ASSUME NEW s \in Sessions, NEW t \in Tasks, Begin(s, t) PROVE TypeInv'
  BY <1>4 DEF Begin
<1>5. ASSUME NEW s \in Sessions, ReadRow(s) PROVE TypeInv'
  <2>1. status[task[s].charge] \in Statuses
    BY <1>5, TaskTypes DEF ReadRow
  <2>2. CASE GoesOn(task[s].kind, status[task[s].charge])
    BY <1>5, <2>1, <2>2 DEF ReadRow
  <2>3. CASE ~GoesOn(task[s].kind, status[task[s].charge])
    BY <1>5, <2>3 DEF ReadRow, Statuses
  <2>4. QED
    BY <2>2, <2>3
<1>6. ASSUME NEW s \in Sessions, AskPsp(s) PROVE TypeInv'
  <2> DEFINE answer == psp[task[s].charge]
             new == [row EXCEPT ![s] = StatusOf(answer)]
  <2>1. answer # "NONE" => StatusOf(answer) \in Statuses
    BY <1>6, TaskTypes DEF AskPsp, StatusOf, Statuses, PspStates
  <2>2. \/ answer # "NONE" /\ row' = new /\ step' = [step EXCEPT ![s] = "ready"]
           /\ UNCHANGED <<task, saw>>
        \/ CloseSession(s)
    BY <1>6 DEF AskPsp
  <2>3. UNCHANGED store /\ Elsewhere
    BY <1>6 DEF AskPsp
  <2>4. CASE CloseSession(s)
    BY <2>3, <2>4 DEF Statuses
  <2>5. CASE row' = new /\ answer # "NONE" /\ step' = [step EXCEPT ![s] = "ready"]
             /\ UNCHANGED <<task, saw>>
    BY <1>6, <2>1, <2>3, <2>5 DEF AskPsp
  <2>6. QED
    BY <2>2, <2>4, <2>5
<1>7. ASSUME NEW s \in Sessions, LoadReceiver(s) PROVE TypeInv'
  BY <1>7 DEF LoadReceiver, AccountCopy, Statuses
<1>8. ASSUME NEW s \in Sessions, Commit(s) PROVE TypeInv'
  <2>1. task[s].charge \in Charges
    BY <1>8, TaskTypes DEF Commit
  <2>2. status' \in [Charges -> Statuses]
    BY <1>8, <2>1 DEF Commit
  <2>3. balance' \in Int /\ credits' \in [Charges -> Nat]
    BY <1>8, <2>1 DEF Commit
  <2>4. inside' \in [Charges -> Nat]
    BY <1>8, <2>1 DEF Commit
  <2>5. CloseSession(s) /\ Elsewhere
    BY <1>8 DEF Commit
  <2>6. QED
    BY <2>2, <2>3, <2>4, <2>5 DEF Statuses
<1>9. ASSUME NEW s \in Sessions, Fail(s) PROVE TypeInv'
  BY <1>9, ChargesAssumption DEF Fail, Statuses
<1>10. CASE UNCHANGED vars
  BY <1>10 DEF vars
<1>11. QED
  BY <1>1, <1>2, <1>3, <1>4, <1>5, <1>6, <1>7, <1>8, <1>9, <1>10 DEF Next, Advance

\* The charges, the account and the sessions are well formed for any charges,
\* threads and tasks.
THEOREM TypeCorrect == Spec => []TypeOK
<1>1. TypeInv => TypeOK
  BY DEF TypeInv
<1>2. QED
  BY <1>1, TypeInit, TypeStep, PTL DEF Spec

-----------------------------------------------------------------------------
(* The receiver's own sessions.                                            *)

\* What IInv says of one session.
Known(s) ==
  /\ step[s] \in {"read", "ready"} => status[task[s].charge] # "ABSENT"
  /\ step[s] = "read" => row[s] = "CREATED"
  /\ step[s] = "ready" => row[s] = "CONFIRMED"
  /\ step[s] = "authenticated" => saw[s] <= Opening + Cardinality(Confirmed)
  /\ step[s] \in {"read", "ready"} =>
       saw[s] <= Opening + Cardinality(Confirmed \ {task[s].charge})

LEMMA IInvInit == Init => IInv
<1>1. SUFFICES ASSUME Init PROVE IInv
  OBVIOUS
<1>2. TypeInv /\ SessionsConfirm /\ CopiesBounded
  BY <1>1, TypeInit DEF Init, SessionsConfirm, CopiesBounded
<1>3. NeverOverCredited
  <2>1. balance = Opening /\ Opening \in Int
    BY <1>1, ChargesAssumption DEF Init
  <2>2. QED
    BY <2>1, ConfirmedFinite DEF NeverOverCredited
<1>4. QED
  BY <1>2, <1>3 DEF IInv

\* No step takes a confirmed charge back, and none removes a charge.
LEMMA ConfirmedStays ==
  ASSUME OwnerTasksOnly, IInv, [Next]_vars
  PROVE  /\ Confirmed \subseteq Confirmed'
         /\ \A c \in Charges : status[c] # "ABSENT" => status'[c] # "ABSENT"
<1> USE DEF Confirmed, store
<1>t. status \in [Charges -> Statuses]
  BY DEF IInv, TypeInv, TypeOK
<1>1. ASSUME NEW c \in Charges, CreateCharge(c)
      PROVE  status[c] = "ABSENT" /\ status' = [status EXCEPT ![c] = "CREATED"]
  BY <1>1 DEF CreateCharge, CreateAtAsaas, CreateLocally
<1>2. ASSUME NEW s \in Sessions, Commit(s)
      PROVE  status' = [status EXCEPT ![task[s].charge] = "CONFIRMED"]
  BY <1>2 DEF Commit, IInv, SessionsConfirm
<1>3. CASE UNCHANGED status
  BY <1>3
<1>4. CASE \E c \in Charges : CreateCharge(c)
  BY <1>t, <1>1, <1>4
<1>5. CASE \E s \in Sessions : Commit(s)
  BY <1>t, <1>2, <1>5
<1>6. (\E c \in Charges : CreateCharge(c)) \/ (\E s \in Sessions : Commit(s)) \/ UNCHANGED status
  BY DEF Next, Advance, PspMoves, TransferDoneDebit, Begin, ReadRow, AskPsp,
         LoadReceiver, Fail, vars
<1>7. QED
  BY <1>3, <1>4, <1>5, <1>6

LEMMA IInvStep ==
  ASSUME OwnerTasksOnly, IInv, [Next]_vars
  PROVE  IInv'
<1>t. TypeInv /\ TypeInv' /\ Opening \in Int
  BY TypeStep, ChargesAssumption DEF IInv
<1>k. NeverOverCredited /\ \A s \in Sessions : Known(s)
  BY DEF IInv, SessionsConfirm, CopiesBounded, Known
<1>c. /\ Confirmed \subseteq Confirmed'
      /\ \A c \in Charges : status[c] # "ABSENT" => status'[c] # "ABSENT"
  BY ConfirmedStays
<1>b. /\ Cardinality(Confirmed) <= Cardinality(Confirmed')
      /\ Cardinality(Confirmed) \in Nat /\ Cardinality(Confirmed') \in Nat
      /\ \A c : /\ Cardinality(Confirmed \ {c}) <= Cardinality(Confirmed' \ {c})
                /\ Cardinality(Confirmed \ {c}) \in Nat
                /\ Cardinality(Confirmed' \ {c}) \in Nat
  BY <1>c, BoundsGrow, ConfirmedFinite
\* A session the step does not touch keeps its copies, and its bounds grow.
<1>other. ASSUME NEW s \in Sessions,
                 step'[s] = step[s], task'[s] = task[s],
                 row'[s] = row[s], saw'[s] = saw[s]
          PROVE  Known(s)'
  <2>1. step[s] # "idle" => task[s].charge \in Charges
    BY <1>t, TaskTypes DEF TypeInv
  <2>2. saw[s] \in Int /\ Known(s)
    BY <1>t, <1>k DEF TypeInv, TypeOK
  <2>3. QED
    BY <1>other, <1>t, <1>c, <1>b, <2>1, <2>2, SMTT(30) DEF Known
<1>closed. ASSUME NEW s \in Sessions, step'[s] = "idle"
           PROVE  Known(s)'
  BY <1>closed DEF Known
<1>balance. ASSUME balance' <= balance
            PROVE  NeverOverCredited'
  BY <1>balance, <1>t, <1>k, <1>b DEF NeverOverCredited, TypeInv, TypeOK
<1>enough. ASSUME NeverOverCredited', \A s \in Sessions : Known(s)'
           PROVE  IInv'
  BY <1>t, <1>enough DEF IInv, SessionsConfirm, CopiesBounded, Known
<1>1. ASSUME UNCHANGED session, balance' <= balance
      PROVE  IInv'
  BY <1>1, <1>other, <1>balance, <1>enough DEF session
<1>2. ASSUME NEW s \in Sessions, balance' <= balance, Known(s)',
             \A q \in Sessions \ {s} : /\ step'[q] = step[q] /\ task'[q] = task[q]
                                       /\ row'[q] = row[q] /\ saw'[q] = saw[q]
      PROVE  IInv'
  <2>1. \A q \in Sessions : Known(q)'
    BY <1>2, <1>other
  <2>2. QED
    BY <2>1, <1>2, <1>balance, <1>enough
<1>3. ASSUME NEW s \in Sessions, NEW t \in Tasks, Begin(s, t)
      PROVE  IInv'
  <2>1. step' = [step EXCEPT ![s] = "authenticated"] /\ saw' = [saw EXCEPT ![s] = balance]
    BY <1>3 DEF Begin, OwnerTasksOnly
  <2>2. Confirmed' = Confirmed
    BY <1>3 DEF Begin, Confirmed, store
  <2>3. Known(s)'
    BY <2>1, <2>2, <1>t, <1>k DEF Known, NeverOverCredited, TypeInv, TypeOK
  <2>4. QED
    BY <1>2, <1>3, <1>t, <2>3 DEF Begin, store, TypeInv, TypeOK
<1>4. ASSUME NEW s \in Sessions, ReadRow(s)
      PROVE  IInv'
  <2> DEFINE c == task[s].charge
  <2>1. task[s] \in Tasks /\ c \in Charges
    BY <1>4, <1>t, TaskTypes DEF ReadRow, TypeInv
  <2>2. ASSUME GoesOn(task[s].kind, status[c])
        PROVE  Known(s)'
    <3>1. status[c] = "CREATED"
      BY <2>1, <2>2 DEF GoesOn, OwnerTasksOnly
    <3>2. /\ step' = [step EXCEPT ![s] = "read"] /\ row' = [row EXCEPT ![s] = "CREATED"]
          /\ UNCHANGED <<task, saw, status>>
      BY <1>4, <2>2, <3>1 DEF ReadRow, store
    <3>3. Confirmed' \ {c} = Confirmed
      BY <3>1, <3>2 DEF Confirmed
    <3>4. saw[s] <= Opening + Cardinality(Confirmed)
      BY <1>4, <1>k DEF Known, ReadRow
    <3>5. QED
      BY <1>t, <3>1, <3>2, <3>3, <3>4 DEF Known, TypeInv, TypeOK
  <2>3. ASSUME ~GoesOn(task[s].kind, status[c])
        PROVE  Known(s)'
    <3>1. step'[s] = "idle"
      BY <1>4, <2>3, <1>t DEF ReadRow, CloseSession, TypeInv, TypeOK
    <3>2. QED
      BY <3>1, <1>closed
  <2>4. QED
    BY <1>2, <1>4, <1>t, <2>2, <2>3
    DEF ReadRow, CloseSession, store, TypeInv, TypeOK
<1>5. ASSUME NEW s \in Sessions, AskPsp(s)
      PROVE  IInv'
  <2> DEFINE answer == psp[task[s].charge]
  <2>1. task[s].kind = "verify"
    BY <1>5, <1>t DEF AskPsp, TypeInv, OwnerTasksOnly
  <2>2. CASE step'[s] = "idle"
    BY <1>2, <1>5, <1>t, <1>closed, <2>2
    DEF AskPsp, CloseSession, store, TypeInv, TypeOK
  <2>3. CASE step'[s] # "idle"
    <3>1. /\ answer = "RECEIVED" /\ step' = [step EXCEPT ![s] = "ready"]
          /\ row' = [row EXCEPT ![s] = StatusOf(answer)] /\ UNCHANGED <<task, saw>>
      BY <1>5, <1>t, <2>1, <2>3 DEF AskPsp, Paid, CloseSession, TypeInv, TypeOK
    <3>2. StatusOf(answer) = "CONFIRMED"
      BY <3>1 DEF StatusOf
    <3>3. Confirmed' = Confirmed /\ status' = status /\ balance' = balance
      BY <1>5 DEF AskPsp, Confirmed, store
    <3>4. Known(s)'
      BY <1>5, <1>t, <1>k, <3>1, <3>2, <3>3 DEF AskPsp, Known, TypeInv, TypeOK
    <3>5. QED
      BY <1>2, <1>t, <3>1, <3>3, <3>4 DEF TypeInv, TypeOK
  <2>4. QED
    BY <2>2, <2>3
<1>6. ASSUME NEW s \in Sessions, LoadReceiver(s)
      PROVE  IInv'
  <2>1. task[s].own
    BY <1>6, <1>t DEF LoadReceiver, TypeInv, OwnerTasksOnly
  <2>2. /\ step' = [step EXCEPT ![s] = "ready"] /\ row' = [row EXCEPT ![s] = "CONFIRMED"]
        /\ saw' = [saw EXCEPT ![s] = saw[s]] /\ UNCHANGED <<task, status, balance>>
    BY <1>6, <2>1 DEF LoadReceiver, AccountCopy, store
  <2>3. Confirmed' = Confirmed
    BY <2>2 DEF Confirmed
  <2>4. Known(s)'
    BY <1>6, <1>t, <1>k, <2>2, <2>3 DEF LoadReceiver, Known, TypeInv, TypeOK
  <2>5. QED
    BY <1>2, <1>t, <2>2, <2>4 DEF TypeInv, TypeOK
<1>7. ASSUME NEW s \in Sessions, Commit(s)
      PROVE  IInv'
  <2> DEFINE c == task[s].charge
  <2>1. task[s] \in Tasks /\ c \in Charges /\ Crediting(task[s].kind)
    BY <1>7, <1>t, TaskTypes DEF Commit, TypeInv, OwnerTasksOnly, Crediting
  <2>2. /\ row[s] = "CONFIRMED" /\ saw[s] \in Int
        /\ saw[s] <= Opening + Cardinality(Confirmed \ {c})
    BY <1>7, <1>t, <1>k DEF Commit, Known, TypeInv, TypeOK
  <2>3. status' = [status EXCEPT ![c] = "CONFIRMED"] /\ balance' = saw[s] + 1
    BY <1>7, <2>1, <2>2 DEF Commit
  <2>4. c \in Confirmed'
    BY <1>t, <2>1, <2>3 DEF Confirmed, TypeInv, TypeOK
  <2>5. Cardinality(Confirmed' \ {c}) = Cardinality(Confirmed') - 1
    BY <2>4, ConfirmedFiniteNext, FS_RemoveElement
  <2>6. NeverOverCredited'
    <3>1. /\ Cardinality(Confirmed \ {c}) <= Cardinality(Confirmed') - 1
          /\ Cardinality(Confirmed \ {c}) \in Nat /\ Cardinality(Confirmed') \in Nat
      BY <1>b, <2>5
    <3>2. saw[s] + 1 <= Opening + Cardinality(Confirmed')
      <4> DEFINE x == Cardinality(Confirmed \ {c})
                 y == Cardinality(Confirmed')
      <4>1. saw[s] \in Int /\ Opening \in Int /\ x \in Nat /\ y \in Nat
            /\ saw[s] <= Opening + x /\ x <= y - 1
        BY <1>t, <2>2, <3>1
      <4> HIDE DEF x, y
      <4>2. QED
        BY <4>1 DEF y
    <3>3. QED
      BY <2>3, <3>2 DEF NeverOverCredited
  <2>7. \A q \in Sessions \ {s} : /\ step'[q] = step[q] /\ task'[q] = task[q]
                                   /\ row'[q] = row[q] /\ saw'[q] = saw[q]
    BY <1>7, <1>t DEF Commit, CloseSession, TypeInv, TypeOK
  <2>8. step'[s] = "idle"
    BY <1>7, <1>t DEF Commit, CloseSession, TypeInv, TypeOK
  <2>9. \A q \in Sessions : Known(q)'
    BY <1>other, <1>closed, <2>7, <2>8
  <2>10. QED
    BY <1>enough, <2>6, <2>9
<1>8. ASSUME NEW s \in Sessions, Fail(s)
      PROVE  IInv'
  BY <1>2, <1>8, <1>t, <1>closed DEF Fail, CloseSession, store, TypeInv, TypeOK
<1>9. CASE \/ \E c \in Charges : CreateCharge(c) \/ PspMoves(c)
           \/ TransferDoneDebit \/ UNCHANGED vars
  <2>1. UNCHANGED session /\ (balance' = balance \/ balance' = balance - 1)
    BY <1>9 DEF CreateCharge, CreateAtAsaas, CreateLocally, PspMoves, TransferDoneDebit, vars, store
  <2>2. balance' <= balance
    BY <2>1, <1>t DEF TypeInv, TypeOK
  <2>3. QED
    BY <1>1, <2>1, <2>2
<1>10. QED
  BY <1>3, <1>4, <1>5, <1>6, <1>7, <1>8, <1>9 DEF Next, Advance

\* However the receiver's verifications, receipts and self-payments interleave
\* and fail, its account never holds more than its confirmed charges brought.
THEOREM OwnerNeverOverCredited ==
  ASSUME OwnerTasksOnly
  PROVE  Spec => []NeverOverCredited
<1>1. IInv /\ [Next]_vars => IInv'
  BY IInvStep
<1>2. IInv => NeverOverCredited
  BY DEF IInv
<1>3. QED
  BY <1>1, <1>2, IInvInit, PTL DEF Spec

-----------------------------------------------------------------------------
(* No credit without a payment.                                            *)

\* Nobody credits on the caller's word, and nobody pays a charge of its own.
PaidTasksOnly ==
  \A t \in Tasks : t.kind # "receive" /\ (t.kind = "pay" => ~t.own)

\* What the PSP received stays received, or is refunded.
Received(c) == psp[c] \in {"RECEIVED", "REFUNDED"}

\* A charge without a row is not at the PSP.
AbsentUnknown == \A c \in Charges : status[c] = "ABSENT" => psp[c] = "NONE"

\* Webhooks are of payments received, and so are verifications that go on.
SessionsPaid ==
  \A s \in Sessions :
    /\ step[s] # "idle" /\ task[s].kind = "webhook" => Received(task[s].charge)
    /\ step[s] = "ready" /\ task[s].kind = "verify" => Received(task[s].charge)
    /\ step[s] \in {"read", "ready"} => row[s] # "ABSENT"

PInv == TypeInv /\ AbsentUnknown /\ SessionsPaid /\ CreditsArePaid

LEMMA PInvInit == Init => PInv
BY TypeInit DEF Init, PInv, AbsentUnknown, SessionsPaid, CreditsArePaid

\* What SessionsPaid says of one session.
PaidFor(s) ==
  /\ step[s] # "idle" /\ task[s].kind = "webhook" => Received(task[s].charge)
  /\ step[s] = "ready" /\ task[s].kind = "verify" => Received(task[s].charge)
  /\ step[s] \in {"read", "ready"} => row[s] # "ABSENT"

LEMMA PInvStep ==
  ASSUME PaidTasksOnly, PInv, [Next]_vars
  PROVE  PInv'
<1>t. TypeInv /\ TypeInv'
  BY TypeStep DEF PInv
<1>k. AbsentUnknown /\ CreditsArePaid /\ \A s \in Sessions : PaidFor(s)
  BY DEF PInv, SessionsPaid, PaidFor
\* A session that takes a step, when nothing else changes.
<1>session. ASSUME NEW s \in Sessions, PaidFor(s)', UNCHANGED <<store, psp>>,
                   \A q \in Sessions \ {s} : /\ step'[q] = step[q] /\ task'[q] = task[q]
                                             /\ row'[q] = row[q]
            PROVE  PInv'
  <2>1. \A q \in Sessions \ {s} : PaidFor(q)'
    BY <1>session, <1>k DEF PaidFor, Received
  <2>2. QED
    BY <1>session, <1>t, <1>k, <2>1
       DEF PInv, AbsentUnknown, SessionsPaid, PaidFor, CreditsArePaid, store
<1>1. ASSUME NEW c \in Charges, CreateCharge(c) PROVE PInv'
  <2>1. \A d \in Charges : Received(d) => Received(d)'
    BY <1>1, <1>t, <1>k
       DEF CreateCharge, CreateAtAsaas, CreateLocally, AbsentUnknown, Received,
           TypeInv, TypeOK
  <2>2. AbsentUnknown'
    BY <1>1, <1>t, <1>k
       DEF CreateCharge, CreateAtAsaas, CreateLocally, AbsentUnknown, TypeInv, TypeOK
  <2>3. CreditsArePaid'
    BY <1>1, <1>k, <2>1
       DEF CreateCharge, CreateAtAsaas, CreateLocally, CreditsArePaid, Received
  <2>4. \A s \in Sessions : PaidFor(s)'
    BY <1>1, <1>t, <1>k, <2>1, TaskTypes
       DEF CreateCharge, CreateAtAsaas, CreateLocally, PaidFor, session, TypeInv
  <2>5. QED
    BY <1>t, <2>2, <2>3, <2>4 DEF PInv, SessionsPaid, PaidFor
<1>2. ASSUME NEW c \in Charges, PspMoves(c) PROVE PInv'
  <2>1. \A d \in Charges : /\ Received(d) => Received(d)'
                           /\ psp[d] = "NONE" => psp'[d] = "NONE"
    BY <1>2, <1>t DEF PspMoves, Received, TypeInv, TypeOK
  <2>2. \A s \in Sessions : PaidFor(s)'
    BY <1>2, <1>t, <1>k, <2>1, TaskTypes DEF PspMoves, PaidFor, session, TypeInv
  <2>3. AbsentUnknown' /\ CreditsArePaid'
    BY <1>2, <1>k, <2>1
       DEF PspMoves, AbsentUnknown, CreditsArePaid, Received, store
  <2>4. QED
    BY <1>t, <2>2, <2>3 DEF PInv, SessionsPaid, PaidFor
<1>3. CASE TransferDoneDebit
  BY <1>3, <1>t
     DEF TransferDoneDebit, session, PInv, AbsentUnknown, SessionsPaid, CreditsArePaid,
         Received
<1>4. ASSUME NEW s \in Sessions, NEW t \in Tasks, Begin(s, t) PROVE PInv'
  <2>1. PaidFor(s)'
    BY <1>4, <1>t DEF Begin, Elsewhere, PaidFor, Received, TypeInv, TypeOK
  <2>2. QED
    BY <1>4, <1>t, <1>session, <2>1 DEF Begin, Elsewhere, TypeInv, TypeOK
<1>closed. ASSUME NEW s \in Sessions, CloseSession(s)
           PROVE  /\ PaidFor(s)'
                  /\ \A q \in Sessions \ {s} : /\ step'[q] = step[q] /\ task'[q] = task[q]
                                               /\ row'[q] = row[q]
  BY <1>closed, <1>t DEF CloseSession, PaidFor, TypeInv, TypeOK
<1>5. ASSUME NEW s \in Sessions, ReadRow(s) PROVE PInv'
  <2>1. CASE CloseSession(s)
    BY <1>5, <2>1, <1>closed, <1>session DEF ReadRow, Elsewhere
  <2>2. CASE ~CloseSession(s)
    <3>1. /\ status[task[s].charge] # "ABSENT"
          /\ step' = [step EXCEPT ![s] = "read"]
          /\ row' = [row EXCEPT ![s] = status[task[s].charge]]
          /\ UNCHANGED <<task, store, psp>>
      BY <1>5, <2>2 DEF ReadRow, GoesOn, Elsewhere
    <3>2. PaidFor(s)'
      BY <1>5, <1>t, <1>k, <3>1 DEF ReadRow, PaidFor, Received, TypeInv, TypeOK
    <3>3. QED
      BY <1>t, <1>session, <3>1, <3>2 DEF TypeInv, TypeOK
  <2>3. QED
    BY <2>1, <2>2
<1>6. ASSUME NEW s \in Sessions, AskPsp(s) PROVE PInv'
  <2> DEFINE answer == psp[task[s].charge]
  <2>1. CASE CloseSession(s)
    BY <1>6, <2>1, <1>closed, <1>session DEF AskPsp, Elsewhere
  <2>2. CASE ~CloseSession(s)
    <3>1. /\ answer # "NONE" /\ Paid(task[s].kind, answer)
          /\ step' = [step EXCEPT ![s] = "ready"]
          /\ row' = [row EXCEPT ![s] = StatusOf(answer)]
          /\ UNCHANGED <<task, store, psp>>
      BY <1>6, <2>2 DEF AskPsp, Elsewhere
    <3>2. StatusOf(answer) # "ABSENT"
      BY <1>6, <1>t, <3>1, TaskTypes DEF AskPsp, StatusOf, TypeInv, TypeOK, PspStates
    <3>3. PaidFor(s)'
      BY <1>6, <1>t, <1>k, <3>1, <3>2 DEF AskPsp, PaidFor, Paid, Received, TypeInv, TypeOK
    <3>4. QED
      BY <1>t, <1>session, <3>1, <3>3 DEF TypeInv, TypeOK
  <2>3. QED
    BY <2>1, <2>2
<1>7. ASSUME NEW s \in Sessions, LoadReceiver(s) PROVE PInv'
  <2>1. PaidFor(s)'
    BY <1>7, <1>t, <1>k
       DEF LoadReceiver, Elsewhere, PaidFor, Received, TypeInv, TypeOK
  <2>2. QED
    BY <1>7, <1>t, <1>session, <2>1 DEF LoadReceiver, Elsewhere, TypeInv, TypeOK
<1>8. ASSUME NEW s \in Sessions, Commit(s) PROVE PInv'
  <2> DEFINE c == task[s].charge
  <2>1. task[s] \in Tasks /\ c \in Charges
    BY <1>8, <1>t, TaskTypes DEF Commit, TypeInv
  <2>2. row[s] # "ABSENT" /\ PaidFor(s)
    BY <1>8, <1>k DEF Commit, PaidFor
  <2>3. /\ status' = [status EXCEPT ![c] = row[s]]
        /\ psp' = psp /\ CloseSession(s)
    BY <1>8 DEF Commit, Elsewhere
  <2>4. AbsentUnknown'
    BY <1>t, <1>k, <2>1, <2>2, <2>3 DEF AbsentUnknown, TypeInv, TypeOK
  <2>5. ASSUME NEW d \in Charges, credits'[d] > 0
        PROVE  psp'[d] \in {"RECEIVED", "REFUNDED"} \/ inside'[d] > 0
    <3>0. inside[d] \in Nat /\ inside'[d] \in Nat /\ inside'[d] >= inside[d]
      BY <1>8, <1>t, <2>1 DEF Commit, TypeInv, TypeOK
    <3>1. CASE credits'[d] = credits[d]
      BY <1>k, <2>3, <2>5, <3>0, <3>1 DEF CreditsArePaid
    <3>2. CASE credits'[d] # credits[d]
      <4>1. d = c /\ Crediting(task[s].kind)
        BY <1>8, <1>t, <2>1, <3>2 DEF Commit, TypeInv, TypeOK
      <4>2. CASE task[s].kind = "pay"
        <5>1. inside' = [inside EXCEPT ![c] = @ + 1]
          BY <1>8, <2>1, <4>2 DEF Commit, PaidTasksOnly
        <5>2. inside[d] \in Nat /\ inside'[d] = inside[d] + 1
          BY <1>t, <2>1, <4>1, <5>1 DEF TypeInv, TypeOK
        <5>3. QED
          BY <5>2
      <4>3. CASE task[s].kind # "pay"
        <5>1. Received(c)
          BY <1>8, <2>1, <2>2, <4>1, <4>3
             DEF Commit, PaidFor, Crediting, PaidTasksOnly
        <5>2. QED
          BY <2>3, <4>1, <5>1 DEF Received
      <4>4. QED
        BY <4>2, <4>3
    <3>3. QED
      BY <3>1, <3>2
  <2>6. \A q \in Sessions : PaidFor(q)'
    BY <1>k, <1>closed, <2>3 DEF PaidFor, Received
  <2>7. QED
    BY <1>t, <2>4, <2>5, <2>6 DEF PInv, SessionsPaid, PaidFor, CreditsArePaid
<1>9. ASSUME NEW s \in Sessions, Fail(s) PROVE PInv'
  BY <1>9, <1>closed, <1>session DEF Fail
<1>10. CASE UNCHANGED vars
  BY <1>10, <1>t
     DEF vars, store, session, PInv, AbsentUnknown, SessionsPaid, CreditsArePaid, Received
<1>11. QED
  BY <1>1, <1>2, <1>3, <1>4, <1>5, <1>6, <1>7, <1>8, <1>9, <1>10 DEF Next, Advance

\* Unless somebody's word is taken, a receiver is credited for a charge only if
\* it was paid, whichever handlers see the charge, in whichever order.
THEOREM CreditsAlwaysPaid ==
  ASSUME PaidTasksOnly
  PROVE  Spec => []CreditsArePaid
<1>1. PInv /\ [Next]_vars => PInv'
  BY PInvStep
<1>2. PInv => CreditsArePaid
  BY DEF PInv
<1>3. QED
  BY <1>1, <1>2, PInvInit, PTL DEF Spec
=============================================================================
