--------------------------- MODULE GatewayDispatch ---------------------------
(***************************************************************************)
(* What pay_pix_qrcode may rely on when it asks the gateway to pay a QR    *)
(* code: whatever detours a call takes, the PSP moves money at most once   *)
(* for an idempotency key; a call that answers has paid, and the value it  *)
(* tells is the value moved or nothing.  A call that raises, or that the   *)
(* process does not survive, may have paid or not.                         *)
(***************************************************************************)
EXTENDS Naturals

CONSTANTS
  Calls,    \* calls of pay_qr_code
  Keys,     \* idempotency keys
  KeyOf     \* the key a call carries

VARIABLES
  payment,  \* payment[k]: the amount the PSP moved for key k, 0 if none
  outcome,  \* outcome[c]: how call c ended, or "running"
  told      \* told[c]: the value call c answered with, 0 if none

vars == <<payment, outcome, told>>

Init ==
  /\ payment = [k \in Keys |-> 0]
  /\ outcome = [c \in Calls |-> "running"]
  /\ told = [c \in Calls |-> 0]

Pay(k) ==
  /\ payment[k] = 0
  /\ payment'[k] \in Nat \ {0}
  /\ payment' = [payment EXCEPT ![k] = payment'[k]]
  /\ UNCHANGED <<outcome, told>>

Answer(c) ==
  /\ outcome[c] = "running"
  /\ payment[KeyOf[c]] # 0
  /\ outcome' = [outcome EXCEPT ![c] = "answered"]
  /\ \E value \in {0, payment[KeyOf[c]]} : told' = [told EXCEPT ![c] = value]
  /\ UNCHANGED payment

Raise(c) ==
  /\ outcome[c] = "running"
  /\ outcome' = [outcome EXCEPT ![c] = "raised"]
  /\ UNCHANGED <<payment, told>>

\* Calls whose row is rolled back leave nothing behind.
Forget(gone) ==
  /\ \A c \in gone : outcome[c] = "running"
  /\ outcome' = [c \in Calls |-> IF c \in gone THEN "gone" ELSE outcome[c]]
  /\ UNCHANGED <<payment, told>>

Next ==
  \/ \E k \in Keys : Pay(k)
  \/ \E c \in Calls : Answer(c) \/ Raise(c)
  \/ \E gone \in SUBSET Calls : Forget(gone)

Spec == Init /\ [][Next]_vars
==============================================================================
