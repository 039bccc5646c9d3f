------------------------- MODULE OutboundSettlement -------------------------
(***************************************************************************)
(* What the deferred-debit model of outbound PIX promises, without any of  *)
(* the machinery that keeps it: a payment is reserved once, and the        *)
(* reservation ends at most once, either settled together with the one     *)
(* debit of the payer or reversed with none, and only after the payment    *)
(* service provider has given the matching verdict on the transfer.        *)
(* PixOutbound.tla implements this specification.                          *)
(***************************************************************************)
EXTENDS Naturals

CONSTANTS
  Payments,   \* the payments customers ask for
  Transfers,  \* the transfers the provider may carry out
  TransferOf  \* the transfer each payment is executed by

VARIABLES
  verdict,      \* verdict[t]: the verdicts the provider has given on t
  reservation,  \* reservation[p]: how far the payment has come
  debits        \* debits[p]: how many times the payer was debited for p

avars == <<verdict, reservation, debits>>

Init ==
  /\ verdict = [t \in Transfers |-> {}]
  /\ reservation = [p \in Payments |-> "none"]
  /\ debits = [p \in Payments |-> 0]

\* The provider completes or fails a transfer; a completed one may still be
\* refunded, which it reports as a failure.
Rule(t, v) ==
  /\ v \notin verdict[t]
  /\ v = "done" => verdict[t] = {}
  /\ verdict' = [verdict EXCEPT ![t] = @ \cup {v}]
  /\ UNCHANGED <<reservation, debits>>

Reserve(p) ==
  /\ reservation[p] = "none"
  /\ reservation' = [reservation EXCEPT ![p] = "pending"]
  /\ UNCHANGED <<verdict, debits>>

Settle(p) ==
  /\ reservation[p] = "pending"
  /\ "done" \in verdict[TransferOf[p]]
  /\ reservation' = [reservation EXCEPT ![p] = "settled"]
  /\ debits' = [debits EXCEPT ![p] = @ + 1]
  /\ UNCHANGED verdict

Reverse(p) ==
  /\ reservation[p] = "pending"
  /\ "failed" \in verdict[TransferOf[p]]
  /\ reservation' = [reservation EXCEPT ![p] = "reversed"]
  /\ UNCHANGED <<verdict, debits>>

Next ==
  \/ \E t \in Transfers, v \in {"done", "failed"} : Rule(t, v)
  \/ \E p \in Payments : Reserve(p) \/ Settle(p) \/ Reverse(p)

Spec == Init /\ [][Next]_avars
=============================================================================
