----------------------------- MODULE MCPixCharges -----------------------------
(* Instances of PixCharges for TLC. *)
EXTENDS PixCharges

CONSTANTS c1, c2, w1, w2

Ask(kinds, owns) == [kind : kinds, charge : Charges, own : owns]
Webhooks == Ask({"webhook"}, {FALSE})

\* What credits against money, the payer of a QR code being another customer;
\* the status of the first charge can be moved alone as well.
PaidTasks ==
  Webhooks \cup Ask({"verify"}, {TRUE}) \cup Ask({"pay"}, {FALSE})
    \cup [kind : {"sync", "confirm"}, charge : {c1}, own : {FALSE}]

\* What the receiver can do about its own charges.
OwnerTasks == Ask({"verify", "receive", "pay"}, {TRUE})
=============================================================================
