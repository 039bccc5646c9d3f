-------------------------- MODULE PixOutboundClaims --------------------------
(* What comments of the code say of outbound PIX, and the code does not do. *)
EXTENDS MCPixOutbound

\* "Debit happens at webhook TRANSFER_DONE confirmation" (router.py:1976).  The
\* webhook can come before the row of the QR payment is committed, or after the
\* endpoint has confirmed it: it is answered with 200, not sent again, and the
\* payer keeps the money.
DoneMeansDebited ==
  \A r \in Requests : ledger[r] = "PENDING" => transfer[r] \notin doneAcked
=============================================================================
