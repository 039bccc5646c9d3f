-------------------------- MODULE MCInboundDeposits --------------------------
(* Instances of InboundDeposits for TLC. *)
EXTENDS InboundDeposits, TLC

CONSTANTS ana, bia, d1, d2, d3, s1, s2

\* Three deposits of ana by the static QR code.  The document of the second and
\* the third is masked, and matches bia's too; the webhook of the third finds
\* nobody.
MCSenders == d1 :> {ana} @@ d2 :> {ana, bia} @@ d3 :> {ana, bia}
MCResolved == d1 :> ana @@ d2 :> ana @@ d3 :> NoUser
=============================================================================
