-------------------------- MODULE MCInternalTransfers --------------------------
(***************************************************************************)
(* A PIX from Alice to Bob and its repetition; a charge of Matrix that she *)
(* pays, and one of her own; an administrator's transfer to her, made with *)
(* her own login; the webhook of a PIX she sent earlier; a deposit of hers; *)
(* a PIX from Bob whose key is the one of a received row.                  *)
(***************************************************************************)
EXTENDS InternalTransfers, TLC

CONSTANTS alice, bob, matrix,
          pix, again, charge, own, admin, done, deposit, back,
          k1, k2, k3, k4, k5, k6, k7

MCOpening == alice :> 2 @@ bob :> 1 @@ matrix :> 2
MCRoute ==
  pix :> "key" @@ again :> "key" @@ charge :> "charge" @@ own :> "charge"
  @@ admin :> "matrix" @@ done :> "webhook" @@ deposit :> "deposit" @@ back :> "key"
MCCaller == [r \in Requests |-> IF r = back THEN bob ELSE alice]
MCPayer == [r \in Requests |-> IF r = back THEN bob ELSE IF r = admin THEN matrix ELSE alice]
MCPayee == [r \in Requests |-> IF r \in {pix, again} THEN bob ELSE IF r = charge THEN matrix ELSE alice]
MCValue == [r \in Requests |-> IF r \in {done, back} THEN 1 ELSE 2]
MCKeyOf ==
  [r \in Requests |->
     CASE r \in {pix, again} -> k1
       [] r = back -> k2
       [] r = charge -> k3
       [] r = admin -> k5
       [] OTHER -> k7]
MCOtherOf ==
  [r \in Requests |->
     CASE r \in {pix, again} -> k2
       [] r = back -> k4
       [] r = charge -> k4
       [] r = admin -> k6
       [] OTHER -> k7]
=============================================================================
