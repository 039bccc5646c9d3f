---------------------------- MODULE MCPixOutbound ----------------------------
(* Instances of PixOutbound for TLC. *)
EXTENDS PixOutbound, TLC

CONSTANTS r1, r2, r3, r4, r5, k1, k2, k3, k4, p1, p2

\* A QR request, a transfer to a PIX key, and one that can be scheduled.
MCKeyOf == r1 :> k1 @@ r2 :> k2 @@ r3 :> k3
MCPayloadOf == r1 :> p1 @@ r2 :> NoPayload @@ r3 :> NoPayload

\* Three QR requests, the second with the key of the first and the third with
\* its payload; one that is scheduled; and one without an amount, which turns
\* out to be more than the third leaves.
MCRepeatedKey == r1 :> k1 @@ r2 :> k1 @@ r3 :> k2 @@ r4 :> k3 @@ r5 :> k4
MCRepeatedPayload == r1 :> p1 @@ r2 :> p2 @@ r3 :> p1 @@ r4 :> NoPayload @@ r5 :> p2
MCDear == r1 :> 3 @@ r2 :> 3 @@ r3 :> 2 @@ r4 :> 1 @@ r5 :> 5

\* Only those of one company are made; the others are answered from the start.
Companies == {{r1, r2, r3}, {r4}, {r3, r5}}

Fresh == INSTANCE PixOutbound WITH pc <- [r \in Requests |-> "start"]

CompanyInit ==
  /\ Fresh!Init
  /\ \E made \in Companies :
       pc = [r \in Requests |-> IF r \in made THEN "start" ELSE "answered"]

CompanySpec ==
  CompanyInit /\ [][Next]_vars /\ \A r \in Requests : WF_vars(Handle(r))

MCTotal == r1 :> 3 @@ r2 :> 3 @@ r3 :> 2
=============================================================================
