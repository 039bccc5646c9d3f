---------------------------- MODULE MCQrDispatch -----------------------------
(***************************************************************************)
(* One code, of any kind the adapter tells apart, paid by two calls under  *)
(* its key: the second follows a crash, or a row that was rolled back.     *)
(***************************************************************************)
EXTENDS QrDispatch, TLC

CONSTANTS c1, c2, k1

\* A payload with a key, a URL, both or neither, with or without an amount; a
\* charge with or without a code, a key and an amount.
MCQrCodes ==
  LET charge(url) == IF url THEN [emv : BOOLEAN, key : BOOLEAN, amount : {0, 1}]
                     ELSE {[emv |-> FALSE, key |-> FALSE, amount |-> 0]}
  IN  UNION {{[key |-> hasKey, amount |-> a, url |-> hasUrl, charge |-> ch] :
                hasKey \in BOOLEAN, a \in {0, 1}, ch \in charge(hasUrl)} : hasUrl \in BOOLEAN}

MCKeyOf == c1 :> k1 @@ c2 :> k1

\* An amount that is not the code's, and none.
MCGiven == c1 :> 2 @@ c2 :> 0
==============================================================================
