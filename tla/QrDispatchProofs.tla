-------------------------- MODULE QrDispatchProofs ---------------------------
(***************************************************************************)
(* The types and the bound on the attempts hold for any calls, codes and   *)
(* bounds, and pay_qr_code keeps the promise stated by GatewayDispatch.    *)
(***************************************************************************)
EXTENDS QrDispatch, TLAPS

(***************************************************************************)
(* The inductive invariant.  The detours tell the value of the charge, not *)
(* the value of the payment they are answered with, which may be one an    *)
(* earlier route or an earlier call made: the two agree because a code     *)
(* that states an amount is never paid with another.                       *)
(***************************************************************************)
PaidAsStated ==
  \A c \in Calls :
    paid[KeyOf[c]] # 0 /\ ChargeAmount(CodeOf(c)) > 0
      => paid[KeyOf[c]] = ChargeAmount(CodeOf(c))

TransferIsPriced ==
  \A c \in Calls : pc[c] = "transfer" => ChargeAmount(CodeOf(c)) > 0

RepliesAreTrue == \A c \in Calls : reply[c] = "paid" => paid[KeyOf[c]] # 0

IInv == TypeOK /\ PaidAsStated /\ TransferIsPriced /\ RepliesAreTrue

-----------------------------------------------------------------------------
(* Amounts.                                                                *)

LEMMA TransferIsCharge ==
  ASSUME NEW q \in QrCodes
  PROVE  /\ ChargeAmount(q) \in Nat
         /\ TransferAmount(q) = ChargeAmount(q)
<1>1. q \in Codes /\ q.charge \in Charges
  BY CallAssumption DEF Codes
<1>2. q.amount \in Nat /\ q.charge.amount \in Nat /\ q.url \in BOOLEAN
  BY <1>1 DEF Codes, Charges
<1>3. /\ ~q.url => q.charge.amount = 0
      /\ q.url /\ q.amount > 0 /\ q.charge.amount > 0 => q.amount = q.charge.amount
  BY CallAssumption
<1>4. QED
  BY <1>2, <1>3 DEF ChargeAmount, TransferAmount, PayableByKey

LEMMA AmountIsCharge ==
  ASSUME TypeOK, NEW c \in Calls, NEW route \in Routes
  PROVE  /\ Amount(c, route) \in Nat
         /\ ChargeAmount(CodeOf(c)) > 0 => Amount(c, route) = ChargeAmount(CodeOf(c))
<1> DEFINE q == CodeOf(c)
<1>1. q \in QrCodes /\ Given[c] \in Nat
  BY CallAssumption DEF TypeOK, CodeOf
<1>2. q \in Codes /\ q.charge \in Charges
  BY <1>1, CallAssumption DEF Codes
<1>3. q.amount \in Nat /\ q.charge.amount \in Nat /\ q.url \in BOOLEAN
  BY <1>2 DEF Codes, Charges
<1>4. ~q.url => q.charge.amount = 0
  BY <1>1, CallAssumption
<1>5. ChargeAmount(q) \in Nat /\ TransferAmount(q) = ChargeAmount(q)
  BY <1>1, TransferIsCharge
<1> HIDE DEF q
<1>6. Amount(c, route) \in Nat /\ (ChargeAmount(q) > 0 => Amount(c, route) = ChargeAmount(q))
  <2>1. CASE route = "transfer"
    BY <1>5, <2>1 DEF Amount, q
  <2>2. CASE route # "transfer"
    BY <1>1, <1>3, <1>4, <2>2 DEF Amount, ChargeAmount, q
  <2>3. QED
    BY <2>1, <2>2
<1>7. QED
  BY <1>6 DEF q

\* Serving a request changes no payment; it may make the first one of its key.
LEMMA ServePays ==
  ASSUME IInv, NEW c \in Calls, NEW route \in Routes, Serve(c, route), code' = code
  PROVE  /\ paid' \in [Keys -> Nat] /\ active' \subseteq Keys
         /\ paid'[KeyOf[c]] # 0
         /\ \A k \in Keys : paid[k] # 0 => paid'[k] = paid[k]
         /\ PaidAsStated'
         /\ paid' # paid => /\ paid[KeyOf[c]] = 0
                            /\ paid'[KeyOf[c]] \in Nat \ {0}
                            /\ paid' = [paid EXCEPT ![KeyOf[c]] = paid'[KeyOf[c]]]
<1>1. KeyOf[c] \in Keys /\ paid \in [Keys -> Nat] /\ active \subseteq Keys
  BY CallAssumption DEF IInv, TypeOK
<1>2. Recognised(c, route) <=> paid[KeyOf[c]] # 0
  BY DEF Recognised, IdempotencyKey
<1>3. CASE Recognised(c, route)
  <2>1. UNCHANGED <<paid, active>>
    BY <1>3 DEF Serve
  <2>2. PaidAsStated'
    BY <2>1 DEF IInv, PaidAsStated, CodeOf
  <2>3. QED
    BY <1>1, <1>2, <1>3, <2>1, <2>2
<1>4. CASE ~Recognised(c, route)
  <2>1. /\ Amount(c, route) \in Nat
        /\ ChargeAmount(CodeOf(c)) > 0 => Amount(c, route) = ChargeAmount(CodeOf(c))
    BY AmountIsCharge DEF IInv
  <2>2. /\ Amount(c, route) > 0
        /\ paid' = [paid EXCEPT ![KeyOf[c]] = paid[KeyOf[c]] + Amount(c, route)]
        /\ active' \subseteq Keys
    BY <1>1, <1>4 DEF Serve
  <2>3. /\ paid[KeyOf[c]] = 0
        /\ paid' = [paid EXCEPT ![KeyOf[c]] = Amount(c, route)]
    <3>1. paid[KeyOf[c]] = 0
      BY <1>2, <1>4
    <3>2. paid[KeyOf[c]] + Amount(c, route) = Amount(c, route)
      BY <2>1, <3>1
    <3>3. QED
      BY <2>2, <3>1, <3>2
  <2>4. PaidAsStated'
    <3> SUFFICES ASSUME NEW d \in Calls,
                        paid'[KeyOf[d]] # 0, ChargeAmount(CodeOf(d)) > 0
                 PROVE  paid'[KeyOf[d]] = ChargeAmount(CodeOf(d))
      BY DEF PaidAsStated, CodeOf, ChargeAmount
    <3>1. KeyOf[d] \in Keys
      BY CallAssumption
    <3>2. CASE KeyOf[d] = KeyOf[c]
      BY <1>1, <2>1, <2>3, <3>2 DEF CodeOf
    <3>3. CASE KeyOf[d] # KeyOf[c]
      BY <1>1, <2>3, <3>1, <3>3 DEF IInv, PaidAsStated
    <3>4. QED
      BY <3>2, <3>3
  <2>5. /\ paid' \in [Keys -> Nat]
        /\ paid'[KeyOf[c]] = Amount(c, route)
        /\ \A k \in Keys : paid[k] # 0 => paid'[k] = paid[k]
    BY <1>1, <2>1, <2>3
  <2>6. paid'[KeyOf[c]] # 0 /\ paid'[KeyOf[c]] \in Nat \ {0}
    BY <2>1, <2>2, <2>5
  <2>7. paid' = [paid EXCEPT ![KeyOf[c]] = paid'[KeyOf[c]]]
    BY <2>3, <2>5, Zenon
  <2>8. QED
    BY <2>2, <2>3, <2>4, <2>5, <2>6, <2>7
<1>5. QED
  BY <1>3, <1>4

-----------------------------------------------------------------------------
(* Inductive invariance.                                                   *)

LEMMA InitIInv == Init => IInv
BY CallAssumption DEF Init, IInv, TypeOK, PaidAsStated, TransferIsPriced, RepliesAreTrue,
                      Routes, Ended

\* What the steps of a handler have in common: a request is asked, or the call
\* ends.
LEMMA HandlerIInv ==
  ASSUME IInv, NEW c \in Calls,
         \/ \E route \in Routes \cup {"fetch"} :
              Ask(c, route) /\ (route = "transfer" => ChargeAmount(CodeOf(c)) > 0)
         \/ \E how \in Ended : End(c, how),
         told' \in [Calls -> Nat], late' \subseteq Calls \X Routes,
         UNCHANGED <<code, paid, active, crashes>>
  PROVE  IInv'
<1>1. TypeOK'
  BY CallAssumption DEF IInv, TypeOK, Ask, End, Routes, Ended
<1>2. PaidAsStated'
  BY DEF IInv, PaidAsStated, CodeOf
<1>3. TransferIsPriced'
  BY DEF IInv, TypeOK, TransferIsPriced, CodeOf, Ask, End, Ended
<1>4. RepliesAreTrue'
  BY DEF IInv, TypeOK, RepliesAreTrue, Ask, End
<1>5. QED
  BY <1>1, <1>2, <1>3, <1>4 DEF IInv

LEMMA FailedCases ==
  ASSUME NEW c \in Calls, Failed(c)
  PROVE  \/ Ask(c, "transfer") /\ ChargeAmount(CodeOf(c)) > 0
         \/ End(c, "raised")
BY DEF Failed, TransferOrRaise

LEMMA StepIInv == IInv /\ [Next]_vars => IInv'
<1> SUFFICES ASSUME IInv, [Next]_vars PROVE IInv'
  OBVIOUS
<1>1. ASSUME NEW c \in Calls, Begin(c) PROVE IInv'
  BY <1>1, HandlerIInv DEF Begin, Routes, IInv, TypeOK
<1>2. ASSUME NEW c \in Calls, Timeout(c) PROVE IInv'
  <2>1. late' \subseteq Calls \X Routes /\ told' \in [Calls -> Nat]
    BY <1>2 DEF Timeout, IInv, TypeOK
  <2>2. CASE LastAttempt(c) /\ Failed(c)
    BY <1>2, <2>1, <2>2, FailedCases, HandlerIInv DEF Timeout, Routes, Ended
  <2>3. CASE /\ ~LastAttempt(c)
             /\ attempts' = [attempts EXCEPT ![c] = @ + 1]
             /\ reply' = [reply EXCEPT ![c] = "none"]
             /\ UNCHANGED pc
    <3>1. attempts[c] \in 1 .. MaxAttempts /\ attempts[c] # MaxAttempts
      BY <2>3 DEF LastAttempt, IInv, TypeOK
    <3>2. attempts[c] + 1 \in 1 .. MaxAttempts
      BY <3>1, CallAssumption
    <3>3. TypeOK'
      BY <1>2, <2>1, <2>3, <3>2 DEF Timeout, IInv, TypeOK
    <3>4. (PaidAsStated /\ TransferIsPriced)'
      BY <1>2, <2>3 DEF Timeout, IInv, PaidAsStated, TransferIsPriced, CodeOf
    <3>5. RepliesAreTrue'
      BY <1>2, <2>3 DEF Timeout, IInv, TypeOK, RepliesAreTrue
    <3>6. QED
      BY <3>3, <3>4, <3>5 DEF IInv
  <2>4. QED
    BY <1>2, <2>2, <2>3 DEF Timeout
<1>3. ASSUME NEW c \in Calls, NotRepeated(c) PROVE IInv'
  BY <1>3, FailedCases, HandlerIInv DEF NotRepeated, Routes, Ended, IInv, TypeOK
<1>4. ASSUME NEW c \in Calls, FallBack(c) PROVE IInv'
  <2>1. CodeOf(c) \in QrCodes
    BY CallAssumption DEF IInv, TypeOK, CodeOf
  <2>2. PayableByKey(CodeOf(c)) => ChargeAmount(CodeOf(c)) > 0
    <3>1. CodeOf(c).amount > 0 /\ PayableByKey(CodeOf(c))
            => TransferAmount(CodeOf(c)) > 0
      BY DEF TransferAmount
    <3>2. QED
      BY <2>1, <3>1, TransferIsCharge DEF PayableByKey
  <2>3. QED
    BY <1>4, <2>2, HandlerIInv DEF FallBack, Routes, Ended, IInv, TypeOK
<1>5. ASSUME NEW c \in Calls, FetchCharge(c) PROVE IInv'
  BY <1>5, HandlerIInv DEF FetchCharge, TransferOrRaise, Routes, Ended, IInv, TypeOK
<1>6. ASSUME NEW c \in Calls, Answer(c) PROVE IInv'
  <2>1. PICK value \in Value(c) :
          IF value = 0 /\ CodeOf(c).amount = 0
          THEN End(c, "gone") /\ UNCHANGED told
          ELSE End(c, "answered") /\ told' = [told EXCEPT ![c] = value]
    BY <1>6 DEF Answer
  <2>2. /\ CodeOf(c) \in QrCodes /\ KeyOf[c] \in Keys
        /\ pc[c] \in Routes /\ UNCHANGED <<code, paid, active, late, crashes>>
    BY <1>6, CallAssumption DEF Answer, IInv, TypeOK, CodeOf
  <2>3. value \in Nat
    BY <2>1, <2>2, TransferIsCharge DEF Value, Routes, IInv, TypeOK
  <2>4. told' \in [Calls -> Nat]
    BY <2>1, <2>3 DEF IInv, TypeOK
  <2>5. \E how \in Ended : End(c, how)
    BY <2>1 DEF Ended
  <2>6. QED
    BY <2>2, <2>4, <2>5, HandlerIInv DEF IInv, TypeOK
<1>7. ASSUME NEW c \in Calls, PspServes(c) PROVE IInv'
  <2>1. pc[c] \in Routes /\ Serve(c, pc[c]) /\ code' = code
    BY <1>7 DEF PspServes
  <2>2. /\ paid' \in [Keys -> Nat] /\ active' \subseteq Keys
        /\ paid'[KeyOf[c]] # 0
        /\ \A k \in Keys : paid[k] # 0 => paid'[k] = paid[k]
        /\ PaidAsStated'
    BY <2>1, ServePays
  <2>3. TypeOK'
    BY <1>7, <2>2 DEF PspServes, IInv, TypeOK
  <2>4. TransferIsPriced'
    BY <1>7 DEF PspServes, IInv, TransferIsPriced, CodeOf
  <2>5. RepliesAreTrue'
    BY <1>7, <2>2, CallAssumption DEF PspServes, IInv, TypeOK, RepliesAreTrue
  <2>6. QED
    BY <2>2, <2>3, <2>4, <2>5 DEF IInv
<1>8. ASSUME NEW c \in Calls, PspRefuses(c) PROVE IInv'
  BY <1>8 DEF PspRefuses, IInv, TypeOK, PaidAsStated, TransferIsPriced, RepliesAreTrue, CodeOf
<1>9. ASSUME NEW c \in Calls, NEW route \in Routes, PspServesLate(c, route) PROVE IInv'
  <2>1. /\ paid' \in [Keys -> Nat] /\ active' \subseteq Keys
        /\ \A k \in Keys : paid[k] # 0 => paid'[k] = paid[k]
        /\ PaidAsStated'
    BY <1>9, ServePays DEF PspServesLate
  <2>2. TypeOK'
    BY <1>9, <2>1 DEF PspServesLate, IInv, TypeOK
  <2>3. TransferIsPriced'
    BY <1>9 DEF PspServesLate, IInv, TransferIsPriced, CodeOf
  <2>4. RepliesAreTrue'
    BY <1>9, <2>1, CallAssumption DEF PspServesLate, IInv, RepliesAreTrue
  <2>5. QED
    BY <2>1, <2>2, <2>3, <2>4 DEF IInv
<1>10. ASSUME NEW k \in Keys, ChargeEnds(k) PROVE IInv'
  BY <1>10 DEF ChargeEnds, IInv, TypeOK, PaidAsStated, TransferIsPriced, RepliesAreTrue, CodeOf
<1>11. CASE Crash
  <2>1. late' \subseteq Calls \X Routes /\ crashes' \in 0 .. MaxCrashes
    BY <1>11, CallAssumption DEF Crash, IInv, TypeOK
  <2>2. TypeOK'
    BY <1>11, <2>1 DEF Crash, IInv, TypeOK, Ended
  <2>3. QED
    BY <1>11, <2>2 DEF Crash, IInv, TypeOK, PaidAsStated, TransferIsPriced, RepliesAreTrue, CodeOf
<1>12. CASE UNCHANGED vars
  BY <1>12 DEF vars, IInv, TypeOK, PaidAsStated, TransferIsPriced, RepliesAreTrue, CodeOf
<1>13. QED
  BY <1>1, <1>2, <1>3, <1>4, <1>5, <1>6, <1>7, <1>8, <1>9, <1>10, <1>11, <1>12
  DEF Next, Handle

LEMMA IInvAlways == Spec => []IInv
BY InitIInv, StepIInv, PTL DEF Spec

-----------------------------------------------------------------------------
(* pay_qr_code implements GatewayDispatch.                                 *)

LEMMA GatewayInit == Init => Gateway!Init
BY DEF Init, Gateway!Init, Ended

\* The outcomes of the calls, as GatewayDispatch sees them.
Outcome == [c \in Calls |-> IF pc[c] \in Ended THEN pc[c] ELSE "running"]

LEMMA GatewayVars ==
  ASSUME UNCHANGED <<Outcome, paid, told>>
  PROVE  UNCHANGED Gateway!vars
BY DEF Gateway!vars, Outcome

LEMMA AskIsStutter ==
  ASSUME IInv, NEW c \in InFlight \cup {d \in Calls : pc[d] = "idle"},
         NEW route \in Routes \cup {"fetch"}, Ask(c, route), UNCHANGED <<paid, told>>
  PROVE  UNCHANGED Gateway!vars
<1>1. Outcome' = Outcome
  BY DEF Outcome, Ask, IInv, TypeOK, InFlight, Ended, Routes
<1>2. QED
  BY <1>1, GatewayVars

LEMMA RaiseIsRaise ==
  ASSUME IInv, NEW c \in InFlight, End(c, "raised"), UNCHANGED <<paid, told>>
  PROVE  Gateway!Raise(c)
<1>1. Outcome[c] = "running"
  BY DEF Outcome, InFlight, Ended, Routes
<1>2. Outcome' = [Outcome EXCEPT ![c] = "raised"]
  BY DEF Outcome, End, IInv, TypeOK, InFlight, Ended
<1>3. QED
  BY <1>1, <1>2 DEF Gateway!Raise, Outcome

LEMMA PayIsPay ==
  ASSUME IInv, NEW c \in Calls, NEW route \in Routes, Serve(c, route),
         UNCHANGED <<code, pc, told>>
  PROVE  Gateway!Pay(KeyOf[c]) \/ UNCHANGED Gateway!vars
<1>1. Outcome' = Outcome
  BY DEF Outcome
<1>2. CASE paid' = paid
  BY <1>1, <1>2, GatewayVars
<1>3. CASE paid' # paid
  BY <1>1, <1>3, ServePays DEF Gateway!Pay, Outcome
<1>4. QED
  BY <1>2, <1>3

\* What a call may tell is the value that was moved, or nothing.
LEMMA ValueIsPaid ==
  ASSUME IInv, NEW c \in Calls, pc[c] \in Routes, reply[c] = "paid", NEW value \in Value(c)
  PROVE  paid[KeyOf[c]] # 0 /\ value \in {0, paid[KeyOf[c]]}
<1>1. paid[KeyOf[c]] # 0
  BY DEF IInv, RepliesAreTrue
<1>2. CodeOf(c) \in QrCodes
  BY CallAssumption DEF IInv, TypeOK, CodeOf
<1>3. ChargeAmount(CodeOf(c)) \in Nat /\ TransferAmount(CodeOf(c)) = ChargeAmount(CodeOf(c))
  BY <1>2, TransferIsCharge
<1>4. ChargeAmount(CodeOf(c)) \in {0, paid[KeyOf[c]]}
  BY <1>1, <1>3 DEF IInv, PaidAsStated
<1>5. QED
  BY <1>1, <1>3, <1>4 DEF Value, Routes

LEMMA GatewayStep == IInv /\ [Next]_vars => [Gateway!Next]_(Gateway!vars)
<1> SUFFICES ASSUME IInv, [Next]_vars
             PROVE  Gateway!Next \/ UNCHANGED Gateway!vars
  OBVIOUS
<1>1. ASSUME NEW c \in Calls, Begin(c) PROVE UNCHANGED Gateway!vars
  BY <1>1, AskIsStutter DEF Begin, Routes
<1>2. ASSUME NEW c \in InFlight,
             (\E route \in Routes \cup {"fetch"} : Ask(c, route)) \/ End(c, "raised"),
             UNCHANGED <<paid, told>>
      PROVE  Gateway!Next \/ UNCHANGED Gateway!vars
  BY <1>2, AskIsStutter, RaiseIsRaise DEF Gateway!Next, InFlight
<1>3. ASSUME NEW c \in Calls, Timeout(c)
      PROVE  Gateway!Next \/ UNCHANGED Gateway!vars
  <2>1. c \in InFlight /\ UNCHANGED <<paid, told>>
    BY <1>3 DEF Timeout, InFlight
  <2>2. CASE Failed(c)
    BY <1>2, <2>1, <2>2, FailedCases DEF Routes
  <2>3. CASE UNCHANGED pc
    BY <2>1, <2>3, GatewayVars DEF Outcome
  <2>4. QED
    BY <1>3, <2>2, <2>3 DEF Timeout
<1>4. ASSUME NEW c \in Calls, NotRepeated(c)
      PROVE  Gateway!Next \/ UNCHANGED Gateway!vars
  BY <1>2, <1>4, FailedCases DEF NotRepeated, Routes, InFlight
<1>5. ASSUME NEW c \in Calls, FallBack(c)
      PROVE  Gateway!Next \/ UNCHANGED Gateway!vars
  BY <1>2, <1>5 DEF FallBack, Routes, InFlight
<1>6. ASSUME NEW c \in Calls, FetchCharge(c)
      PROVE  Gateway!Next \/ UNCHANGED Gateway!vars
  BY <1>2, <1>6 DEF FetchCharge, TransferOrRaise, Routes, InFlight
<1>7. ASSUME NEW c \in Calls, Answer(c) PROVE Gateway!Next
  <2>1. /\ pc[c] \in Routes /\ reply[c] = "paid" /\ UNCHANGED paid
        /\ c \in InFlight /\ Outcome[c] = "running"
    BY <1>7 DEF Answer, InFlight, Outcome, Routes, Ended
  <2>2. PICK value \in Value(c) :
          IF value = 0 /\ CodeOf(c).amount = 0
          THEN End(c, "gone") /\ UNCHANGED told
          ELSE End(c, "answered") /\ told' = [told EXCEPT ![c] = value]
    BY <1>7 DEF Answer
  <2>3. CASE End(c, "gone") /\ UNCHANGED told
    <3>1. Outcome' = [d \in Calls |-> IF d \in {c} THEN "gone" ELSE Outcome[d]]
      BY <2>3 DEF Outcome, End, IInv, TypeOK, Ended
    <3>2. Gateway!Forget({c})
      BY <2>1, <2>3, <3>1 DEF Gateway!Forget, Outcome
    <3>3. QED
      BY <3>2 DEF Gateway!Next
  <2>4. CASE End(c, "answered") /\ told' = [told EXCEPT ![c] = value]
    <3>1. Outcome' = [Outcome EXCEPT ![c] = "answered"]
      BY <2>4 DEF Outcome, End, IInv, TypeOK, Ended
    <3>2. paid[KeyOf[c]] # 0 /\ value \in {0, paid[KeyOf[c]]}
      BY <2>1, <2>2, ValueIsPaid
    <3>3. Gateway!Answer(c)
      BY <2>1, <2>4, <3>1, <3>2 DEF Gateway!Answer, Outcome
    <3>4. QED
      BY <3>3 DEF Gateway!Next
  <2>5. QED
    BY <2>2, <2>3, <2>4
<1>8. ASSUME NEW c \in Calls, PspServes(c)
      PROVE  Gateway!Next \/ UNCHANGED Gateway!vars
  <2>1. KeyOf[c] \in Keys
    BY CallAssumption
  <2>2. QED
    BY <1>8, <2>1, PayIsPay DEF PspServes, Gateway!Next
<1>9. ASSUME NEW c \in Calls, NEW route \in Routes, PspServesLate(c, route)
      PROVE  Gateway!Next \/ UNCHANGED Gateway!vars
  <2>1. KeyOf[c] \in Keys
    BY CallAssumption
  <2>2. QED
    BY <1>9, <2>1, PayIsPay DEF PspServesLate, Gateway!Next
<1>10. ASSUME NEW c \in Calls, PspRefuses(c) PROVE UNCHANGED Gateway!vars
  BY <1>10, GatewayVars DEF PspRefuses, Outcome
<1>11. ASSUME NEW k \in Keys, ChargeEnds(k) PROVE UNCHANGED Gateway!vars
  BY <1>11, GatewayVars DEF ChargeEnds, Outcome
<1>12. ASSUME Crash PROVE Gateway!Next
  <2>1. PICK gone \in SUBSET Calls : gone = InFlight
    BY DEF InFlight
  <2>2. \A c \in gone : Outcome[c] = "running"
    BY <2>1 DEF InFlight, Outcome, Routes, Ended
  <2>3. Outcome' = [c \in Calls |-> IF c \in gone THEN "gone" ELSE Outcome[c]]
    BY <1>12, <2>1 DEF Crash, Outcome, InFlight, Ended
  <2>4. UNCHANGED <<paid, told>>
    BY <1>12 DEF Crash
  <2>5. Gateway!Forget(gone)
    BY <2>2, <2>3, <2>4 DEF Gateway!Forget, Outcome
  <2>6. QED
    BY <2>5 DEF Gateway!Next
<1>13. CASE UNCHANGED vars
  BY <1>13, GatewayVars DEF vars, Outcome
<1>14. QED
  BY <1>1, <1>3, <1>4, <1>5, <1>6, <1>7, <1>8, <1>9, <1>10, <1>11, <1>12, <1>13
  DEF Next, Handle

\* Whatever detours, lost answers, late requests and crashes there are, a key
\* pays at most once, and a call answers with the value that was moved or none.
THEOREM DispatchImplementsGateway == Spec => ImplementsGateway
BY GatewayInit, GatewayStep, IInvAlways, PTL DEF Spec, ImplementsGateway, Gateway!Spec

-----------------------------------------------------------------------------
\* Every variable keeps its type, and _make_request stops after its attempts.
THEOREM TypesHold == Spec => []TypeOK
<1>1. IInv => TypeOK
  BY DEF IInv
<1>2. QED
  BY <1>1, IInvAlways, PTL
==============================================================================
