----------------------------- MODULE QrDispatch ------------------------------
(***************************************************************************)
(* pay_qr_code of the Asaas adapter, called by POST /pix/qrcode/pagar.     *)
(*                                                                         *)
(* A call first asks the PSP to pay the code it was given ("native").  If  *)
(* the PSP cannot process the code, a static code is paid by a transfer to *)
(* the key it holds; for a dynamic one the call fetches the charge behind  *)
(* the code's URL, asks the PSP to pay the charge's own code ("canonical") *)
(* and, whatever that raises, makes a transfer to the key of the charge.   *)
(* Each request is repeated on a timeout, up to MaxAttempts times.         *)
(*                                                                         *)
(* Answers are lost, and a request that timed out may be served later.     *)
(* What keeps the detours from paying twice is that all of them carry the  *)
(* idempotency key of the call.                                            *)
(***************************************************************************)
EXTENDS Naturals

CONSTANTS
  Calls,        \* calls of pay_qr_code
  Keys,         \* idempotency keys
  KeyOf,        \* the key a call carries
  QrCodes,      \* the QR codes there are
  Given,        \* the value the client sent, 0 if none
  MaxAttempts,  \* HTTP attempts of one request
  MaxCrashes    \* bound: process crashes

\* What the adapter finds in a code (the key, the amount, the URL of a charge)
\* and in the charge behind it.
Charges == [emv : BOOLEAN, key : BOOLEAN, amount : Nat]
Codes == [key : BOOLEAN, amount : Nat, url : BOOLEAN, charge : Charges]

\* Only the URL of a dynamic code leads to a charge; if such a code states an
\* amount, it is the one of its charge.
ASSUME CallAssumption ==
  /\ KeyOf \in [Calls -> Keys]
  /\ QrCodes \subseteq Codes
  /\ Given \in [Calls -> Nat]
  /\ MaxAttempts \in Nat \ {0}
  /\ MaxCrashes \in Nat
  /\ \A q \in QrCodes : ~q.url => q.charge.amount = 0
  /\ \A q \in QrCodes :
       q.url /\ q.amount > 0 /\ q.charge.amount > 0 => q.amount = q.charge.amount

VARIABLES
  code,      \* code[k]: the code from which the web client derived key k
  pc,        \* pc[c]: where call c is, or how it ended
  attempts,  \* attempts[c]: attempts of the request c is making
  reply,     \* reply[c]: the PSP's reply to it, on its way to c
  told,      \* told[c]: the value c answered with
  paid,      \* paid[k]: the amount the PSP moved on behalf of key k
  active,    \* the keys whose code can still be paid as a QR code
  late,      \* requests that timed out and may still be served
  crashes    \* crashes so far

vars == <<code, pc, attempts, reply, told, paid, active, late, crashes>>

Routes == {"native", "canonical", "transfer"}
Ended == {"answered", "raised", "gone"}
InFlight == {c \in Calls : pc[c] \in Routes \cup {"fetch"}}

\* Every variable has its type; no request is attempted more than MaxAttempts
\* times (stop_after_attempt of _make_request).
TypeOK ==
  /\ code \in [Keys -> QrCodes]
  /\ pc \in [Calls -> Routes \cup Ended \cup {"idle", "fetch"}]
  /\ attempts \in [Calls -> 1 .. MaxAttempts]
  /\ reply \in [Calls -> {"none", "paid", "unsupported", "refused"}]
  /\ told \in [Calls -> Nat]
  /\ paid \in [Keys -> Nat]
  /\ active \subseteq Keys
  /\ late \subseteq Calls \X Routes
  /\ crashes \in 0 .. MaxCrashes

Init ==
  /\ code \in [Keys -> QrCodes]
  /\ pc = [c \in Calls |-> "idle"]
  /\ attempts = [c \in Calls |-> 1]
  /\ reply = [c \in Calls |-> "none"]
  /\ told = [c \in Calls |-> 0]
  /\ paid = [k \in Keys |-> 0]
  /\ active = Keys
  /\ late = {}
  /\ crashes = 0

-----------------------------------------------------------------------------
(* What the adapter computes from a code and from its charge.              *)

CodeOf(c) == code[KeyOf[c]]

\* parse_emv_pix_key and parse_emv_amount: a key, and not a URL in its place.
PayableByKey(q) == q.key /\ q.amount > 0

\* The amount found in the charge's valor, else field 54 of the code.
ChargeAmount(q) == IF q.charge.amount > 0 THEN q.charge.amount ELSE q.amount

TransferAmount(q) == IF PayableByKey(q) THEN q.amount ELSE ChargeAmount(q)

\* Faulty variant of IdempotencyKey: the canonical request under a key of its own.
CanonicalOwnKey(c, route) == IF route = "canonical" THEN CodeOf(c) ELSE KeyOf[c]

\* idempotency_key or a hash: the router always passes a key.
IdempotencyKey(c, route) == KeyOf[c]

-----------------------------------------------------------------------------
(* External: the PSP.                                                      *)

\* A payment with the same idempotency key is recognised, on any endpoint.
Recognised(c, route) ==
  IdempotencyKey(c, route) = KeyOf[c] /\ paid[KeyOf[c]] # 0

\* A code is worth what it or its charge states, else what the client sends.
Amount(c, route) ==
  LET q == CodeOf(c)
  IN  IF route = "transfer" THEN TransferAmount(q)
      ELSE IF q.url /\ q.charge.amount > 0 THEN q.charge.amount
      ELSE IF q.amount > 0 THEN q.amount
      ELSE Given[c]

\* Serving a request moves money unless its key is recognised.  Paying the
\* code of a charge concludes the charge; a transfer to its key does not.
Serve(c, route) ==
  \/ Recognised(c, route) /\ UNCHANGED <<paid, active>>
  \/ /\ ~Recognised(c, route)
     /\ Amount(c, route) > 0
     /\ paid' = [paid EXCEPT ![KeyOf[c]] = @ + Amount(c, route)]
     /\ IF route = "transfer" THEN UNCHANGED active
        ELSE /\ CodeOf(c).url => KeyOf[c] \in active
             /\ active' = IF CodeOf(c).url THEN active \ {KeyOf[c]} ELSE active

PspServes(c) ==
  /\ pc[c] \in Routes /\ reply[c] = "none"
  /\ Serve(c, pc[c])
  /\ reply' = [reply EXCEPT ![c] = "paid"]
  /\ UNCHANGED <<code, pc, attempts, told, late, crashes>>

PspRefuses(c) ==
  /\ pc[c] \in Routes /\ reply[c] = "none"
  /\ ~Recognised(c, pc[c])
  /\ \E answer \in {"unsupported", "refused"} : reply' = [reply EXCEPT ![c] = answer]
  /\ UNCHANGED <<code, pc, attempts, told, paid, active, late, crashes>>

PspServesLate(c, route) ==
  /\ <<c, route>> \in late
  /\ late' = late \ {<<c, route>>}
  /\ Serve(c, route)
  /\ UNCHANGED <<code, pc, attempts, reply, told, crashes>>

\* A charge expires, is removed, or is paid by someone else.
ChargeEnds(k) ==
  /\ code[k].url /\ k \in active
  /\ active' = active \ {k}
  /\ UNCHANGED <<code, pc, attempts, reply, told, paid, late, crashes>>

-----------------------------------------------------------------------------
(* pay_qr_code.                                                            *)

\* The first attempt of a request on a route.
Ask(c, route) ==
  /\ pc' = [pc EXCEPT ![c] = route]
  /\ attempts' = [attempts EXCEPT ![c] = 1]
  /\ reply' = [reply EXCEPT ![c] = "none"]

End(c, how) ==
  /\ pc' = [pc EXCEPT ![c] = how]
  /\ reply' = [reply EXCEPT ![c] = "none"]
  /\ UNCHANGED attempts

\* The row of the request is unique by key: a second call with the key starts
\* only if the first left no row.
Begin(c) ==
  /\ pc[c] = "idle"
  /\ \A d \in Calls \ {c} : KeyOf[d] = KeyOf[c] => pc[d] \in {"idle", "gone"}
  /\ Ask(c, "native")
  /\ UNCHANGED <<code, told, paid, active, late, crashes>>

\* create_pix_payment to the key of the charge, the last resort.
TransferOrRaise(c) ==
  IF CodeOf(c).charge.key /\ ChargeAmount(CodeOf(c)) > 0
  THEN Ask(c, "transfer")
  ELSE End(c, "raised")

\* Faulty variant of Failed: a canonical request that failed starts over.
FailedStartsOver(c) ==
  IF pc[c] = "canonical" THEN Ask(c, "native") ELSE End(c, "raised")

\* _make_request raised.  Only the canonical request goes on, after any error.
Failed(c) ==
  IF pc[c] = "canonical" THEN TransferOrRaise(c) ELSE End(c, "raised")

LastAttempt(c) == attempts[c] = MaxAttempts

\* No answer, or the answer is lost: tenacity repeats the request.
Timeout(c) ==
  /\ pc[c] \in Routes
  /\ late' = IF reply[c] = "none" THEN late \cup {<<c, pc[c]>>} ELSE late
  /\ \/ LastAttempt(c) /\ Failed(c)
     \/ /\ ~LastAttempt(c)
        /\ attempts' = [attempts EXCEPT ![c] = @ + 1]
        /\ reply' = [reply EXCEPT ![c] = "none"]
        /\ UNCHANGED pc
  /\ UNCHANGED <<code, told, paid, active, crashes>>

\* An error that is not repeated: a refusal, or an answer that is no JSON.
NotRepeated(c) ==
  /\ pc[c] \in Routes
  /\ \/ reply[c] \in {"refused", "paid"}
     \/ reply[c] = "unsupported" /\ pc[c] # "native"
  /\ Failed(c)
  /\ UNCHANGED <<code, told, paid, active, late, crashes>>

\* 400 with parse_error, invalid_action or invalid_qrCode.
FallBack(c) ==
  /\ pc[c] = "native" /\ reply[c] = "unsupported"
  /\ \/ PayableByKey(CodeOf(c)) /\ Ask(c, "transfer")
     \/ ~PayableByKey(CodeOf(c)) /\ CodeOf(c).url /\ Ask(c, "fetch")
     \/ ~PayableByKey(CodeOf(c)) /\ ~CodeOf(c).url /\ End(c, "raised")
  /\ UNCHANGED <<code, told, paid, active, late, crashes>>

\* The charge's status is read here and used by the steps that follow.
FetchCharge(c) ==
  /\ pc[c] = "fetch"
  /\ \/ End(c, "raised")
     \/ /\ KeyOf[c] \in active
        /\ IF CodeOf(c).charge.emv THEN Ask(c, "canonical") ELSE TransferOrRaise(c)
  /\ UNCHANGED <<code, told, paid, active, late, crashes>>

\* The value of the result: the PSP's, which may be missing; on the detours
\* that of the charge or of the code in its place.
Value(c) ==
  CASE pc[c] = "native"    -> {paid[KeyOf[c]], 0}
    [] pc[c] = "canonical" -> {paid[KeyOf[c]], ChargeAmount(CodeOf(c))}
    [] pc[c] = "transfer"  -> {TransferAmount(CodeOf(c))}

\* Without a value in the result or in the code the router answers 500, and
\* the row is rolled back.
Answer(c) ==
  /\ pc[c] \in Routes /\ reply[c] = "paid"
  /\ \E value \in Value(c) :
       IF value = 0 /\ CodeOf(c).amount = 0
       THEN End(c, "gone") /\ UNCHANGED told
       ELSE End(c, "answered") /\ told' = [told EXCEPT ![c] = value]
  /\ UNCHANGED <<code, paid, active, late, crashes>>

\* The process dies and the open rows are rolled back.
Crash ==
  /\ crashes < MaxCrashes
  /\ crashes' = crashes + 1
  /\ pc' = [c \in Calls |-> IF c \in InFlight THEN "gone" ELSE pc[c]]
  /\ reply' = [c \in Calls |-> "none"]
  /\ late' = late \cup {<<c, pc[c]>> : c \in {d \in Calls : pc[d] \in Routes /\ reply[d] = "none"}}
  /\ UNCHANGED <<code, attempts, told, paid, active>>

-----------------------------------------------------------------------------
Handle(c) == Timeout(c) \/ NotRepeated(c) \/ FallBack(c) \/ FetchCharge(c) \/ Answer(c)

Next ==
  \/ \E c \in Calls : Begin(c) \/ Handle(c)
  \/ \E c \in Calls : PspServes(c) \/ PspRefuses(c)
  \/ \E k \in Keys : ChargeEnds(k)
  \/ \E c \in Calls, route \in Routes : PspServesLate(c, route)
  \/ Crash

Spec == Init /\ [][Next]_vars

\* A client's timeout always fires, so a call that began always goes on.
FairSpec == Spec /\ \A c \in Calls : WF_vars(Handle(c))

-----------------------------------------------------------------------------
(* Properties.                                                             *)

Gateway == INSTANCE GatewayDispatch WITH
  payment <- paid,
  outcome <- [c \in Calls |-> IF pc[c] \in Ended THEN pc[c] ELSE "running"]

\* Through every detour, lost answer, late service and crash, an idempotency
\* key moves money once, and the value a call answers with is the value moved
\* or none: pay_qr_code keeps the promise pay_pix_qrcode relies on.
ImplementsGateway == Gateway!Spec

\* Every call ends, however often the PSP is silent: the attempts of a request
\* and the detours are bounded.
CallEnds == \A c \in Calls : c \in InFlight ~> pc[c] \in Ended
==============================================================================
