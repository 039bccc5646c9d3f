----------------------------- MODULE FeesAndRisk -----------------------------
(***************************************************************************)
(* What a payment costs, and whether it is let through: the tables of      *)
(* fees, the projection of the platform's revenue, the anti-fraud rules    *)
(* and the validation of withdrawals.  Amounts are in cents.  A state is   *)
(* one question to them.                                                   *)
(***************************************************************************)
EXTENDS Integers

CONSTANTS
  Values,    \* values of payments, in cents
  Hours,     \* hours of the day
  Attempts,  \* payments made before, in a day or a month
  Users      \* sizes of the platform, in tens of customers

QuestionsAssumption ==
  /\ Values \subseteq Nat \ {0}
  /\ Hours \subseteq 0 .. 23
  /\ Attempts \subseteq Nat
  /\ Users \subseteq Nat

VARIABLES
  asked,    \* the question: "none", "fee", "screen" or "project"
  holder,   \* "PF" (a CPF) or "PJ" (a CNPJ)
  value,    \* the payment
  other,    \* a second payment
  hour,
  attempts  \* payments made before

vars == <<asked, holder, value, other, hour, attempts>>

Init ==
  /\ asked = "none" /\ holder = "PF"
  /\ value = 0 /\ other = 0 /\ hour = 0 /\ attempts = 0

TypeOK ==
  /\ asked \in {"none", "fee", "screen", "project"}
  /\ holder \in {"PF", "PJ"}
  /\ value \in {0} \cup Values /\ other \in {0} \cup Values \cup Users
  /\ hour \in {0} \cup Hours /\ attempts \in {0} \cup Attempts

-----------------------------------------------------------------------------
(* core/fees.py.                                                           *)

Larger(m, n) == IF m >= n THEN m ELSE n
Smaller(m, n) == IF m <= n THEN m ELSE n

ASAAS_PIX_OUTBOUND_COST == 200
ASAAS_PIX_INBOUND_NET_COST == 199
PIX_NETWORK_FEE == 300
PIX_MAINTENANCE_FEE == 100
PIX_SENT_MIN == PIX_NETWORK_FEE + PIX_MAINTENANCE_FEE
PIX_RECV_MIN_PJ == 200

\* Faulty variant of Share: it is rounded to a whole real.
WholeShare(v, m, n) == 100 * ((2 * v * m + 100 * n) \div (200 * n))

\* A share of m in n, to the nearest cent.
Share(v, m, n) == (2 * v * m + n) \div (2 * n)

calculate_pix_outbound_fee(h, v) ==
  IF h = "PJ" THEN Larger(Share(v, 8, 1000), PIX_SENT_MIN) ELSE PIX_SENT_MIN

calculate_pix_receive_fee(h, v) == 0

calculate_pix_fee(h, v, external, received) ==
  IF ~external THEN 0
  ELSE IF received THEN calculate_pix_receive_fee(h, v)
  ELSE calculate_pix_outbound_fee(h, v)

\* Faulty variant of fee_breakdown: the preview of a company's payment leaves
\* the percentage out.
flat_breakdown(h, v, external, received) ==
  LET sent == external /\ ~received IN
  [gateway_cost |-> IF sent THEN ASAAS_PIX_OUTBOUND_COST ELSE 0,
   platform_fee |-> IF sent THEN PIX_SENT_MIN ELSE 0,
   network_fee  |-> IF sent THEN PIX_NETWORK_FEE ELSE 0,
   service_fee  |-> IF sent THEN PIX_MAINTENANCE_FEE ELSE 0,
   net_margin   |-> IF sent THEN PIX_SENT_MIN - ASAAS_PIX_OUTBOUND_COST ELSE 0,
   fee_label    |-> IF sent /\ h = "PJ" THEN 300 ELSE 0]

\* fee_label is the minimum that its text names, 0 when it names none.
fee_breakdown(h, v, external, received) ==
  LET sent == external /\ ~received
      fee == calculate_pix_outbound_fee(h, v) IN
  [gateway_cost |-> IF sent THEN ASAAS_PIX_OUTBOUND_COST ELSE 0,
   platform_fee |-> IF sent THEN fee ELSE 0,
   network_fee  |-> IF sent THEN PIX_NETWORK_FEE ELSE 0,
   service_fee  |-> IF sent THEN fee - PIX_NETWORK_FEE ELSE 0,
   net_margin   |-> IF sent THEN fee - ASAAS_PIX_OUTBOUND_COST ELSE 0,
   fee_label    |-> IF sent /\ h = "PJ" THEN 300 ELSE 0]

\* What the page of the fees asks for: it does not know whether a payment stays
\* inside the platform.
get_pix_fee_preview(h, v, received) == fee_breakdown(h, v, TRUE, received)

\* What the handlers take for a payment of v, each computing it for itself: for
\* a transfer to a key and for a QR code of another bank; inside the platform
\* for a transfer to a customer's key, for a customer's QR code (of the payer),
\* and of whom is paid; and of whom is paid from outside.
FeeCharged(h, v) ==
  [transfer          |-> calculate_pix_fee(h, v, TRUE, FALSE),
   qr                |-> calculate_pix_fee(h, v, TRUE, FALSE),
   internal_transfer |-> 0,
   internal_qr       |-> PIX_MAINTENANCE_FEE,
   internal_receipt  |-> 0,
   receipt           |-> calculate_pix_fee(h, v, TRUE, TRUE)]

-----------------------------------------------------------------------------
(* monthly_revenue_projection with its default ratios, for tens of         *)
(* customers: one in five is a company and one in two receives.  Each      *)
(* makes one payment of v, and used free transfers are gone already.  The  *)
(* projection computes in floating point: v is a value whose fees are      *)
(* whole cents.                                                            *)

ASAAS_PIX_OUTBOUND_FREE_MONTHLY == 30

Outbound(tens) == [PF |-> 8 * tens, PJ |-> 2 * tens]
Inbound(tens) == [PF |-> 4 * tens, PJ |-> tens]

\* Faulty variant of pj_out_fee_each: the minimum of before, which the
\* administrator's page still computes with.
pj_out_fee_of_before(v) == Larger(300, Share(v, 8, 1000))

pj_out_fee_each(v) == Larger(PIX_SENT_MIN, Share(v, 8, 1000))
pj_in_fee_each(v) == Larger(PIX_RECV_MIN_PJ, Share(v, 49, 10000))

Paid(tens, used) ==
  Larger(0, 10 * tens - Larger(0, ASAAS_PIX_OUTBOUND_FREE_MONTHLY - used))

monthly_revenue_projection(tens, v, used) ==
  LET out == Outbound(tens)
      in == Inbound(tens)
      gross == out.PF * PIX_SENT_MIN + out.PJ * pj_out_fee_each(v)
               + in.PJ * pj_in_fee_each(v)
      costs == Paid(tens, used) * ASAAS_PIX_OUTBOUND_COST
               + (in.PF + in.PJ) * ASAAS_PIX_INBOUND_NET_COST IN
  [gross |-> gross, costs |-> costs, net |-> gross - costs]

-----------------------------------------------------------------------------
(* The anti-fraud rules.                                                   *)

NightTimeRule(h) == h >= 22 \/ h < 6
HighValueRule(v) == v > 30000

\* Faulty variant of ExcessiveAttemptsRule: the rule fires at one count only.
AttemptsRuleAt(a) == a = 4

ExcessiveAttemptsRule(a) == a > 3
ExtremeValueRule(v) == v > 100000

Points(fires, n) == IF fires THEN n ELSE 0

Score(v, h, a) ==
  Smaller(100,
    Points(NightTimeRule(h), 40) + Points(HighValueRule(v), 30)
    + Points(ExcessiveAttemptsRule(a), 50) + Points(ExtremeValueRule(v), 60))

approval_limit == 60

Approved(v, h, a) == Score(v, h, a) < approval_limit

\* The risk level a score is reported with.
RiskLevel(score) ==
  IF score < 30 THEN "LOW" ELSE IF score < 60 THEN "MEDIUM" ELSE "HIGH"

\* Faulty variant of MAX_WITHDRAWAL: the limit is read as cents.
MAX_WITHDRAWAL_AS_CENTS == 50000

MAX_WITHDRAWAL == 5000000

\* asaas_withdrawal_validation, of an authenticated request.
WithdrawalApproved(v, type) ==
  /\ v > 0 /\ v <= MAX_WITHDRAWAL
  /\ type \in {"", "TRANSFER", "PIX", "BILL_PAYMENT", "PIX_REFUND"}

-----------------------------------------------------------------------------
(* The questions.                                                          *)

Quote(h, v, w) ==
  /\ asked = "none"
  /\ asked' = "fee" /\ holder' = h /\ value' = v /\ other' = w
  /\ UNCHANGED <<hour, attempts>>

Screen(v, t, a) ==
  /\ asked = "none"
  /\ asked' = "screen" /\ value' = v /\ hour' = t /\ attempts' = a
  /\ UNCHANGED <<holder, other>>

Project(tens, v, a) ==
  /\ asked = "none"
  /\ v % 10000 = 0
  /\ asked' = "project" /\ other' = tens /\ value' = v /\ attempts' = a
  /\ UNCHANGED <<holder, hour>>

Next ==
  \/ \E h \in {"PF", "PJ"}, v, w \in Values : Quote(h, v, w)
  \/ \E v \in Values, t \in Hours, a \in Attempts : Screen(v, t, a)
  \/ \E tens \in Users, v \in Values, a \in Attempts : Project(tens, v, a)

Spec == Init /\ [][Next]_vars

-----------------------------------------------------------------------------
(* Properties.                                                             *)

\* For what goes out to another bank, or comes from one, the fee in the preview
\* is the fee its handler takes, its parts add up to it, and it leaves a margin
\* above what Asaas charges.  Inside the platform the preview overstates what is
\* taken; and a company pays up to a real more than the label says.
PreviewIsCharged ==
  asked = "fee" =>
    LET sent == get_pix_fee_preview(holder, value, FALSE)
        received == get_pix_fee_preview(holder, value, TRUE)
        taken == FeeCharged(holder, value) IN
    /\ sent.platform_fee = taken.transfer /\ sent.platform_fee = taken.qr
    /\ received.platform_fee = taken.receipt
    /\ \A shown \in {sent, received} :
         /\ shown.network_fee + shown.service_fee = shown.platform_fee
         /\ shown.gateway_cost + shown.net_margin = shown.platform_fee
    /\ sent.net_margin >= PIX_MAINTENANCE_FEE
    /\ \A inside \in {taken.internal_transfer + taken.internal_receipt,
                     taken.internal_qr + taken.internal_receipt} :
         inside < sent.platform_fee
    /\ holder = "PJ" =>
         sent.platform_fee - Larger(Share(value, 8, 1000), sent.fee_label)
           \in 0 .. PIX_MAINTENANCE_FEE

\* Splitting a payment in two saves at most the rounding of a cent.
SplittingSavesNothing ==
  asked = "fee" =>
    calculate_pix_outbound_fee(holder, value + other)
      <= calculate_pix_outbound_fee(holder, value)
         + calculate_pix_outbound_fee(holder, other) + 1

\* A payment that is refused is refused as well when it is larger, later in a
\* series, or at night: the points of the rules never let somebody through by
\* adding to the risk, and the level they are reported with is high.
RiskNeverHelps ==
  asked = "screen" /\ ~Approved(value, hour, attempts) =>
    \A v \in Values, a \in Attempts, t \in Hours :
      /\ v >= value /\ a >= attempts /\ (NightTimeRule(hour) => NightTimeRule(t))
      => ~Approved(v, t, a) /\ RiskLevel(Score(v, t, a)) = "HIGH"

\* What the screening lets through is never refused afterwards by the limit on
\* withdrawals, when Asaas asks for its transfer.
ScreenedIsPaidOut ==
  asked = "screen" /\ Approved(value, hour, attempts)
    => WithdrawalApproved(value, "TRANSFER")

\* The fees that are taken for what the projection projects.
Charged(tens, v) ==
  LET of(h) == FeeCharged(h, v) IN
  Outbound(tens).PF * of("PF").transfer + Outbound(tens).PJ * of("PJ").transfer
  + Inbound(tens).PF * of("PF").receipt + Inbound(tens).PJ * of("PJ").receipt

\* The projection exceeds the fees that are taken, by exactly the fee on what
\* companies receive, which nobody is charged any more; and every transfer that
\* is free no longer costs what Asaas asks for one, never more.
ProjectionOverstates ==
  asked = "project" =>
    LET p == monthly_revenue_projection(other, value, attempts) IN
    /\ p.gross = Charged(other, value) + Inbound(other).PJ * pj_in_fee_each(value)
    /\ \A a \in Attempts :
         LET more == monthly_revenue_projection(other, value, a) IN
         a >= attempts =>
           p.net - more.net \in 0 .. (a - attempts) * ASAAS_PIX_OUTBOUND_COST
=============================================================================
