------------------------------- MODULE Customer -------------------------------
(***************************************************************************)
(* What stands between a customer and the payments, in five components     *)
(* that have no state in common, side by side: the subscription, the       *)
(* account (A), the rate limiter (L), fees and risk (F), and the codes     *)
(* that are typed (C).  Each behaviour is one of one of them, the others   *)
(* staying in an initial state of theirs.                                  *)
(***************************************************************************)
EXTENDS Subscription

CONSTANTS
  ResendWait, LinkLife, MaxDate, MaxSecrets,              \* of A, with Sessions
  Threads, NoDeque, MaxReq, Window, MaxClock, MaxCalls,   \* of L
  Values, Hours, Attempts, Users,                         \* of F
  Steps, Ids, Amounts, Crcs                               \* of C

VARIABLES
  part,  \* the component the behaviour belongs to
  date, exists, verified, link, linkAt, code, codeAt, password,
  step, kind, secret, copy, born, mailed, accepted, usedAge, spent, signedIn,
  clock, store, deque, at, now, ts, calls, passed, raced,
  asked, holder, value, other, hour, attempts,
  came, what, number, id, amount, checksum, elsewhere, appended

account == <<date, exists, verified, link, linkAt, code, codeAt, password,
             step, kind, secret, copy, born, mailed, accepted, usedAge, spent,
             signedIn>>
limiter == <<clock, store, deque, at, now, ts, calls, passed, raced>>
question == <<asked, holder, value, other, hour, attempts>>
text == <<came, what, number, id, amount, checksum, elsewhere, appended>>

A == INSTANCE CustomerAccounts WITH MaxTime <- MaxDate, clock <- date
L == INSTANCE RateLimiter WITH MaxTime <- MaxClock
F == INSTANCE FeesAndRisk
C == INSTANCE PaymentCodes

ASSUME CustomerAssumption ==
  /\ A!AccountsAssumption /\ L!LimiterAssumption
  /\ F!QuestionsAssumption /\ C!CodesAssumption

CustomerInit ==
  /\ part \in {"subscription", "account", "limiter", "fees", "codes"}
  /\ Init /\ A!Init /\ L!Init /\ F!Init /\ C!Init

CustomerNext ==
  /\ \/ /\ part = "subscription" /\ Next
        /\ UNCHANGED <<account, limiter, question, text>>
     \/ /\ part = "account" /\ A!Next
        /\ UNCHANGED <<vars, limiter, question, text>>
     \/ /\ part = "limiter" /\ L!Next
        /\ UNCHANGED <<vars, account, question, text>>
     \/ /\ part = "fees" /\ F!Next
        /\ UNCHANGED <<vars, account, limiter, text>>
     \/ /\ part = "codes" /\ C!Next
        /\ UNCHANGED <<vars, account, limiter, question>>
  /\ UNCHANGED part

CustomerSpec ==
  CustomerInit /\ [][CustomerNext]_<<vars, account, limiter, question, text, part>>

-----------------------------------------------------------------------------
\* Every variable of every component keeps its type.
AllTypesOK == TypeOK /\ A!TypeOK /\ L!TypeOK /\ F!TypeOK /\ C!TypeOK

\* CustomerAccounts: whoever is signed in has an address that was verified, by
\* a link in its life; there is one account; no code is accepted that was spent
\* before it is compared.
VerifiedByLiveLink == A!SignedInIsVerified /\ A!VerifiedInTime
OneAccount == A!OneAccount
SpentIsRefused == A!SpentIsRefused

\* RateLimiter: while requests come one at a time the limit holds, and nobody
\* is refused below it.
LimitHolds == L!LimitHolds
RefusedOnlyIfFull == L!RefusedOnlyIfFull

\* FeesAndRisk: what is previewed for a payment to or from another bank is what
\* its handler takes, splitting a payment does not save on it, and the projection
\* exceeds it by a fee that is no longer taken.
FeesAgree == F!PreviewIsCharged /\ F!SplittingSavesNothing /\ F!ProjectionOverstates

\* FeesAndRisk: more risk is never judged better, and what is let through is not
\* stopped at the withdrawal.
RiskDecides == F!RiskNeverHelps /\ F!ScreenedIsPaidOut

\* PaymentCodes: slips are caught where check digits can tell; what is written
\* into a BR code is read out of it, and its checksum decides.
TyposAreCaught == C!TyposAreCaught
CodesAreRead == C!WrittenIsRead /\ C!ChecksumDecides
=============================================================================
