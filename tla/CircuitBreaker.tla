---------------------------- MODULE CircuitBreaker ----------------------------
(***************************************************************************)
(* Calls to the payment service provider (Asaas): AsaasAdapter's           *)
(* _make_request under tenacity's retry, and the CircuitBreaker all of     *)
(* them share.                                                             *)
(*                                                                         *)
(* Callers are threads: those of the endpoints, and the event loop with    *)
(* the audit worker, which asks Asaas for its balance once a minute.  The  *)
(* breaker has no lock.  A thread may lose the GIL at a call: in           *)
(* record_failure and in the property state that is the call of            *)
(* time.monotonic, which splits each of them in two steps; record_success  *)
(* is one step.  Between sending a request and its answer anything may     *)
(* happen.                                                                 *)
(***************************************************************************)
EXTENDS Naturals

CONSTANTS
  Callers,          \* threads
  Loop,             \* the caller that never stops calling
  FailureThreshold, \* failures after which the breaker opens
  MaxAttempts,      \* attempts of a call
  RecoveryTimeout   \* ticks an open breaker rejects requests

BreakerAssumption ==
  /\ Loop \in Callers
  /\ FailureThreshold \in Nat \ {0}
  /\ MaxAttempts \in Nat \ {0}
  /\ RecoveryTimeout \in Nat \ {0}

VARIABLES
  state,     \* _state of the breaker
  failures,  \* _failure_count, counted up to the threshold
  elapsed,   \* ticks since _last_failure_time, counted up to the timeout
  asaas,     \* whether Asaas is up
  pc,        \* pc[c]: where caller c is
  attempt    \* attempt[c]: the attempt it is making

breaker == <<state, failures, elapsed>>
vars == <<breaker, asaas, pc, attempt>>

\* "due": found the breaker open and its timeout over.  "sent": reached Asaas and
\* is answered.  "lost": ended in a time-out or a network error, which is retried;
\* "broken" in an error which is not.  The counted ones are inside record_failure.
Failing == {"lost", "broken"}
Counted == {"lost_counted", "broken_counted"}
Places == {"idle", "calling", "due", "sent", "waiting"} \cup Failing \cup Counted

TypeOK ==
  /\ state \in {"CLOSED", "OPEN", "HALF_OPEN"}
  /\ failures \in 0 .. FailureThreshold
  /\ elapsed \in 0 .. RecoveryTimeout
  /\ asaas \in {"up", "down"}
  /\ pc \in [Callers -> Places]
  /\ attempt \in [Callers -> 1 .. MaxAttempts]

Init ==
  /\ state = "CLOSED"
  /\ failures = 0
  /\ elapsed = RecoveryTimeout
  /\ asaas = "up"
  /\ pc = [c \in Callers |-> "idle"]
  /\ attempt = [c \in Callers |-> 1]

-----------------------------------------------------------------------------
(* The breaker.                                                            *)

\* The property state takes the breaker for half open from here on.
half_open == state' = "HALF_OPEN" /\ UNCHANGED <<failures, elapsed>>

\* Faulty variant of record_success: the count is not reset.
record_success_closing == state' = "CLOSED" /\ UNCHANGED <<failures, elapsed>>

record_success == state' = "CLOSED" /\ failures' = 0 /\ UNCHANGED elapsed

\* The first half of record_failure, up to the call of time.monotonic.
count_failure ==
  /\ failures' = IF failures < FailureThreshold THEN failures + 1 ELSE failures
  /\ UNCHANGED <<state, elapsed>>

\* The second half.
judge_failure ==
  /\ elapsed' = 0
  /\ state' = IF failures = FailureThreshold THEN "OPEN" ELSE state
  /\ UNCHANGED failures

-----------------------------------------------------------------------------
(* _make_request.                                                          *)

Start(c) ==
  /\ pc[c] = "idle"
  /\ pc' = [pc EXCEPT ![c] = "calling"]
  /\ attempt' = [attempt EXCEPT ![c] = 1]
  /\ UNCHANGED <<breaker, asaas>>

End(c) == pc' = [pc EXCEPT ![c] = "idle"] /\ UNCHANGED attempt

\* Faulty variant of Retry: attempts are not counted.
RetryUncounted(c) == pc' = [pc EXCEPT ![c] = "waiting"] /\ UNCHANGED attempt

\* tenacity repeats an attempt that ends in a time-out or a network error.
Retry(c) ==
  IF attempt[c] < MaxAttempts
  THEN /\ pc' = [pc EXCEPT ![c] = "waiting"]
       /\ attempt' = [attempt EXCEPT ![c] = @ + 1]
  ELSE End(c)

Goto(c, place) == pc' = [pc EXCEPT ![c] = place] /\ UNCHANGED attempt

\* The request is made; without Asaas it is lost, or answered with a 5xx.
Request(c) ==
  \/ asaas = "up" /\ Goto(c, "sent")
  \/ asaas = "down" /\ \E place \in Failing : Goto(c, place)

\* The breaker is closed or half open.
Send(c) ==
  /\ pc[c] = "calling"
  /\ state # "OPEN"
  /\ Request(c)
  /\ UNCHANGED <<breaker, asaas>>

\* The breaker is open, and its timeout is over: the property state has called
\* time.monotonic and not yet compared and written.
FindDue(c) ==
  /\ pc[c] = "calling"
  /\ state = "OPEN" /\ elapsed = RecoveryTimeout
  /\ Goto(c, "due")
  /\ UNCHANGED <<breaker, asaas>>

\* It compares with the last failure of now, and writes whatever the state has
\* become since.
Probe(c) ==
  /\ pc[c] = "due"
  /\ elapsed = RecoveryTimeout
  /\ half_open
  /\ Request(c)
  /\ UNCHANGED asaas

\* A failure was recorded since: the state is returned as it is.
ProbeTooLate(c) ==
  /\ pc[c] = "due"
  /\ elapsed < RecoveryTimeout
  /\ IF state = "OPEN" THEN Retry(c) ELSE Request(c)
  /\ UNCHANGED <<breaker, asaas>>

\* Faulty variant of Reject: a rejection restarts the timeout, like a failure.
RejectCounted(c) ==
  /\ pc[c] = "calling"
  /\ state = "OPEN" /\ elapsed < RecoveryTimeout
  /\ judge_failure
  /\ Retry(c)
  /\ UNCHANGED asaas

\* The rejection is a ConnectError, hence a network error: it is retried too.
\* It is raised outside the try block, and not counted.
Reject(c) ==
  /\ pc[c] = "calling"
  /\ state = "OPEN" /\ elapsed < RecoveryTimeout
  /\ Retry(c)
  /\ UNCHANGED <<breaker, asaas>>

\* A good answer; when its body cannot be parsed, what was recorded as a success
\* is then recorded as a failure.
Succeed(c) ==
  /\ pc[c] = "sent"
  /\ record_success
  /\ Goto(c, "idle") \/ Goto(c, "broken")
  /\ UNCHANGED asaas

\* An answer with an error of the caller (4xx) counts neither way.
Refused(c) ==
  /\ pc[c] = "sent"
  /\ End(c)
  /\ UNCHANGED <<breaker, asaas>>

CountFailure(c) ==
  /\ pc[c] \in Failing
  /\ count_failure
  /\ Goto(c, IF pc[c] = "lost" THEN "lost_counted" ELSE "broken_counted")
  /\ UNCHANGED asaas

JudgeFailure(c) ==
  /\ pc[c] \in Counted
  /\ judge_failure
  /\ IF pc[c] = "lost_counted" THEN Retry(c) ELSE End(c)
  /\ UNCHANGED asaas

Wake(c) ==
  /\ pc[c] = "waiting"
  /\ pc' = [pc EXCEPT ![c] = "calling"]
  /\ UNCHANGED <<breaker, asaas, attempt>>

\* External: time passes, and Asaas goes down and comes back.
Tick ==
  /\ elapsed < RecoveryTimeout
  /\ elapsed' = elapsed + 1
  /\ UNCHANGED <<state, failures, asaas, pc, attempt>>

Outage ==
  /\ asaas' = IF asaas = "up" THEN "down" ELSE "up"
  /\ UNCHANGED <<breaker, pc, attempt>>

-----------------------------------------------------------------------------
Continue(c) ==
  \/ Send(c) \/ FindDue(c) \/ Probe(c) \/ ProbeTooLate(c) \/ Reject(c)
  \/ Succeed(c) \/ Refused(c) \/ CountFailure(c) \/ JudgeFailure(c) \/ Wake(c)

Next == Tick \/ Outage \/ \E c \in Callers : Start(c) \/ Continue(c)

Spec == Init /\ [][Next]_vars

\* Time passes, calls go on, and the audit worker calls again and again.
FairSpec ==
  /\ Spec
  /\ WF_vars(Tick)
  /\ WF_vars(Start(Loop))
  /\ \A c \in Callers : WF_vars(Continue(c))

-----------------------------------------------------------------------------
(* Properties.                                                             *)

\* However threads interleave inside the breaker, an open breaker has counted up
\* to the threshold, and a closed one that reached it is about to be opened by the
\* thread that counted: no late success leaves it open, no opening is lost.
OpensAtThreshold ==
  /\ state = "OPEN" => failures = FailureThreshold
  /\ state = "CLOSED" /\ failures = FailureThreshold
       => \E c \in Callers : pc[c] \in Counted

\* Once Asaas is back for good, with answers that can be parsed, the breaker
\* cannot stay shut: the requests lost in the outage open it finitely often, and
\* the next call after the timeout gets through.
Healthy == asaas = "up" /\ \A c \in Callers : pc[c] # "broken"
Recovers == <>[]Healthy => <>[](state # "OPEN")

\* Callers do not retry for ever, nor wait for the breaker.
CallsEnd == \A c \in Callers : (pc[c] = "calling") ~> (pc[c] = "idle")

=============================================================================
