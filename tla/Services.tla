------------------------------- MODULE Services -------------------------------
(***************************************************************************)
(* Three components that have no state in common, side by side: the race   *)
(* of the advisor's models (AdvisorRace), the circuit breaker of the calls *)
(* to Asaas (B) and the pool of connections (P).  Each behaviour is one of *)
(* one of them, the others staying in an initial state of theirs.          *)
(***************************************************************************)
EXTENDS AdvisorRace

CONSTANTS
  Callers, Loop, FailureThreshold, MaxAttempts, RecoveryTimeout,  \* of B
  Workers, Hook, Pool, MaxRequests                                \* of P

VARIABLES
  part,                                            \* the component at work
  state, failures, elapsed, asaas, pc, attempt,    \* of B
  session, holds, requests, event                  \* of P

breaker == <<state, failures, elapsed, asaas, pc, attempt>>
pool == <<session, holds, requests, event>>

B == INSTANCE CircuitBreaker
P == INSTANCE ConnectionPool

ASSUME ServicesAssumption == B!BreakerAssumption /\ P!PoolAssumption

ServicesInit ==
  /\ part \in {"race", "breaker", "pool"}
  /\ Init /\ B!Init /\ P!Init
  /\ part # "race" => endpoint = "chat"

ServicesNext ==
  /\ \/ part = "race" /\ Next /\ UNCHANGED <<breaker, pool>>
     \/ part = "breaker" /\ B!Next /\ UNCHANGED <<vars, pool>>
     \/ part = "pool" /\ P!Next /\ UNCHANGED <<vars, breaker>>
  /\ UNCHANGED part

\* The fairness of the components, in their parts.
Fairness ==
  /\ WF_vars(part = "race" /\ Handle)
  /\ \A m \in Models : WF_vars(part = "race" /\ CallEnds(m))
  /\ WF_breaker(part = "breaker" /\ B!Tick)
  /\ WF_breaker(part = "breaker" /\ B!Start(Loop))
  /\ \A c \in Callers : WF_breaker(part = "breaker" /\ B!Continue(c))
  /\ WF_pool(part = "pool" /\ P!Deliver)
  /\ \A s \in P!Sessions :
       /\ WF_pool(part = "pool" /\ P!Serve(s))
       /\ SF_pool(part = "pool" /\ P!Finish(s))

ServicesSpec ==
  ServicesInit /\ [][ServicesNext]_<<vars, breaker, pool, part>> /\ Fairness

-----------------------------------------------------------------------------
\* Every question is answered in the end (AdvisorRace).
RaceEnds == part = "race" => AnswerEnds

\* An open breaker counted up to its threshold, and one that counted so far is
\* open or about to be; after the last outage it closes for good; no call
\* waits for ever (CircuitBreaker).
OpensAtThreshold == B!OpensAtThreshold
Recovers == B!Recovers
CallsEnd == B!CallsEnd

\* The event loop is never blocked for ever by the pool it must itself refill,
\* and once the load is over the webhook is processed and every connection has
\* come back (ConnectionPool).
ConnectionsComeBack == part = "pool" => P!ConnectionsComeBack
PoolServes == P!LoopComesRound /\ (part = "pool" => P!EventProcessed)
=============================================================================
