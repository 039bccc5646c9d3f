---------------------------- MODULE ConnectionPool ----------------------------
(***************************************************************************)
(* Who holds the database connections.                                     *)
(*                                                                         *)
(* A session takes a connection with its first statement, gives it back    *)
(* with a commit, takes one again to read on, and is closed by get_db only *)
(* when the event loop comes round to leaving the dependency.  Endpoints   *)
(* on worker threads wait for a connection in their thread, and keep it    *)
(* while they wait for Asaas; the webhook's handler waits for one on the   *)
(* event loop itself, and nobody is closed meanwhile.                      *)
(***************************************************************************)
EXTENDS Integers, FiniteSets, FiniteSetsExt

CONSTANTS
  Workers,     \* worker threads
  Hook,        \* the session of the webhook's handler
  Pool,        \* pool_size + max_overflow
  MaxRequests  \* bound: requests that come to the workers

PoolAssumption ==
  /\ Hook \notin Workers
  /\ Pool \in Nat \ {0}
  /\ MaxRequests \in Nat

Sessions == Workers \cup {Hook}

VARIABLES
  session,   \* session[s]: how far the request of s has come
  holds,     \* the sessions with a connection
  requests,  \* requests that came to the workers
  event      \* the webhook: "pending", "retry" after a 500, "processed", or
             \* "lost" when a failure was acknowledged

vars == <<session, holds, requests, event>>

TypeOK ==
  /\ session \in [Sessions -> {"idle", "waiting", "working", "answered", "closing"}]
  /\ holds \subseteq Sessions /\ Cardinality(holds) <= Pool
  /\ requests \in 0 .. MaxRequests
  /\ event \in {"pending", "retry", "processed", "lost"}

Init ==
  /\ session = [s \in Sessions |-> "idle"]
  /\ holds = {}
  /\ requests = 0
  /\ event = "pending"

\* The event loop runs the webhook's handler from its first statement to its
\* answer.
LoopFree == session[Hook] \notin {"waiting", "working"}

\* Connections in the pool, or still to be opened.
Free == Pool - Cardinality(holds)

Becomes(s, state) == session' = [session EXCEPT ![s] = state]

-----------------------------------------------------------------------------
\* The loop passes a request on to a worker, or starts the webhook's handler.
Arrive(w) ==
  /\ LoopFree
  /\ session[w] = "idle"
  /\ requests < MaxRequests
  /\ requests' = requests + 1
  /\ Becomes(w, "waiting")
  /\ UNCHANGED <<holds, event>>

Deliver ==
  /\ session[Hook] = "idle"
  /\ event \in {"pending", "retry"}
  /\ event' = "pending"
  /\ Becomes(Hook, "waiting")
  /\ UNCHANGED <<holds, requests>>

Take(s) ==
  /\ session[s] = "waiting"
  /\ Free > 0
  /\ holds' = holds \cup {s}
  /\ Becomes(s, "working")
  /\ UNCHANGED <<requests, event>>

\* Faulty variant of TimedOut: the pool is waited for without a limit.
NeverTimedOut(s) == FALSE

\* pool_timeout.
TimedOut(s) == session[s] = "waiting" /\ Free = 0

\* Faulty variant of Answered500: the failure is acknowledged.
Answered200 == "lost"

Answered500 == "retry"

\* The statement raises.  The webhook answers 500, and comes again.
GiveUp(s) ==
  /\ TimedOut(s)
  /\ Becomes(s, "answered")
  /\ event' = IF s = Hook THEN Answered500 ELSE event
  /\ UNCHANGED <<holds, requests>>

\* A commit in the middle, and a statement after it.
CommitAndGoOn(s) ==
  /\ session[s] = "working"
  /\ holds' = holds \ {s}
  /\ Becomes(s, "waiting")
  /\ UNCHANGED <<requests, event>>

\* The endpoint returns or raises, its session still open.
Respond(s) ==
  /\ session[s] = "working"
  /\ Becomes(s, "answered")
  /\ event' = IF s = Hook THEN "processed" ELSE event
  /\ UNCHANGED <<holds, requests>>

\* The loop leaves the dependency: db.close() runs on a thread of its own.
LeaveDependency(s) ==
  /\ LoopFree
  /\ session[s] = "answered"
  /\ Becomes(s, "closing")
  /\ UNCHANGED <<holds, requests, event>>

\* Faulty variant of CloseSession: get_db yields its session and leaves it open.
LeaveOpen(s) == holds

CloseSession(s) == holds \ {s}

Close(s) ==
  /\ session[s] = "closing"
  /\ holds' = CloseSession(s)
  /\ Becomes(s, "idle")
  /\ UNCHANGED <<requests, event>>

-----------------------------------------------------------------------------
Serve(s) == Take(s) \/ GiveUp(s) \/ Close(s)
Finish(s) == Respond(s) \/ LeaveDependency(s)

Next ==
  \/ Deliver
  \/ \E w \in Workers : Arrive(w)
  \/ \E s \in Sessions : Serve(s) \/ Finish(s) \/ CommitAndGoOn(s)

Spec == Init /\ [][Next]_vars

\* Calls to Asaas and waits for the pool have timeouts, a session commits
\* finitely often, the loop serves everyone, and Asaas delivers again.
FairSpec ==
  /\ Spec
  /\ WF_vars(Deliver)
  /\ \A s \in Sessions : WF_vars(Serve(s)) /\ SF_vars(Finish(s))

-----------------------------------------------------------------------------
(* Properties.                                                             *)

\* When the load is over every connection has come back, by whichever way each
\* request ended and however the loop was blocked in between.
ConnectionsComeBack == <>[](holds = {})

\* The event loop is not blocked for ever, though those who could give a
\* connection back may all be waiting for the loop: the wait has a timeout.
LoopComesRound == ~LoopFree ~> LoopFree

\* Once the load is over the webhook is processed, however often it was
\* answered with 500 before.
EventProcessed == <>(event = "processed")
=============================================================================
