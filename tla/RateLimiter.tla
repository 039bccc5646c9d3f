----------------------------- MODULE RateLimiter -----------------------------
(***************************************************************************)
(* _rate_limit: one client's sliding window of requests, kept in a deque   *)
(* that the endpoints' worker threads use without a lock.  A thread can be *)
(* switched out between any two of the steps.                              *)
(***************************************************************************)
EXTENDS Integers, Sequences, FiniteSets

CONSTANTS
  Threads,
  NoDeque,   \* the client has no deque in the store yet
  MaxReq,    \* max_req
  Window,    \* window
  MaxTime,   \* bound: time that passes
  MaxCalls   \* bound: requests that come

LimiterAssumption ==
  /\ MaxReq \in Nat \ {0} /\ Window \in Nat
  /\ MaxTime \in Nat /\ MaxCalls \in Nat
  /\ NoDeque \notin Threads /\ IsFiniteSet(Threads)

VARIABLES
  clock,    \* time.monotonic()
  store,    \* the client's deque in the store: the thread that created it
  deque,    \* deque[t]: the times in the deque that t created
  at,       \* at[t]: the statement the thread has come to
  now,      \* now[t]: when its request came
  ts,       \* ts[t]: the deque it works on
  calls,    \* requests so far
  passed,   \* the times of the requests that were let through
  raced     \* two threads were inside the limiter at once

vars == <<clock, store, deque, at, now, ts, calls, passed, raced>>

Inside == {t \in Threads : at[t] # "out"}

TypeOK ==
  /\ clock \in 0 .. MaxTime
  /\ store \in Threads \cup {NoDeque}
  /\ deque \in [Threads -> Seq(0 .. MaxTime)]
  /\ at \in [Threads -> {"out", "create", "fetch", "purge", "pop", "check", "append"}]
  /\ now \in [Threads -> 0 .. MaxTime]
  /\ ts \in [Threads -> Threads \cup {NoDeque}]
  /\ calls \in 0 .. MaxCalls
  /\ passed \in Seq(0 .. MaxTime)
  /\ raced \in BOOLEAN

Init ==
  /\ clock = 0
  /\ store = NoDeque
  /\ deque = [t \in Threads |-> <<>>]
  /\ at = [t \in Threads |-> "out"]
  /\ now = [t \in Threads |-> 0]
  /\ ts = [t \in Threads |-> NoDeque]
  /\ calls = 0 /\ passed = <<>> /\ raced = FALSE

Tick ==
  /\ clock < MaxTime
  /\ clock' = clock + 1
  /\ UNCHANGED <<store, deque, at, now, ts, calls, passed, raced>>

Goto(t, place) == at' = [at EXCEPT ![t] = place]

Enter(t) ==
  /\ at[t] = "out"
  /\ calls < MaxCalls
  /\ calls' = calls + 1
  /\ now' = [now EXCEPT ![t] = clock]
  /\ Goto(t, IF store = NoDeque THEN "create" ELSE "fetch")
  /\ raced' = (raced \/ Inside # {})
  /\ UNCHANGED <<clock, store, deque, ts, passed>>

\* An empty deque takes the place of the one another thread may have stored.
Create(t) ==
  /\ at[t] = "create"
  /\ store' = t
  /\ deque' = [deque EXCEPT ![t] = <<>>]
  /\ Goto(t, "fetch")
  /\ UNCHANGED <<clock, now, ts, calls, passed, raced>>

Fetch(t) ==
  /\ at[t] = "fetch"
  /\ ts' = [ts EXCEPT ![t] = store]
  /\ Goto(t, "purge")
  /\ UNCHANGED <<clock, store, deque, now, calls, passed, raced>>

\* Faulty variant of Stale: a request is forgotten when the window is over to
\* the second.
StaleEarly(t, time) == time <= now[t] - Window

\* Faulty variant of Stale: it is remembered for longer than the window.
StaleLate(t, time) == time < now[t] - Window - 1

Stale(t, time) == time < now[t] - Window

Times(t) == deque[ts[t]]

Purge(t) ==
  /\ at[t] = "purge"
  /\ Goto(t, IF Times(t) # <<>> /\ Stale(t, Head(Times(t))) THEN "pop" ELSE "check")
  /\ UNCHANGED <<clock, store, deque, now, ts, calls, passed, raced>>

\* popleft takes what is first by now; with nothing left it raises, and the
\* endpoint answers 500.
Pop(t) ==
  /\ at[t] = "pop"
  /\ IF Times(t) = <<>>
     THEN /\ Goto(t, "out")
          /\ UNCHANGED deque
     ELSE /\ deque' = [deque EXCEPT ![ts[t]] = Tail(@)]
          /\ Goto(t, "purge")
  /\ UNCHANGED <<clock, store, now, ts, calls, passed, raced>>

Check(t) ==
  /\ at[t] = "check"
  /\ Goto(t, IF Len(Times(t)) >= MaxReq THEN "out" ELSE "append")
  /\ UNCHANGED <<clock, store, deque, now, ts, calls, passed, raced>>

Let(t) ==
  /\ at[t] = "append"
  /\ deque' = [deque EXCEPT ![ts[t]] = Append(@, now[t])]
  /\ passed' = Append(passed, now[t])
  /\ Goto(t, "out")
  /\ UNCHANGED <<clock, store, now, ts, calls, raced>>

Next ==
  \/ Tick
  \/ \E t \in Threads :
       \/ Enter(t) \/ Create(t) \/ Fetch(t) \/ Purge(t) \/ Pop(t) \/ Check(t)
       \/ Let(t)

Spec == Init /\ [][Next]_vars

-----------------------------------------------------------------------------
(* Properties.                                                             *)

LetThrough(from, to) == {i \in DOMAIN passed : passed[i] \in from .. to}

\* As long as requests come one at a time, no window of time lets through more
\* than the limit.  Requests at the same time are all let through, and each that
\* comes with the very first puts an empty deque in the place of the one in the
\* store: while nothing is stale the limit then holds for each worker thread
\* rather than for the client, and the n-th deque lets through n - 1 more.
LimitHolds ==
  IF raced
  THEN LET n == Cardinality(Threads) IN
       clock <= Window => Len(passed) <= n * MaxReq + (n * (n - 1)) \div 2
  ELSE \A from \in 0 .. clock :
         Cardinality(LetThrough(from, from + Window)) <= MaxReq

\* As long as requests come one at a time, one is refused only when the limit
\* was used up in the window before it.
RefusedOnlyIfFull ==
  [][\A t \in Threads :
       at[t] = "check" /\ at'[t] = "out" /\ ~raced
         => Cardinality(LetThrough(now[t] - Window, now[t])) >= MaxReq]_vars
=============================================================================
