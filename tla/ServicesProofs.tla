---------------------------- MODULE ServicesProofs ----------------------------
(***************************************************************************)
(* Proofs about the three components of Services: the circuit breaker (B), *)
(* for any threads, threshold and timeouts; the connection pool (P), for   *)
(* any workers and any number of connections; and the advisor's race, for  *)
(* any roster of models, waves of any size and streams of any length.      *)
(***************************************************************************)
EXTENDS Services, FiniteSetTheorems, SequenceTheorems, WellFoundedInduction, TLAPS

\* The constants of the breaker.
LEMMA BreakerFacts ==
  /\ Loop \in Callers
  /\ FailureThreshold \in Nat \ {0}
  /\ MaxAttempts \in Nat \ {0}
  /\ RecoveryTimeout \in Nat \ {0}
BY ServicesAssumption DEF B!BreakerAssumption

\* The constants of the pool.
LEMMA PoolFacts == Hook \notin Workers /\ Pool \in Nat \ {0} /\ MaxRequests \in Nat
BY ServicesAssumption DEF P!PoolAssumption

-----------------------------------------------------------------------------
(* The circuit breaker.                                                    *)

\* A thread inside record_failure stands for an opening not yet written.  The
\* agreement of state and count is inductive with the types.
BreakerInv == B!TypeOK /\ B!OpensAtThreshold

\* The callers' places are distinct strings.
LEMMA PlacesApart ==
  /\ B!Failing \subseteq B!Places /\ B!Counted \subseteq B!Places
  /\ {"idle", "calling", "due", "sent", "waiting"} \subseteq B!Places
  /\ B!Counted \cap {"idle", "calling", "due", "sent", "waiting"} = {}
  /\ B!Counted \cap B!Failing = {}
BY DEF B!Places, B!Failing, B!Counted

\* The initial states satisfy the invariant of the breaker.
LEMMA BreakerInvInit == B!Init => BreakerInv
BY BreakerFacts DEF B!Init, BreakerInv, B!TypeOK, B!OpensAtThreshold, B!Places

\* Every step of a caller moves it, and at most counts an attempt.
Moves(c) ==
  /\ pc' \in [Callers -> B!Places]
  /\ attempt' \in [Callers -> 1 .. MaxAttempts]
  /\ \A d \in Callers \ {c} : pc'[d] = pc[d]

\* What is left alone when a call moves on,
LEMMA GotoMoves ==
  ASSUME BreakerInv, NEW c \in Callers, NEW place \in B!Places, B!Goto(c, place)
  PROVE  Moves(c) /\ pc'[c] = place
BY DEF BreakerInv, B!TypeOK, B!Goto, Moves

\* when it asks Asaas,
LEMMA RequestMoves ==
  ASSUME BreakerInv, NEW c \in Callers, B!Request(c)
  PROVE  Moves(c)
BY GotoMoves, PlacesApart DEF B!Request

\* and when it tries again.
LEMMA RetryMoves ==
  ASSUME BreakerInv, NEW c \in Callers, B!Retry(c) \/ B!End(c)
  PROVE  Moves(c)
BY BreakerFacts DEF BreakerInv, B!TypeOK, B!Retry, B!End, Moves, B!Places

\* A caller that is not inside record_failure may move as it likes.
LEMMA OthersCount ==
  ASSUME BreakerInv, NEW c \in Callers, pc[c] \notin B!Counted, Moves(c)
  PROVE  (\E d \in Callers : pc[d] \in B!Counted)
           => (\E d \in Callers : pc'[d] \in B!Counted)
BY DEF Moves

\* Every step of a call preserves the invariant.
LEMMA BreakerInvStep == BreakerInv /\ [B!Next]_breaker => BreakerInv'
<1> SUFFICES ASSUME BreakerInv, [B!Next]_breaker PROVE BreakerInv'
  OBVIOUS
<1> USE BreakerFacts DEF BreakerInv
<1>1. CASE UNCHANGED breaker
  BY <1>1 DEF breaker, B!TypeOK, B!OpensAtThreshold
<1>2. CASE B!Tick
  BY <1>2 DEF B!Tick, B!TypeOK, B!OpensAtThreshold
<1>3. CASE B!Outage
  BY <1>3 DEF B!Outage, B!breaker, B!TypeOK, B!OpensAtThreshold
<1>4. ASSUME NEW c \in Callers, B!Start(c) PROVE BreakerInv'
  <2>1. Moves(c)
    BY <1>4, PlacesApart DEF B!Start, B!TypeOK, Moves
  <2>2. QED
    BY <1>4, <2>1, OthersCount, PlacesApart
       DEF B!Start, B!breaker, Moves, B!TypeOK, B!OpensAtThreshold
<1>5. ASSUME NEW c \in Callers, B!Send(c) PROVE BreakerInv'
  BY <1>5, RequestMoves, OthersCount, PlacesApart
     DEF B!Send, B!breaker, Moves, B!TypeOK, B!OpensAtThreshold
<1>6. ASSUME NEW c \in Callers, B!FindDue(c) PROVE BreakerInv'
  BY <1>6, GotoMoves, OthersCount, PlacesApart
     DEF B!FindDue, B!breaker, Moves, B!TypeOK, B!OpensAtThreshold
<1>7. ASSUME NEW c \in Callers, B!Probe(c) PROVE BreakerInv'
  BY <1>7, RequestMoves DEF B!Probe, B!half_open, Moves, B!TypeOK, B!OpensAtThreshold
<1>8. ASSUME NEW c \in Callers, B!ProbeTooLate(c) PROVE BreakerInv'
  <2>1. Moves(c)
    BY <1>8, RequestMoves, RetryMoves DEF B!ProbeTooLate
  <2>2. QED
    BY <1>8, <2>1, OthersCount, PlacesApart
       DEF B!ProbeTooLate, B!breaker, Moves, B!TypeOK, B!OpensAtThreshold
<1>9. ASSUME NEW c \in Callers, B!Reject(c) PROVE BreakerInv'
  BY <1>9, RetryMoves, OthersCount, PlacesApart
     DEF B!Reject, B!breaker, Moves, B!TypeOK, B!OpensAtThreshold
<1>10. ASSUME NEW c \in Callers, B!Succeed(c) PROVE BreakerInv'
  <2>1. Moves(c)
    BY <1>10, GotoMoves, PlacesApart DEF B!Succeed, B!Failing
  <2>2. QED
    BY <1>10, <2>1 DEF B!Succeed, B!record_success, Moves, B!TypeOK, B!OpensAtThreshold
<1>11. ASSUME NEW c \in Callers, B!Refused(c) PROVE BreakerInv'
  BY <1>11, RetryMoves, OthersCount, PlacesApart
     DEF B!Refused, B!breaker, Moves, B!TypeOK, B!OpensAtThreshold
<1>12. ASSUME NEW c \in Callers, B!CountFailure(c) PROVE BreakerInv'
  <2>1. Moves(c) /\ pc'[c] \in B!Counted
    BY <1>12, GotoMoves DEF B!CountFailure, B!Counted, B!Places
  <2>2. QED
    BY <1>12, <2>1 DEF B!CountFailure, B!count_failure, Moves, B!TypeOK, B!OpensAtThreshold
<1>13. ASSUME NEW c \in Callers, B!JudgeFailure(c) PROVE BreakerInv'
  <2>1. Moves(c)
    BY <1>13, RetryMoves DEF B!JudgeFailure
  <2>2. QED
    BY <1>13, <2>1 DEF B!JudgeFailure, B!judge_failure, Moves, B!TypeOK, B!OpensAtThreshold
<1>14. ASSUME NEW c \in Callers, B!Wake(c) PROVE BreakerInv'
  <2>1. Moves(c)
    BY <1>14, PlacesApart DEF B!Wake, B!TypeOK, Moves
  <2>2. QED
    BY <1>14, <2>1, OthersCount, PlacesApart
       DEF B!Wake, B!breaker, Moves, B!TypeOK, B!OpensAtThreshold
<1>15. QED
  BY <1>1, <1>2, <1>3, <1>4, <1>5, <1>6, <1>7, <1>8, <1>9, <1>10, <1>11, <1>12,
     <1>13, <1>14 DEF B!Next, B!Continue

\* So it holds of every behaviour.
LEMMA BreakerInvAlways == B!Spec => []BreakerInv
<1>1. BreakerInv /\ [B!Next]_(B!vars) => BreakerInv'
  BY BreakerInvStep DEF breaker, B!vars, B!breaker
<1>2. QED
  BY BreakerInvInit, <1>1, PTL DEF B!Spec

\* The breaker's variables and those of its callers keep their types, whatever
\* answers arrive in whatever order.
THEOREM BreakerTypeCorrect == B!Spec => []B!TypeOK
<1>1. BreakerInv => B!TypeOK
  BY DEF BreakerInv
<1>2. QED
  BY BreakerInvAlways, <1>1, PTL

\* However threads interleave inside the breaker, it is open only with the
\* threshold counted, and no opening is lost to a late answer.
THEOREM StateAgreesWithCount == B!Spec => []OpensAtThreshold
<1>1. BreakerInv => OpensAtThreshold
  BY DEF BreakerInv, OpensAtThreshold
<1>2. QED
  BY BreakerInvAlways, <1>1, PTL

-----------------------------------------------------------------------------
(* The connection pool.                                                    *)

\* The cardinality of the instance is that of the library.
LEMMA CountsAlike == \A S : P!Cardinality(S) = Cardinality(S)
BY DEF P!Cardinality, Cardinality


\* That a session which waits or is idle holds no connection, and that a session
\* takes one only when one is free, keeps the pool within its size.
Holders ==
  \A s \in holds : session[s] \in {"working", "answered", "closing"}

PoolInv == P!TypeOK /\ IsFiniteSet(holds) /\ Holders

\* The initial states satisfy the invariant of the pool.
LEMMA PoolInvInit == P!Init => PoolInv
<1> SUFFICES ASSUME P!Init PROVE PoolInv
  OBVIOUS
<1>1. IsFiniteSet(holds) /\ Cardinality(holds) = 0
  BY FS_EmptySet DEF P!Init
<1>2. QED
  BY <1>1, PoolFacts, CountsAlike DEF P!Init, PoolInv, P!TypeOK, Holders

\* Every step of a session preserves it.
LEMMA PoolInvStep == PoolInv /\ [P!Next]_pool => PoolInv'
<1> SUFFICES ASSUME PoolInv, [P!Next]_pool PROVE PoolInv'
  OBVIOUS
<1> USE PoolFacts, CountsAlike DEF PoolInv, Holders
<1>0. Cardinality(holds) \in Nat
  BY FS_CardinalityType
<1>1. CASE UNCHANGED pool
  BY <1>1 DEF pool, P!TypeOK
<1>2. CASE P!Deliver
  <2>1. Hook \in P!Sessions /\ Hook \notin holds
    BY <1>2 DEF P!Deliver, P!Sessions
  <2>2. QED
    BY <1>2, <2>1 DEF P!Deliver, P!Becomes, P!TypeOK
<1>3. ASSUME NEW w \in Workers, P!Arrive(w) PROVE PoolInv'
  <2>1. w \in P!Sessions /\ w \notin holds
    BY <1>3 DEF P!Arrive, P!Sessions
  <2>2. QED
    BY <1>3, <2>1 DEF P!Arrive, P!Becomes, P!TypeOK
<1>4. ASSUME NEW s \in P!Sessions, P!Take(s) PROVE PoolInv'
  <2>1. s \notin holds
    BY <1>4 DEF P!Take
  <2>2. IsFiniteSet(holds') /\ Cardinality(holds') = Cardinality(holds) + 1
    BY <1>4, <2>1, FS_AddElement DEF P!Take
  <2>3. Cardinality(holds') <= Pool
    BY <1>0, <1>4, <2>2 DEF P!Take, P!Free
  <2>4. QED
    BY <1>4, <2>1, <2>2, <2>3 DEF P!Take, P!Becomes, P!TypeOK
<1>5. ASSUME NEW s \in P!Sessions, P!GiveUp(s) PROVE PoolInv'
  BY <1>5 DEF P!GiveUp, P!TimedOut, P!Answered500, P!Becomes, P!TypeOK
<1>6. ASSUME NEW s \in P!Sessions, holds' = holds \ {s}
      PROVE  IsFiniteSet(holds') /\ Cardinality(holds') <= Pool
  <2>1. IsFiniteSet(holds') /\ Cardinality(holds') <= Cardinality(holds)
    BY <1>6, FS_Subset
  <2>2. Cardinality(holds') \in Nat
    BY <2>1, FS_CardinalityType
  <2>3. QED
    BY <1>0, <2>1, <2>2 DEF P!TypeOK
<1>7. ASSUME NEW s \in P!Sessions, P!CommitAndGoOn(s) PROVE PoolInv'
  BY <1>6, <1>7 DEF P!CommitAndGoOn, P!Becomes, P!TypeOK
<1>8. ASSUME NEW s \in P!Sessions, P!Respond(s) PROVE PoolInv'
  BY <1>8 DEF P!Respond, P!Becomes, P!TypeOK
<1>9. ASSUME NEW s \in P!Sessions, P!LeaveDependency(s) PROVE PoolInv'
  BY <1>9 DEF P!LeaveDependency, P!Becomes, P!TypeOK
<1>10. ASSUME NEW s \in P!Sessions, P!Close(s) PROVE PoolInv'
  BY <1>6, <1>10 DEF P!Close, P!CloseSession, P!Becomes, P!TypeOK
<1>11. QED
  BY <1>1, <1>2, <1>3, <1>4, <1>5, <1>7, <1>8, <1>9, <1>10
     DEF P!Next, P!Serve, P!Finish

\* So it holds of every behaviour.
LEMMA PoolInvAlways == P!Spec => []PoolInv
<1>1. PoolInv /\ [P!Next]_(P!vars) => PoolInv'
  BY PoolInvStep DEF pool, P!vars
<1>2. QED
  BY PoolInvInit, <1>1, PTL DEF P!Spec

\* The pool's variables keep their types: however many sessions there are and
\* however their requests end, it never gives out more connections than it has.
THEOREM PoolTypeCorrect == P!Spec => []P!TypeOK
<1>1. PoolInv => P!TypeOK
  BY DEF PoolInv
<1>2. QED
  BY PoolInvAlways, <1>1, PTL

-----------------------------------------------------------------------------
(* The race of the advisor: types.                                         *)

\* The smaller of two numbers is one of them.
LEMMA LeastOfTwo ==
  ASSUME NEW x \in Nat, NEW y \in Nat
  PROVE  /\ Min({x, y}) \in {x, y}
         /\ Min({x, y}) <= x /\ Min({x, y}) <= y
<1> DEFINE S == {x, y}
<1>1. \E z \in S : \A u \in S : z =< u
  <2>1. CASE x <= y
    BY <2>1
  <2>2. CASE ~(x <= y)
    BY <2>2
  <2>3. QED
    BY <2>1, <2>2
<1>2. Min(S) \in S /\ \A u \in S : Min(S) =< u
  BY <1>1 DEF Min
<1>3. QED
  BY <1>2

\* A nonempty set of naturals has a least member.
LEMMA LeastIsMember ==
  ASSUME NEW S \in SUBSET Nat, S # {}
  PROVE  Min(S) \in S
<1>1. PICK x \in S : \A y \in S : ~(<<y, x>> \in OpToRel(<, Nat))
  BY NatLessThanWellFounded, WFMin
<1>2. ASSUME NEW y \in S PROVE x =< y
  <2>1. ~(<<y, x>> \in {ss \in Nat \X Nat : ss[1] < ss[2]})
    BY <1>1 DEF OpToRel
  <2>2. QED
    BY <2>1
<1>3. QED
  BY <1>2 DEF Min

\* What is put behind a sequence.
LEMMA Behind ==
  ASSUME NEW S, NEW s \in Seq(S), NEW t \in Seq(S)
  PROVE  /\ Len(s \o t) = Len(s) + Len(t)
         /\ \A i \in 1 .. Len(s) : (s \o t)[i] = s[i]
         /\ \A i \in 1 .. Len(t) : (s \o t)[Len(s) + i] = t[i]
<1>1. Len(s) \in Nat /\ Len(t) \in Nat
  OBVIOUS
<1>2. ASSUME NEW i \in 1 .. Len(s) PROVE (s \o t)[i] = s[i]
  BY <1>1, ConcatProperties
<1>3. ASSUME NEW i \in 1 .. Len(t) PROVE (s \o t)[Len(s) + i] = t[i]
  <2>1. Len(s) + i \in 1 .. Len(s) + Len(t) /\ ~(Len(s) + i <= Len(s))
        /\ (Len(s) + i) - Len(s) = i
    BY <1>1
  <2>2. QED
    BY <2>1, ConcatProperties
<1>4. QED
  BY <1>2, <1>3, ConcatProperties

\* The constants of the race.
LEMMA RosterFacts ==
  /\ Len(Roster) \in Nat
  /\ \A i \in 1 .. Len(Roster) : Roster[i] \in Models
  /\ \A i, j \in 1 .. Len(Roster) : Roster[i] = Roster[j] => i = j
  /\ RacePool \in Nat \ {0} /\ NoModel \notin Models /\ MaxChunks \in Nat
BY RaceAssumption

\* The items of an answer are items,
LEMMA ItemTypes ==
  ASSUME TypeOK, NEW m \in Models, NEW kind \in {"token", "done", "error"},
         NEW parts
  PROVE  ItemOf(kind, m, parts) \in Item
<1>1. said[m] + 1 \in Nat
  BY DEF TypeOK
<1>2. parts \cap {"thought", "aside"} \in SUBSET {"thought", "aside"}
  OBVIOUS
<1>3. TokenOf(m, parts) \in Token
  BY <1>1, <1>2 DEF TokenOf, Token
<1>4. QED
  BY <1>3 DEF ItemOf, Item

\* and so are those that end it.
LEMMA EndItemsTypes ==
  ASSUME TypeOK, NEW m \in Models
  PROVE  EndItems(m) \in Seq(Item)
<1>1. ItemOf("done", m, {}) \in Item
  BY ItemTypes
<1>2. ItemOf("token", m, Cleaned(pre[m])) \in Item
  BY ItemTypes
<1>3. Flush(m) \in Seq(Item)
  BY <1>2 DEF Flush
<1>4. QED
  BY <1>1, <1>3, AppendProperties DEF EndItems

-----------------------------------------------------------------------------
(* The race of the advisor: what a parser holds back.                      *)

\* A thought stands behind its "<think>" and before any "</think>", and in the end
\* there is one unless the model still thinks.
Guarded(ps, md) ==
  \A i \in 1 .. Len(ps) : ps[i] = "thought" =>
    /\ \E o \in 1 .. (i - 1) : ps[o] = "open"
    /\ \A j \in 1 .. (i - 1) : ps[j] # "close"
    /\ md = "thinking" \/ \E c \in (i + 1) .. Len(ps) : ps[c] = "close"

\* What the parser holds back of a stream.
Sound(ph, ps, md) ==
  /\ ph = "streaming" => ps = <<>> /\ md = "speaking"
  /\ ph = "buffering" => "open" \notin Range(ps) /\ md # "thinking"
  /\ ph = "thinking" => md # "silent"
  /\ md = "silent" => \A i \in 1 .. Len(ps) : ps[i] = "tag"
  /\ md = "thinking" => "open" \in Range(ps) /\ "close" \notin Range(ps)
  /\ Guarded(ps, md)

StreamInv == \A m \in Models : Sound(phase[m], pre[m], mind[m])

\* What the parser looks at with the next chunk of a model whose mind was md.
LookedAt(qs, md, md2, b) ==
  /\ Guarded(qs, md2)
  /\ md2 = "thinking" => "open" \in Range(qs) /\ "close" \notin Range(qs)
  /\ md2 = "silent" => md = "silent" /\ ~b /\ \A i \in 1 .. Len(qs) : qs[i] = "tag"
  /\ md2 \in {"silent", "thinking", "speaking"}

\* What is behind a place of a sequence.
LEMMA BehindPlace ==
  ASSUME NEW S, NEW s \in Seq(S), NEW i \in 1 .. Len(s)
  PROVE  /\ DOMAIN SubSeq(s, i + 1, Len(s)) = 1 .. (Len(s) - i)
         /\ \A j \in 1 .. (Len(s) - i) : SubSeq(s, i + 1, Len(s))[j] = s[i + j]
<1>1. Len(s) \in Nat /\ i \in Nat
  OBVIOUS
<1>2. SubSeq(s, i + 1, Len(s)) = [j \in 1 .. (Len(s) - i) |-> s[i + j]]
  <2>1. SubSeq(s, i + 1, Len(s)) = [j \in 1 .. (1 + Len(s) - (i + 1)) |-> s[(i + 1) + j - 1]]
    OBVIOUS
  <2>2. 1 + Len(s) - (i + 1) = Len(s) - i
    BY <1>1
  <2>3. \A j \in 1 .. (Len(s) - i) : (i + 1) + j - 1 = i + j
    BY <1>1
  <2>4. QED
    BY <2>1, <2>2, <2>3
<1>3. QED
  BY <1>2

\* A model that speaks does not think again in its first block.
LEMMA SpeakersSpeak ==
  ASSUME NEW c \in Seq(Parts), NEW b \in BOOLEAN, WellFormed(<<"text">> \o c)
  PROVE  "thought" \notin Range(c) /\ MindAfter(<<"text">> \o c, b) = "speaking"
<1> DEFINE s == <<"text">> \o c
<1>1. s \in Seq(Parts) /\ <<"text">> \in Seq(Parts) /\ Len(<<"text">>) = 1
  BY ConcatProperties DEF Parts
<1>2. /\ Len(s) = 1 + Len(c) /\ s[1] = "text" /\ \A i \in 1 .. Len(c) : s[1 + i] = c[i]
  BY <1>1, Behind
<1>3. Len(c) \in Nat /\ DOMAIN c = 1 .. Len(c) /\ DOMAIN s = 1 .. Len(s)
  BY <1>1
<1> HIDE DEF s
<1>4. ASSUME NEW i PROVE ~Thinks(s, i)
  <2>1. ASSUME NEW o \in DOMAIN s, s[o] = "open", \A j \in 1 .. (o - 1) : s[j] = "tag"
        PROVE  FALSE
    <3>1. o # 1
      BY <1>2, <2>1
    <3>2. 1 \in 1 .. (o - 1)
      BY <1>2, <1>3, <3>1
    <3>3. QED
      BY <1>2, <2>1, <3>2
  <2>2. QED
    BY <2>1 DEF Thinks
<1>5. ASSUME NEW i \in 1 .. Len(c) PROVE c[i] # "thought"
  <2>1. 1 + i \in DOMAIN s /\ s[1 + i] = c[i]
    BY <1>2, <1>3
  <2>2. QED
    BY <1>4, <2>1 DEF WellFormed, s
<1>6. \E i \in DOMAIN s : s[i] # "tag"
  BY <1>2, <1>3
<1>7. MindAfter(s, b) = "speaking"
  BY <1>4, <1>6 DEF MindAfter
<1>8. QED
  BY <1>3, <1>5, <1>7 DEF Range, s

\* A chunk of a stream that is still looked through leaves the thoughts in what
\* is held back between "<think>" and "</think>".
LEMMA ChunkSound ==
  ASSUME NEW ph \in {"buffering", "thinking"}, NEW md \in {"silent", "thinking", "speaking"},
         NEW ps \in Seq(Parts), NEW c \in Seq(Parts), NEW b \in BOOLEAN,
         Sound(ph, ps, md), WellFormed(Context[md] \o c)
  PROVE  LookedAt(ps \o c, md, MindAfter(Context[md] \o c, b), b)
<1> DEFINE k == IF md = "silent" THEN 0 ELSE 1
           s == Context[md] \o c
           qs == ps \o c
           md2 == MindAfter(s, b)
<1>1. /\ Context[md] \in Seq(Parts) /\ Len(Context[md]) = k
      /\ md = "thinking" => Context[md][1] = "open"
      /\ md = "speaking" => Context[md] = <<"text">>
  <2>1. Context[md] = IF md = "silent" THEN <<>> ELSE IF md = "thinking" THEN <<"open">>
                      ELSE <<"text">>
    BY DEF Context
  <2>2. \A p \in Parts : <<p>> \in Seq(Parts) /\ Len(<<p>>) = 1 /\ <<p>>[1] = p
    OBVIOUS
  <2>3. "open" \in Parts /\ "text" \in Parts
    BY DEF Parts
  <2>4. QED
    BY <2>1, <2>2, <2>3, EmptySeq DEF k
<1>2. /\ s \in Seq(Parts) /\ qs \in Seq(Parts)
      /\ Len(s) = k + Len(c) /\ Len(qs) = Len(ps) + Len(c)
      /\ \A i \in 1 .. Len(c) : s[k + i] = c[i] /\ qs[Len(ps) + i] = c[i]
      /\ \A i \in 1 .. Len(ps) : qs[i] = ps[i]
      /\ md = "thinking" => s[1] = "open"
  <2>1. s \in Seq(Parts) /\ qs \in Seq(Parts)
    BY <1>1, ConcatProperties
  <2>2. /\ Len(qs) = Len(ps) + Len(c)
        /\ \A i \in 1 .. Len(c) : qs[Len(ps) + i] = c[i]
        /\ \A i \in 1 .. Len(ps) : qs[i] = ps[i]
    BY Behind
  <2>3. /\ Len(s) = k + Len(c) /\ \A i \in 1 .. Len(c) : s[k + i] = c[i]
        /\ \A i \in 1 .. Len(Context[md]) : s[i] = Context[md][i]
    <3>1. /\ Len(s) = Len(Context[md]) + Len(c)
          /\ \A i \in 1 .. Len(c) : s[Len(Context[md]) + i] = c[i]
          /\ \A i \in 1 .. Len(Context[md]) : s[i] = Context[md][i]
      <4> DEFINE x == Context[md]
      <4>1. x \in Seq(Parts)
        BY <1>1
      <4> HIDE DEF x, k
      <4>2. /\ Len(x \o c) = Len(x) + Len(c)
            /\ \A i \in 1 .. Len(x) : (x \o c)[i] = x[i]
            /\ \A i \in 1 .. Len(c) : (x \o c)[Len(x) + i] = c[i]
        BY <4>1, Behind
      <4>3. QED
        BY <4>2 DEF x
    <3>2. QED
      BY <1>1, <3>1
  <2>4. md = "thinking" => s[1] = "open"
    <3>1. md = "thinking" => 1 \in 1 .. Len(Context[md])
      BY <1>1
    <3>2. QED
      BY <1>1, <2>3, <3>1
  <2> HIDE DEF k, s, qs
  <2>5. QED
    BY <2>1, <2>2, <2>3, <2>4
<1>3. /\ Len(c) \in Nat /\ Len(ps) \in Nat /\ k \in {0, 1}
      /\ DOMAIN s = 1 .. Len(s) /\ DOMAIN qs = 1 .. Len(qs)
  BY <1>2
<1>4. WellFormed(s)
  OBVIOUS
<1>5. \A i \in 1 .. Len(ps) : ps[i] = "thought" =>
        /\ \E o \in 1 .. (i - 1) : ps[o] = "open"
        /\ \A j \in 1 .. (i - 1) : ps[j] # "close"
        /\ md = "thinking" \/ \E x \in (i + 1) .. Len(ps) : ps[x] = "close"
  BY DEF Sound, Guarded
<1>6. md = "thinking" => /\ \E o \in 1 .. Len(ps) : ps[o] = "open"
                         /\ \A j \in 1 .. Len(ps) : ps[j] # "close"
  BY <1>2 DEF Sound, Range
<1>7. md = "silent" => \A i \in 1 .. Len(ps) : ps[i] = "tag"
  BY DEF Sound
<1> HIDE DEF s, qs, k
\* Where s is within the block, the chunk is behind its beginning.
<1>8. ASSUME NEW i \in 1 .. Len(c) + 1, Thinks(s, k + i)
      PROVE  /\ \E o \in 1 .. (Len(ps) + i - 1) : qs[o] = "open"
             /\ \A j \in 1 .. (Len(ps) + i - 1) : qs[j] # "close"
             /\ md # "speaking"
  <2>1. PICK o \in DOMAIN s :
          /\ o < k + i /\ s[o] = "open"
          /\ \A j \in 1 .. (o - 1) : s[j] = "tag"
          /\ \A j \in (o + 1) .. ((k + i) - 1) : s[j] # "close"
    BY <1>8 DEF Thinks
  <2>2. CASE md = "thinking"
    <3>1. k = 1 /\ s[1] = "open"
      BY <1>2, <2>2 DEF k
    <3>2. o = 1
      <4>1. ~(1 \in 1 .. (o - 1))
        BY <2>1, <3>1
      <4>2. QED
        BY <1>3, <2>1, <4>1
    <3>3. \A j \in 1 .. (i - 1) : c[j] # "close"
      <4>1. ASSUME NEW j \in 1 .. (i - 1) PROVE c[j] # "close"
        <5>1. j \in 1 .. Len(c) /\ 1 + j \in (o + 1) .. ((k + i) - 1)
          BY <1>3, <3>1, <3>2
        <5>2. QED
          BY <1>2, <2>1, <3>1, <5>1
      <4>2. QED
        BY <4>1
    <3>4. ASSUME NEW j \in 1 .. (Len(ps) + i - 1) PROVE qs[j] # "close"
      <4>1. CASE j \in 1 .. Len(ps)
        BY <1>2, <1>6, <2>2, <4>1
      <4>2. CASE j \notin 1 .. Len(ps)
        <5>1. j - Len(ps) \in 1 .. (i - 1) /\ j - Len(ps) \in 1 .. Len(c)
              /\ Len(ps) + (j - Len(ps)) = j
          BY <1>3, <4>2
        <5>2. QED
          BY <1>2, <3>3, <5>1
      <4>3. QED
        BY <4>1, <4>2
    <3>5. PICK x \in 1 .. Len(ps) : ps[x] = "open"
      BY <1>6, <2>2
    <3>6. x \in 1 .. (Len(ps) + i - 1) /\ qs[x] = "open"
      BY <1>2, <1>3, <3>5
    <3>7. QED
      BY <2>2, <3>4, <3>6
  <2>3. CASE md = "silent"
    <3>1. k = 0 /\ o \in 1 .. Len(c) /\ o \in 1 .. (i - 1)
      BY <1>2, <1>3, <2>1, <2>3 DEF k
    <3>2. \A j \in 1 .. Len(c) : s[j] = c[j]
      BY <1>2, <3>1
    <3>3. \A j \in 1 .. (i - 1) : c[j] # "close"
      <4>1. ASSUME NEW j \in 1 .. (i - 1) PROVE c[j] # "close"
        <5>1. j \in 1 .. Len(c) /\ (j \in 1 .. (o - 1) \/ j = o \/ j \in (o + 1) .. ((k + i) - 1))
          BY <1>3, <3>1
        <5>2. QED
          BY <2>1, <3>2, <5>1
      <4>2. QED
        BY <4>1
    <3>4. ASSUME NEW j \in 1 .. (Len(ps) + i - 1) PROVE qs[j] # "close"
      <4>1. CASE j \in 1 .. Len(ps)
        BY <1>2, <1>7, <2>3, <4>1
      <4>2. CASE j \notin 1 .. Len(ps)
        <5>1. j - Len(ps) \in 1 .. (i - 1) /\ j - Len(ps) \in 1 .. Len(c)
              /\ Len(ps) + (j - Len(ps)) = j
          BY <1>3, <4>2
        <5>2. QED
          BY <1>2, <3>3, <5>1
      <4>3. QED
        BY <4>1, <4>2
    <3>5. Len(ps) + o \in 1 .. (Len(ps) + i - 1) /\ qs[Len(ps) + o] = "open"
      BY <1>2, <1>3, <2>1, <3>1, <3>2
    <3>6. QED
      BY <2>3, <3>4, <3>5
  <2>4. CASE md = "speaking"
    <3>1. s[1] = "text" /\ 1 \in DOMAIN s
      <4>1. Len(<<"text">>) = 1 /\ <<"text">>[1] = "text" /\ <<"text">> \in Seq(Parts)
        BY DEF Parts
      <4>2. s = <<"text">> \o c
        BY <1>1, <2>4 DEF s
      <4>3. QED
        BY <1>3, <4>1, <4>2, Behind
    <3>2. o # 1 /\ ~(1 \in 1 .. (o - 1))
      BY <2>1, <3>1
    <3>3. QED
      BY <1>3, <2>1, <3>2
  <2>5. QED
    BY <2>2, <2>3, <2>4
<1>9. \A i \in 1 .. Len(c) : c[i] = "thought" <=> Thinks(s, k + i) /\ c[i] # "close"
  <2>1. ASSUME NEW i \in 1 .. Len(c) PROVE k + i \in DOMAIN s /\ s[k + i] = c[i]
    BY <1>2, <1>3
  <2>2. QED
    BY <1>4, <2>1 DEF WellFormed
<1>10. md2 = "thinking" <=> Thinks(s, k + (Len(c) + 1))
  <2>1. k + (Len(c) + 1) = Len(s) + 1
    BY <1>2, <1>3
  <2>2. QED
    BY <2>1 DEF MindAfter
<1>11. md2 = "thinking" => "open" \in Range(qs) /\ "close" \notin Range(qs)
  <2>1. ASSUME md2 = "thinking"
        PROVE  /\ \E o \in 1 .. Len(qs) : qs[o] = "open"
               /\ \A j \in 1 .. Len(qs) : qs[j] # "close"
    <3>1. Len(c) + 1 \in 1 .. Len(c) + 1 /\ Len(ps) + (Len(c) + 1) - 1 = Len(qs)
      BY <1>2, <1>3
    <3>2. Thinks(s, k + (Len(c) + 1))
      BY <1>10, <2>1
    <3>3. QED
      BY <1>8, <3>1, <3>2
  <2>2. QED
    BY <1>3, <2>1 DEF Range
<1>12. md2 = "silent" => md = "silent" /\ ~b /\ \A i \in 1 .. Len(qs) : qs[i] = "tag"
  <2> SUFFICES ASSUME md2 = "silent"
               PROVE  md = "silent" /\ ~b /\ \A i \in 1 .. Len(qs) : qs[i] = "tag"
    OBVIOUS
  <2>1. ~b /\ \A i \in DOMAIN s : s[i] = "tag"
    BY DEF MindAfter
  <2>2. md = "silent"
    <3>1. md # "silent" => s[1] \in {"open", "text"} /\ 1 \in DOMAIN s
      <4>1. \A i \in 1 .. Len(Context[md]) : s[i] = Context[md][i]
        BY <1>1, Behind DEF s
      <4>2. md # "silent" => 1 \in 1 .. Len(Context[md]) /\ Context[md][1] \in {"open", "text"}
        BY <1>1 DEF k, Context
      <4>3. md # "silent" => k = 1
        BY DEF k
      <4>4. QED
        BY <1>2, <1>3, <4>1, <4>2, <4>3
    <3>2. QED
      BY <2>1, <3>1
  <2>3. k = 0
    BY <2>2 DEF k
  <2>4. ASSUME NEW i \in 1 .. Len(qs) PROVE qs[i] = "tag"
    <3>1. CASE i \in 1 .. Len(ps)
      BY <1>2, <1>7, <2>2, <3>1
    <3>2. CASE i \notin 1 .. Len(ps)
      <4>1. i - Len(ps) \in 1 .. Len(c) /\ Len(ps) + (i - Len(ps)) = i
            /\ k + (i - Len(ps)) \in DOMAIN s
        BY <1>2, <1>3, <2>3, <3>2
      <4>2. QED
        BY <1>2, <2>1, <4>1
    <3>3. QED
      BY <3>1, <3>2
  <2>5. QED
    BY <2>1, <2>2, <2>4
<1>13. ASSUME NEW i \in 1 .. Len(qs), qs[i] = "thought"
       PROVE  /\ \E o \in 1 .. (i - 1) : qs[o] = "open"
              /\ \A j \in 1 .. (i - 1) : qs[j] # "close"
              /\ md2 = "thinking" \/ \E x \in (i + 1) .. Len(qs) : qs[x] = "close"
  \* When the model goes on thinking through all of what it now says, md2 says so.
  <2>1. ASSUME NEW a \in 0 .. Len(c), Thinks(s, k + (a + 1)), a = 0 \/ c[a] # "close",
               \A j \in (a + 1) .. Len(c) : c[j] # "close"
        PROVE  md2 = "thinking"
    <3>1. PICK o \in DOMAIN s :
            /\ o < k + (a + 1) /\ s[o] = "open"
            /\ \A j \in 1 .. (o - 1) : s[j] = "tag"
            /\ \A j \in (o + 1) .. ((k + (a + 1)) - 1) : s[j] # "close"
      BY <2>1 DEF Thinks
    <3>2. ASSUME NEW j \in (o + 1) .. ((k + (Len(c) + 1)) - 1) PROVE s[j] # "close"
      <4>1. CASE j \in (o + 1) .. ((k + (a + 1)) - 1)
        BY <3>1, <4>1
      <4>2. CASE j \notin (o + 1) .. ((k + (a + 1)) - 1)
        <5>1. j - k \in (a + 1) .. Len(c) /\ j - k \in 1 .. Len(c) /\ k + (j - k) = j
          BY <1>2, <1>3, <4>2
        <5>2. QED
          BY <1>2, <2>1, <5>1
      <4>3. QED
        BY <4>1, <4>2
    <3>3. o < k + (Len(c) + 1)
      BY <1>2, <1>3, <3>1
    <3>4. QED
      BY <1>10, <3>1, <3>2, <3>3 DEF Thinks
  <2>2. CASE i \in 1 .. Len(ps)
    <3>1. ps[i] = "thought" /\ \A j \in 1 .. i : j \in 1 .. Len(ps)
      BY <1>2, <1>3, <1>13, <2>2
    <3>2. /\ \E o \in 1 .. (i - 1) : qs[o] = "open"
          /\ \A j \in 1 .. (i - 1) : qs[j] # "close"
      <4>1. \A j \in 1 .. (i - 1) : j \in 1 .. Len(ps) /\ qs[j] = ps[j]
        BY <1>2, <1>3, <2>2
      <4>2. /\ \E o \in 1 .. (i - 1) : ps[o] = "open"
            /\ \A j \in 1 .. (i - 1) : ps[j] # "close"
        BY <1>5, <2>2, <3>1
      <4>3. QED
        BY <4>1, <4>2
    <3>3. CASE \E x \in (i + 1) .. Len(ps) : ps[x] = "close"
      <4>1. PICK x \in (i + 1) .. Len(ps) : ps[x] = "close"
        BY <3>3
      <4>2. x \in (i + 1) .. Len(qs) /\ qs[x] = "close"
        BY <1>2, <1>3, <2>2, <4>1
      <4>3. QED
        BY <3>2, <4>2
    <3>4. CASE md = "thinking"
      <4>1. CASE \E j \in 1 .. Len(c) : c[j] = "close"
        <5>1. PICK j \in 1 .. Len(c) : c[j] = "close"
          BY <4>1
        <5>2. Len(ps) + j \in (i + 1) .. Len(qs) /\ qs[Len(ps) + j] = "close"
          BY <1>2, <1>3, <2>2, <5>1
        <5>3. QED
          BY <3>2, <5>2
      <4>2. CASE \A j \in 1 .. Len(c) : c[j] # "close"
        <5>1. k = 1 /\ s[1] = "open" /\ 1 \in DOMAIN s
          BY <1>2, <1>3, <3>4 DEF k
        <5>2. Thinks(s, k + (0 + 1))
          BY <5>1 DEF Thinks
        <5>3. md2 = "thinking"
          BY <1>3, <2>1, <4>2, <5>2
        <5>4. QED
          BY <3>2, <5>3
      <4>3. QED
        BY <4>1, <4>2
    <3>5. QED
      BY <1>5, <2>2, <3>1, <3>3, <3>4
  <2>3. CASE i \notin 1 .. Len(ps)
    <3> DEFINE a == i - Len(ps)
    <3>1. a \in 1 .. Len(c) /\ Len(ps) + a = i /\ a \in 1 .. Len(c) + 1 /\ a \in 0 .. Len(c)
      BY <1>2, <1>3, <2>3
    <3> HIDE DEF a
    <3>2. c[a] = "thought" /\ Thinks(s, k + a)
      BY <1>2, <1>9, <1>13, <3>1
    <3>3. /\ \E o \in 1 .. (i - 1) : qs[o] = "open"
          /\ \A j \in 1 .. (i - 1) : qs[j] # "close"
      BY <1>8, <3>1, <3>2
    <3>4. CASE \E j \in (a + 1) .. Len(c) : c[j] = "close"
      <4>1. PICK j \in (a + 1) .. Len(c) : c[j] = "close"
        BY <3>4
      <4>2. j \in 1 .. Len(c) /\ Len(ps) + j \in (i + 1) .. Len(qs)
        BY <1>2, <1>3, <3>1
      <4>3. qs[Len(ps) + j] = "close"
        BY <1>2, <4>1, <4>2
      <4>4. QED
        BY <3>3, <4>2, <4>3
    <3>5. CASE \A j \in (a + 1) .. Len(c) : c[j] # "close"
      <4>1. PICK o \in DOMAIN s :
              /\ o < k + a /\ s[o] = "open"
              /\ \A j \in 1 .. (o - 1) : s[j] = "tag"
              /\ \A j \in (o + 1) .. ((k + a) - 1) : s[j] # "close"
        BY <3>2 DEF Thinks
      <4>2. s[k + a] # "close"
        BY <1>2, <3>1, <3>2
      <4>3. \A j \in (o + 1) .. ((k + (a + 1)) - 1) : j \in (o + 1) .. ((k + a) - 1) \/ j = k + a
        BY <1>2, <1>3, <3>1, <4>1
      <4>4. o < k + (a + 1)
        BY <1>2, <1>3, <3>1, <4>1
      <4>5. Thinks(s, k + (a + 1))
        BY <4>1, <4>2, <4>3, <4>4 DEF Thinks
      <4>6. QED
        BY <2>1, <3>1, <3>2, <3>3, <3>5, <4>5
    <3>6. QED
      BY <3>4, <3>5
  <2>4. QED
    BY <2>2, <2>3
<1>14. md2 \in {"silent", "thinking", "speaking"}
  BY DEF MindAfter
<1>15. QED
  BY <1>11, <1>12, <1>13, <1>14 DEF LookedAt, Guarded, qs, s

\* The step of a parser: what it holds back stays sound, and what it passes on has
\* no thought of the first block in it.
LEMMA ChunkStep ==
  ASSUME TypeOK, StreamInv, NEW m \in Models, Chunk(m)
  PROVE  /\ StreamInv'
         /\ phase' \in [Models -> {"buffering", "thinking", "streaming"}]
         /\ pre' \in [Models -> Seq(Parts)]
         /\ mind' \in [Models -> {"silent", "thinking", "speaking"}]
         /\ \/ UNCHANGED <<queue, said>>
            \/ \E ps : Put(m, ps) /\ "thought" \notin Range(ps)
<1>1. PICK c \in Chunks :
        /\ WellFormed(Context[mind[m]] \o c)
        /\ \/ phase[m] = "buffering" /\ Buffer(m, pre[m] \o c)
           \/ phase[m] = "thinking" /\ Drop(m, pre[m] \o c)
           \/ phase[m] = "streaming" /\ Put(m, c) /\ UNCHANGED <<phase, pre>>
        /\ mind' = [mind EXCEPT ![m] =
                      MindAfter(Context[@] \o c, phase'[m] = "streaming")]
  BY DEF Chunk
<1> DEFINE qs == pre[m] \o c
           md2 == MindAfter(Context[mind[m]] \o c, phase'[m] = "streaming")
<1>2. /\ c \in Seq(Parts) /\ pre[m] \in Seq(Parts) /\ qs \in Seq(Parts)
      /\ mind[m] \in {"silent", "thinking", "speaking"}
      /\ phase[m] \in {"buffering", "thinking", "streaming"}
      /\ Sound(phase[m], pre[m], mind[m])
  BY RaceAssumption, ConcatProperties DEF TypeOK, StreamInv
<1>3. mind' = [mind EXCEPT ![m] = md2]
  BY <1>1
<1>4. (phase'[m] = "streaming") \in BOOLEAN
  OBVIOUS
<1>5. \A x \in Models \ {m} :
        phase'[x] = phase[x] /\ pre'[x] = pre[x] /\ mind'[x] = mind[x]
  BY <1>1, <1>3 DEF Buffer, Drop, Parser, TypeOK
<1>6. ASSUME phase' \in [Models -> {"buffering", "thinking", "streaming"}],
             pre' \in [Models -> Seq(Parts)],
             md2 \in {"silent", "thinking", "speaking"},
             Sound(phase'[m], pre'[m], md2),
             \/ UNCHANGED <<queue, said>>
             \/ \E ps : Put(m, ps) /\ "thought" \notin Range(ps)
      PROVE  /\ StreamInv'
             /\ phase' \in [Models -> {"buffering", "thinking", "streaming"}]
             /\ pre' \in [Models -> Seq(Parts)]
             /\ mind' \in [Models -> {"silent", "thinking", "speaking"}]
             /\ \/ UNCHANGED <<queue, said>>
                \/ \E ps : Put(m, ps) /\ "thought" \notin Range(ps)
  <2> HIDE DEF md2
  <2>1. mind'[m] = md2 /\ mind' \in [Models -> {"silent", "thinking", "speaking"}]
    BY <1>3, <1>6 DEF TypeOK
  <2>2. StreamInv'
    BY <1>5, <1>6, <2>1 DEF StreamInv
  <2>3. QED
    BY <1>6, <2>1, <2>2
<1>7. CASE phase[m] = "streaming"
  <2>1. mind[m] = "speaking" /\ Context[mind[m]] = <<"text">>
    BY <1>2, <1>7 DEF Sound, Context
  <2>2. "thought" \notin Range(c) /\ md2 = "speaking"
    BY <1>1, <1>2, <1>4, <2>1, SpeakersSpeak
  <2>3. Put(m, c) /\ phase' = phase /\ pre' = pre
    BY <1>1, <1>7
  <2>4. Sound(phase'[m], pre'[m], md2)
    BY <1>2, <2>1, <2>2, <2>3
  <2> HIDE DEF md2
  <2>5. QED
    BY <1>6, <2>2, <2>3, <2>4 DEF TypeOK
<1>8. CASE phase[m] \in {"buffering", "thinking"}
  <2>1. /\ Guarded(qs, md2)
        /\ md2 = "thinking" => "open" \in Range(qs) /\ "close" \notin Range(qs)
        /\ md2 = "silent" => /\ mind[m] = "silent" /\ phase'[m] # "streaming"
                             /\ \A i \in 1 .. Len(qs) : qs[i] = "tag"
        /\ md2 \in {"silent", "thinking", "speaking"}
    <3>1. WellFormed(Context[mind[m]] \o c)
      BY <1>1
    <3>2. PICK b \in BOOLEAN : b <=> phase'[m] = "streaming"
      OBVIOUS
    <3>3. md2 = MindAfter(Context[mind[m]] \o c, b)
      <4>1. CASE b
        BY <3>2, <4>1 DEF MindAfter
      <4>2. CASE ~b
        BY <3>2, <4>2 DEF MindAfter
      <4>3. QED
        BY <4>1, <4>2
    <3>4. LookedAt(qs, mind[m], MindAfter(Context[mind[m]] \o c, b), b)
      BY <1>2, <1>8, <3>1, ChunkSound
    <3> HIDE DEF qs, md2
    <3>5. QED
      BY <3>2, <3>3, <3>4 DEF LookedAt
  <2>a. DOMAIN qs = 1 .. Len(qs) /\ Len(qs) \in Nat
    BY <1>2
  <2>b. \/ Buffer(m, qs)
        \/ phase[m] = "thinking" /\ Drop(m, qs)
    BY <1>1, <1>8
  <2>c. phase[m] = "thinking" => mind[m] # "silent"
    BY <1>2 DEF Sound
  <2> HIDE DEF qs, md2
  <2>2. ASSUME NEW ph \in {"buffering", "thinking", "streaming"}, NEW hs \in Seq(Parts),
               Parser(m, ph, hs)
        PROVE  /\ phase'[m] = ph /\ pre'[m] = hs
               /\ phase' \in [Models -> {"buffering", "thinking", "streaming"}]
               /\ pre' \in [Models -> Seq(Parts)]
    BY <2>2 DEF Parser, TypeOK
  \* What is held back.
  <2>3. ASSUME NEW ph \in {"buffering", "thinking"}, Parser(m, ph, qs), HoldBack(m, qs),
               ph = "buffering" => "open" \notin Range(qs),
               ph = "thinking" => "open" \in Range(qs) \/ phase[m] = "thinking"
        PROVE  Sound(phase'[m], pre'[m], md2)
    <3>1. phase'[m] = ph /\ pre'[m] = qs
      BY <1>2, <2>2, <2>3 DEF qs
    <3>2. ph = "thinking" => md2 # "silent"
      <4>1. "open" \in Range(qs) => \E i \in 1 .. Len(qs) : qs[i] = "open"
        BY <2>a DEF Range
      <4>2. QED
        BY <2>1, <2>3, <2>c, <4>1
    <3>3. QED
      BY <2>1, <2>3, <3>1, <3>2 DEF Sound
  \* What is passed on.
  <2>4. ASSUME Parser(m, "streaming", <<>>), "open" \notin Range(qs) \/ "close" \in Range(qs)
        PROVE  Sound(phase'[m], pre'[m], md2)
    <3>1. phase'[m] = "streaming" /\ pre'[m] = <<>>
      BY <2>2, <2>4, EmptySeq
    <3>2. md2 = "speaking"
      BY <2>1, <2>4, <3>1
    <3>3. Len(<<>>) = 0
      OBVIOUS
    <3>4. QED
      BY <3>1, <3>2, <3>3 DEF Sound, Guarded
  <2>5. CASE Buffer(m, qs)
    <3>1. CASE "open" \in Range(qs) /\ Parser(m, "thinking", qs) /\ HoldBack(m, qs)
      BY <1>2, <1>6, <2>1, <2>2, <2>3, <3>1 DEF HoldBack, qs
    <3>2. CASE "open" \notin Range(qs) /\ Parser(m, "buffering", qs) /\ HoldBack(m, qs)
      BY <1>2, <1>6, <2>1, <2>2, <2>3, <3>2 DEF HoldBack, qs
    <3>3. CASE "open" \notin Range(qs) /\ Parser(m, "streaming", <<>>) /\ Put(m, qs)
      <4>1. "thought" \notin Range(qs)
        <5>1. ASSUME NEW i \in 1 .. Len(qs), qs[i] = "thought" PROVE FALSE
          <6>1. PICK o \in 1 .. (i - 1) : qs[o] = "open"
            BY <2>1, <5>1 DEF Guarded
          <6>2. o \in DOMAIN qs
            BY <2>a, <6>1
          <6>3. QED
            BY <3>3, <6>1, <6>2 DEF Range
        <5>2. QED
          BY <2>a, <5>1 DEF Range
      <4>2. QED
        BY <1>6, <2>1, <2>2, <2>4, <3>3, <4>1, EmptySeq
    <3>4. QED
      BY <2>5, <3>1, <3>2, <3>3 DEF Buffer
  <2>6. CASE phase[m] = "thinking" /\ Drop(m, qs)
    <3>1. CASE "close" \notin Range(qs) /\ Parser(m, "thinking", qs) /\ HoldBack(m, qs)
      BY <1>2, <1>6, <2>1, <2>2, <2>3, <2>6, <3>1 DEF HoldBack, qs
    <3>2. ASSUME NEW i \in DOMAIN qs, qs[i] = "close", Parser(m, "streaming", <<>>),
                 IF i = Len(qs) THEN UNCHANGED <<queue, said>>
                 ELSE Put(m, SubSeq(qs, i + 1, Len(qs)))
          PROVE  /\ StreamInv'
                 /\ phase' \in [Models -> {"buffering", "thinking", "streaming"}]
                 /\ pre' \in [Models -> Seq(Parts)]
                 /\ mind' \in [Models -> {"silent", "thinking", "speaking"}]
                 /\ \/ UNCHANGED <<queue, said>>
                    \/ \E ps : Put(m, ps) /\ "thought" \notin Range(ps)
      <4>1. "close" \in Range(qs)
        BY <3>2 DEF Range
      <4>2. "thought" \notin Range(SubSeq(qs, i + 1, Len(qs)))
        <5> DEFINE rs == SubSeq(qs, i + 1, Len(qs))
        <5>1. /\ DOMAIN rs = 1 .. (Len(qs) - i)
              /\ \A j \in 1 .. (Len(qs) - i) : rs[j] = qs[i + j]
          BY <1>2, <2>a, <3>2, BehindPlace DEF qs
        <5> HIDE DEF rs
        <5>2. ASSUME NEW j \in 1 .. (Len(qs) - i), rs[j] = "thought" PROVE FALSE
          <6>1. i + j \in 1 .. Len(qs) /\ i \in 1 .. ((i + j) - 1)
            BY <2>a, <3>2
          <6>2. QED
            BY <2>1, <3>2, <5>1, <5>2, <6>1 DEF Guarded
        <5>3. QED
          BY <5>1, <5>2 DEF Range, rs
      <4>3. Sound(phase'[m], pre'[m], md2)
        BY <2>4, <3>2, <4>1
      <4>4. QED
        BY <1>6, <2>1, <2>2, <3>2, <4>2, <4>3, EmptySeq
    <3>3. QED
      BY <2>6, <3>1, <3>2 DEF Drop
  <2>7. QED
    BY <2>5, <2>6, <2>b
<1>9. QED
  BY <1>2, <1>7, <1>8

\* What the flush passes on has a thought of the first block in it only when the
\* model still thinks.
LEMMA FlushHides ==
  ASSUME TypeOK, StreamInv, NEW m \in Models, "thought" \in Cleaned(pre[m])
  PROVE  mind[m] = "thinking"
<1>1. pre[m] \in Seq(Parts) /\ Sound(phase[m], pre[m], mind[m])
  BY DEF TypeOK, StreamInv
<1>2. DOMAIN pre[m] = 1 .. Len(pre[m]) /\ Len(pre[m]) \in Nat
  BY <1>1
<1>3. PICK i \in DOMAIN pre[m] : pre[m][i] = "thought" /\ ~InClosedBlock(pre[m], i)
  BY DEF Cleaned
<1>4. /\ \E o \in 1 .. (i - 1) : pre[m][o] = "open"
      /\ \A j \in 1 .. (i - 1) : pre[m][j] # "close"
      /\ mind[m] = "thinking" \/ \E c \in (i + 1) .. Len(pre[m]) : pre[m][c] = "close"
  BY <1>1, <1>2, <1>3 DEF Sound, Guarded
<1>5. ASSUME NEW c \in (i + 1) .. Len(pre[m]), pre[m][c] = "close" PROVE FALSE
  <2>1. PICK o \in 1 .. (i - 1) : pre[m][o] = "open"
    BY <1>4
  <2>2. /\ o \in DOMAIN pre[m] /\ c \in DOMAIN pre[m] /\ o <= i /\ i <= c
        /\ \A j \in (o + 1) .. (i - 1) : j \in 1 .. (i - 1)
    BY <1>2, <1>3, <1>5, <2>1
  <2>3. InClosedBlock(pre[m], i)
    BY <1>4, <1>5, <2>1, <2>2 DEF InClosedBlock
  <2>4. QED
    BY <1>3, <2>3
<1>6. QED
  BY <1>4, <1>5

\* The initial states have the types of the race.
LEMMA RaceTypesInit == Init => TypeOK
BY RosterFacts DEF Init, TypeOK

\* Every step keeps them.
LEMMA RaceTypesStep == TypeOK /\ StreamInv /\ [Next]_vars => TypeOK'
<1> SUFFICES ASSUME TypeOK, StreamInv, [Next]_vars PROVE TypeOK'
  OBVIOUS
<1> USE RosterFacts
<1>1. CASE UNCHANGED vars
  BY <1>1 DEF vars, TypeOK, stream
<1>2. CASE BudgetEnds
  BY <1>2 DEF BudgetEnds, TypeOK, stream
<1>3. ASSUME NEW ms PROVE Cancel(ms) => probe' \in [Models ->
                 {"none", "open", "ended", "replied", "denied", "cancelled"}]
  BY DEF Cancel, TypeOK
<1>4. CASE NextWave
  <2>1. CASE inBudget /\ tried < Len(Roster)
    <3>1. tried + RacePool \in Nat
      BY DEF TypeOK
    <3>2. Min({tried + RacePool, Len(Roster)}) \in 0 .. Len(Roster)
      <4>1. Min({tried + RacePool, Len(Roster)}) \in {tried + RacePool, Len(Roster)}
        BY <3>1, LeastOfTwo
      <4>2. Min({tried + RacePool, Len(Roster)}) <= Len(Roster)
        BY <3>1, LeastOfTwo
      <4>3. QED
        BY <3>1, <4>1, <4>2
    <3>3. QED
      BY <1>4, <2>1, <3>2 DEF NextWave, FreshQueue, TypeOK, stream
  <2>2. CASE ~(inBudget /\ tried < Len(Roster))
    BY <1>4, <2>2 DEF NextWave, End, TypeOK, stream
  <2>3. QED
    BY <2>1, <2>2
<1>5. CASE Read
  <2>1. Head(queue) \in Item /\ Tail(queue) \in Seq(Item)
    BY <1>5, HeadTailProperties DEF Read, TypeOK
  <2>2. Head(queue).token \in Token /\ Head(queue).token.from \in Models
    BY <2>1 DEF Item, Token
  <2>3. Append(shown, Head(queue).token) \in Seq(Token)
    BY <2>2, AppendProperties DEF TypeOK
  <2>4. reader' \in {"between", "reading", "over"}
        /\ ending' \in {"none", "done", "error", "gone"}
    BY <1>5 DEF Read, LeaveWave, End, TypeOK
  <2>5. probe' \in [Models -> {"none", "open", "ended", "replied", "denied", "cancelled"}]
    BY <1>3, <1>5 DEF Read, LeaveWave, CancelAll, TypeOK
  <2>6. errors' \in Nat /\ committed' \in Models \cup {NoModel}
    BY <1>5, <2>2, SMTT(30) DEF Read, TypeOK
  <2>7. shown' \in Seq(Token) /\ queue' \in Seq(Item)
    BY <1>5, <2>1, <2>3 DEF Read, TypeOK
  <2>8. QED
    BY <1>5, <2>4, <2>5, <2>6, <2>7 DEF Read, TypeOK, stream
<1>6. CASE GetTimesOut
  BY <1>3, <1>6 DEF GetTimesOut, LeaveWave, CancelAll, End, TypeOK, stream
<1>7. CASE BudgetFound
  BY <1>3, <1>7 DEF BudgetFound, CancelAll, End, TypeOK, stream
<1>8. CASE Disconnect
  BY <1>3, <1>8 DEF Disconnect, CancelAll, End, TypeOK, stream
<1>9. CASE Ask
  <2>1. Min({RacePool, Len(Roster)}) \in 0 .. Len(Roster)
    BY LeastOfTwo
  <2>2. tried' \in 0 .. Len(Roster)
    BY <1>9, <2>1 DEF Ask, TypeOK
  <2>3. QED
    BY <1>9, <2>2 DEF Ask, TypeOK, stream
<1>10. CASE Choose
  <2>1. CASE Decisive = {}
    BY <1>10, <2>1 DEF Choose, TypeOK, stream
  <2>2. CASE Decisive # {}
    <3> DEFINE m == Roster[Min(Decisive)]
    <3>1. Decisive \subseteq Nat /\ Decisive \subseteq 1 .. Len(Roster)
      BY DEF Decisive, TypeOK
    <3>2. m \in Models
      BY <2>2, <3>1, LeastIsMember
    <3> HIDE DEF m
    <3>3. \A cutOff \in SUBSET {"thought", "aside"} :
            <<[from |-> m, n |-> 1, aloud |-> cutOff]>> \in Seq(Token)
      BY <3>2 DEF Token
    <3>4. shown' \in Seq(Token)
      BY <1>10, <2>2, <3>2, <3>3 DEF Choose, TypeOK, m
    <3>5. committed' \in Models \cup {NoModel}
          /\ reader' \in {"between", "reading", "over"}
          /\ ending' \in {"none", "done", "error", "gone"}
      BY <1>10, <2>2, <3>2 DEF Choose, End, TypeOK, m
    <3>6. QED
      BY <1>10, <3>4, <3>5 DEF Choose, TypeOK, stream
  <2>3. QED
    BY <2>1, <2>2
<1>11. CASE GiveUp
  BY <1>11 DEF GiveUp, End, TypeOK, stream
<1>12. ASSUME NEW m \in Models, Chunk(m) PROVE TypeOK'
  <2>1. ASSUME NEW ps, Put(m, ps) PROVE queue' \in Seq(Item) /\ said' \in [Models -> Nat]
    <3>1. ItemOf("token", m, Range(ps)) \in Item
      BY ItemTypes
    <3>2. Append(queue, ItemOf("token", m, Range(ps))) \in Seq(Item)
      BY <3>1, AppendProperties DEF TypeOK
    <3>3. queue' \in Seq(Item)
      BY <2>1, <3>2 DEF Put
    <3>4. said' \in [Models -> Nat]
      BY <2>1 DEF Put, TypeOK
    <3>5. QED
      BY <3>3, <3>4
  <2>2. queue' \in Seq(Item) /\ said' \in [Models -> Nat]
    BY <1>12, <2>1, ChunkStep DEF TypeOK
  <2>3. /\ phase' \in [Models -> {"buffering", "thinking", "streaming"}]
        /\ pre' \in [Models -> Seq(Parts)]
        /\ mind' \in [Models -> {"silent", "thinking", "speaking"}]
    BY <1>12, ChunkStep
  <2>4. chunks' \in [Models -> 0 .. MaxChunks]
    BY <1>12 DEF Chunk, TypeOK
  <2>5. QED
    BY <1>12, <2>2, <2>3, <2>4 DEF Chunk, TypeOK
<1>13. ASSUME NEW m \in Models, Done(m) PROVE TypeOK'
  BY <1>13, EndItemsTypes, ConcatProperties, SMTT(30) DEF Done, TypeOK, stream
<1>14. ASSUME NEW m \in Models, Fails(m) PROVE TypeOK'
  <2>1. Append(queue, ItemOf("error", m, {})) \in Seq(Item)
    BY ItemTypes, AppendProperties DEF TypeOK
  <2>2. QED
    BY <1>14, <2>1 DEF Fails, TypeOK, stream
<1>15. ASSUME NEW m \in Models, CallEnds(m) PROVE TypeOK'
  BY <1>15 DEF CallEnds, TypeOK, stream
<1>16. QED
  BY <1>1, <1>2, <1>4, <1>5, <1>6, <1>7, <1>8, <1>9, <1>10, <1>11, <1>12,
     <1>13, <1>14, <1>15 DEF Next, Handle

-----------------------------------------------------------------------------
(* The race of the advisor: who says what, and in which order.             *)

\* The models whose tokens may still be shown.
Live(m) == committed \in {m, NoModel}

Spoken(i) == queue[i].kind = "token"
From(i) == queue[i].token.from
Number(i) == queue[i].token.n

\* What waits on the queue: the tokens of a model that may be shown follow those
\* that were; a thought is the last thing its model said, and only a model that
\* came to its end put one, or an end or an error, there.
Numbered ==
  \A i \in 1 .. Len(queue) :
    /\ ~Spoken(i) => probe[From(i)] = "ended"
    /\ Spoken(i) => /\ Number(i) \in 1 .. said[From(i)]
                    /\ Live(From(i)) => Number(i) > Len(shown)
    /\ Spoken(i) /\ "thought" \in queue[i].token.aloud
         => /\ probe[From(i)] = "ended" /\ mind[From(i)] = "thinking"
            /\ Number(i) = said[From(i)]

\* The tokens of a model stand in order, and nothing of it stands before them.
Ordered ==
  \A i, j \in 1 .. Len(queue) :
    i < j /\ From(i) = From(j) /\ Spoken(j) => Spoken(i) /\ Number(i) < Number(j)

\* Nothing that may still be shown has got lost on the way.
Complete ==
  \A m \in Models :
    Live(m) /\ (probe[m] = "open" \/ \E i \in 1 .. Len(queue) : From(i) = m)
      => \A n \in Len(shown) + 1 .. said[m] :
           \E i \in 1 .. Len(queue) : Spoken(i) /\ From(i) = m /\ Number(i) = n

\* A model that was not started has said nothing, nor were those behind in the
\* roster started.
Unstarted ==
  /\ \A m \in Models : probe[m] = "none" => said[m] = 0
  /\ \A i \in tried + 1 .. Len(Roster) : probe[Roster[i]] = "none"

\* What was shown.
Winner ==
  /\ committed = NoModel => shown = <<>>
  /\ committed # NoModel /\ endpoint = "chat/stream" => Len(shown) <= said[committed]
  /\ \A i \in 1 .. Len(shown) :
       endpoint = "chat/stream" /\ "thought" \in shown[i].aloud
         => probe[committed] = "ended"

\* The two endpoints, between their waves and after the last.
Phases ==
  /\ reader # "reading" => Running = {}
  /\ reader = "between" => committed = NoModel
  /\ ending = "done" => reader = "over"
  /\ endpoint = "chat" => queue = <<>> /\ (reader # "over" => committed = NoModel)

RaceInv ==
  /\ TypeOK
  /\ AnswerIsFaithful
  /\ StreamInv
  /\ Numbered /\ Ordered /\ Complete
  /\ Unstarted /\ Winner /\ Phases

\* The initial states satisfy the invariant of the race.
LEMMA RaceInvInit == Init => RaceInv
<1> SUFFICES ASSUME Init PROVE RaceInv
  OBVIOUS
<1>1. TypeOK
  BY RaceTypesInit
<1>2. AnswerIsFaithful /\ Winner /\ Phases /\ Unstarted
  BY RosterFacts
     DEF Init, AnswerIsFaithful, OneVoice, DoneIsWhole, ThoughtsHidden, Winner,
         Phases, Unstarted, Running
<1>3. Numbered /\ Ordered /\ Complete
  BY DEF Init, Numbered, Ordered, Complete
<1>4. StreamInv
  <2>1. Len(<<>>) = 0 /\ Range(<<>>) = {}
    BY DEF Range
  <2>2. QED
    BY <2>1 DEF Init, StreamInv, Sound, Guarded
<1>5. QED
  BY <1>1, <1>2, <1>3, <1>4 DEF RaceInv

\* The queue and the answer as functions.
LEMMA SequenceTypes ==
  ASSUME TypeOK
  PROVE  /\ Len(queue) \in Nat /\ Len(shown) \in Nat
         /\ \A i \in 1 .. Len(queue) :
              /\ queue[i] \in Item /\ From(i) \in Models /\ Number(i) \in Nat
              /\ queue[i].token \in Token
         /\ DOMAIN shown = 1 .. Len(shown)
         /\ \A m \in Models : said[m] \in Nat
<1>1. queue \in Seq(Item) /\ shown \in Seq(Token) /\ said \in [Models -> Nat]
  BY DEF TypeOK
<1>2. ASSUME NEW i \in 1 .. Len(queue)
      PROVE  /\ queue[i] \in Item /\ From(i) \in Models /\ Number(i) \in Nat
             /\ queue[i].token \in Token
  <2>1. queue[i] \in Item
    BY <1>1, ElementOfSeq
  <2>2. queue[i].token \in Token
    BY <2>1 DEF Item
  <2>3. QED
    BY <2>1, <2>2 DEF From, Number, Token
<1>3. QED
  BY <1>1, <1>2, LenProperties

\* A model that is asked puts a token, an end or an error behind what is there.
LEMMA Growth ==
  ASSUME RaceInv, TypeOK', NEW m \in Models, endpoint = "chat/stream", probe[m] = "open",
         probe' \in {probe, [probe EXCEPT ![m] = "ended"]},
         \A x \in Models \ {m} : mind'[x] = mind[x], StreamInv',
         said' = [said EXCEPT ![m] = said'[m]], said'[m] \in {said[m], said[m] + 1},
         Len(queue') >= Len(queue),
         \A i \in 1 .. Len(queue) : queue'[i] = queue[i],
         \A i \in Len(queue) + 1 .. Len(queue') :
           /\ From(i)' = m
           /\ ~Spoken(i)' => probe'[m] = "ended"
           /\ Spoken(i)' => /\ i = Len(queue) + 1
                            /\ Number(i)' = said[m] + 1 /\ said'[m] = said[m] + 1
           /\ Spoken(i)' /\ "thought" \in queue'[i].token.aloud
                => probe'[m] = "ended" /\ mind'[m] = "thinking",
         said'[m] > said[m] => \E i \in Len(queue) + 1 .. Len(queue') : Spoken(i)',
         UNCHANGED <<endpoint, reader, tried, committed, shown, ending>>
  PROVE  RaceInv'
<1> USE DEF RaceInv
<1>0. /\ Len(queue) \in Nat /\ Len(queue') \in Nat /\ Len(shown) \in Nat
      /\ \A i \in 1 .. Len(queue) : From(i) \in Models /\ Number(i) \in Nat
      /\ DOMAIN shown = 1 .. Len(shown)
      /\ \A x \in Models : said[x] \in Nat /\ said'[x] \in Nat
  <2>0. TypeOK
    OBVIOUS
  <2>1. /\ Len(queue) \in Nat /\ Len(shown) \in Nat /\ DOMAIN shown = 1 .. Len(shown)
        /\ \A i \in 1 .. Len(queue) : From(i) \in Models /\ Number(i) \in Nat
        /\ \A x \in Models : said[x] \in Nat
    <3> HIDE DEF RaceInv
    <3> QED
      BY <2>0, SequenceTypes
  <2>2. queue' \in Seq(Item) /\ said' \in [Models -> Nat]
    BY DEF TypeOK
  <2>3. Len(queue') \in Nat /\ \A x \in Models : said'[x] \in Nat
    BY <2>2, LenProperties
  <2>4. QED
    BY <2>1, <2>3
<1>1. reader = "reading" /\ ending # "done"
  BY DEF Phases, Running
<1>2. \A x \in Models \ {m} : probe'[x] = probe[x] /\ said'[x] = said[x]
  BY DEF TypeOK
<1>3. \A i \in 1 .. Len(queue) : Spoken(i)' = Spoken(i) /\ From(i)' = From(i)
                                /\ Number(i)' = Number(i)
  BY DEF Spoken, From, Number
<1>4. \A i \in 1 .. Len(queue) : From(i) = m => Spoken(i) /\ "thought" \notin queue[i].token.aloud
  BY <1>0 DEF Numbered
<1>5. committed = m => \A i \in 1 .. Len(shown) : "thought" \notin shown[i].aloud
  BY DEF Winner
<1>6. committed \in Models => said'[committed] >= said[committed]
  BY <1>0, <1>2
<1>7. AnswerIsFaithful'
  <2>1. OneVoice' /\ DoneIsWhole'
    BY <1>1 DEF AnswerIsFaithful, OneVoice, DoneIsWhole
  <2>2. ASSUME NEW i \in 1 .. Len(shown), "thought" \in shown[i].aloud
        PROVE  mind'[committed] = "thinking" /\ probe'[committed] = "ended"
               /\ i = said'[committed]
    <3>1. committed \in Models \ {m}
      BY <1>5, <2>2 DEF Winner, TypeOK
    <3>2. QED
      BY <1>0, <1>2, <2>2, <3>1 DEF AnswerIsFaithful, ThoughtsHidden
  <2>3. ThoughtsHidden'
    BY <1>0, <2>2 DEF ThoughtsHidden, stream
  <2>4. QED
    BY <2>1, <2>3 DEF AnswerIsFaithful
<1>8. Numbered'
  <2> SUFFICES ASSUME NEW i \in 1 .. Len(queue')
               PROVE  /\ ~Spoken(i)' => probe'[From(i)'] = "ended"
                      /\ Spoken(i)' => /\ Number(i)' \in 1 .. said'[From(i)']
                                       /\ Live(From(i))' => Number(i)' > Len(shown)
                      /\ Spoken(i)' /\ "thought" \in queue'[i].token.aloud
                           => /\ probe'[From(i)'] = "ended" /\ mind'[From(i)'] = "thinking"
                              /\ Number(i)' = said'[From(i)']
    BY DEF Numbered
  <2>1. CASE i \in 1 .. Len(queue)
    <3>1. CASE From(i) = m
      BY <1>0, <1>3, <1>4, <2>1, <3>1 DEF Numbered, Live
    <3>2. CASE From(i) # m
      BY <1>0, <1>2, <1>3, <2>1, <3>2, SMTT(30) DEF Numbered, Live
    <3>3. QED
      BY <3>1, <3>2
  <2>2. CASE i \in Len(queue) + 1 .. Len(queue')
    <3>1. Live(m) => said[m] >= Len(shown)
      BY <1>0 DEF Winner, Live
    <3>2. QED
      BY <1>0, <2>2, <3>1 DEF Live
  <2>3. QED
    BY <1>0, <2>1, <2>2
<1>9. Ordered'
  <2> SUFFICES ASSUME NEW i \in 1 .. Len(queue'), NEW j \in 1 .. Len(queue'),
                      i < j, From(i)' = From(j)', Spoken(j)'
               PROVE  Spoken(i)' /\ Number(i)' < Number(j)'
    BY DEF Ordered
  <2>1. CASE j \in 1 .. Len(queue)
    BY <1>0, <1>3, <2>1 DEF Ordered
  <2>2. CASE j \in Len(queue) + 1 .. Len(queue')
    <3>1. j = Len(queue) + 1 /\ From(j)' = m /\ Number(j)' = said[m] + 1
      BY <2>2
    <3>2. i \in 1 .. Len(queue) /\ From(i) = m
      BY <1>0, <1>3, <3>1
    <3>3. Number(i) \in 1 .. said[m]
      BY <1>4, <3>2 DEF Numbered
    <3>4. QED
      BY <1>0, <1>3, <1>4, <3>1, <3>2, <3>3
  <2>3. QED
    BY <1>0, <2>1, <2>2
<1>10. Complete'
  <2> SUFFICES ASSUME NEW x \in Models, Live(x),
                      probe'[x] = "open" \/ \E i \in 1 .. Len(queue') : From(i)' = x,
                      NEW n \in Len(shown) + 1 .. said'[x]
               PROVE  \E i \in 1 .. Len(queue') :
                        Spoken(i)' /\ From(i)' = x /\ Number(i)' = n
    BY DEF Complete, Live
  <2>1. CASE n \in Len(shown) + 1 .. said[x]
    <3>1. probe[x] = "open" \/ \E i \in 1 .. Len(queue) : From(i) = x
      <4>1. CASE x = m
        BY <4>1
      <4>2. CASE x # m
        BY <1>0, <1>2, <1>3, <4>2
      <4>3. QED
        BY <4>1, <4>2
    <3>2. PICK i \in 1 .. Len(queue) : Spoken(i) /\ From(i) = x /\ Number(i) = n
      BY <2>1, <3>1 DEF Complete
    <3>3. i \in 1 .. Len(queue')
      BY <1>0
    <3>4. QED
      BY <1>3, <3>2, <3>3
  <2>2. CASE x = m /\ n = said[m] + 1 /\ said'[m] = said[m] + 1
    <3>1. PICK i \in Len(queue) + 1 .. Len(queue') : Spoken(i)'
      BY <1>0, <2>2
    <3>2. i \in 1 .. Len(queue')
      BY <1>0
    <3>3. QED
      BY <2>2, <3>1, <3>2
  <2>3. QED
    BY <1>0, <1>2, <2>1, <2>2
<1>11. Unstarted'
  <2>1. ASSUME NEW x \in Models, probe'[x] = "none" PROVE said'[x] = 0
    <3>1. x # m
      BY <2>1 DEF TypeOK
    <3>2. QED
      BY <1>2, <2>1, <3>1 DEF Unstarted
  <2>2. ASSUME NEW i \in tried + 1 .. Len(Roster) PROVE probe'[Roster[i]] = "none"
    <3>1. Roster[i] \in Models /\ probe[Roster[i]] = "none"
      BY RosterFacts DEF Unstarted, TypeOK
    <3>2. QED
      BY <1>2, <3>1
  <2>3. QED
    BY <2>1, <2>2 DEF Unstarted
<1>12. Winner'
  <2>1. committed # NoModel => Len(shown) <= said'[committed]
    BY <1>0, <1>6 DEF Winner, TypeOK
  <2>2. ASSUME NEW i \in 1 .. Len(shown), "thought" \in shown[i].aloud
        PROVE  probe'[committed] = "ended"
    <3>1. committed \in Models \ {m}
      BY <1>5, <2>2 DEF Winner, TypeOK
    <3>2. probe[committed] = "ended"
      BY <2>2 DEF Winner
    <3>3. QED
      BY <1>2, <3>1, <3>2
  <2>3. QED
    BY <2>1, <2>2 DEF Winner
<1>13. Phases'
  BY <1>1 DEF Phases
<1>14. QED
  BY <1>7, <1>8, <1>9, <1>10, <1>11, <1>12, <1>13

\* What a cancelled call, a wave that is left or an item that is not shown does:
\* the queue loses at most its head, and calls end.
LEMMA Shift ==
  ASSUME RaceInv, TypeOK', NEW k \in {0, 1}, k <= Len(queue),
         Len(queue') = Len(queue) - k,
         \A i \in 1 .. Len(queue') : queue'[i] = queue[i + k],
         k = 1 => ~(Spoken(1) /\ Live(From(1))),
         \A m \in Models : \/ probe'[m] = probe[m]
                           \/ probe[m] = "open" /\ probe'[m] \notin {"open", "none"},
         UNCHANGED <<tried, stream, said, committed, shown>>,
         endpoint' = endpoint, Phases', DoneIsWhole'
  PROVE  RaceInv'
<1> USE DEF RaceInv
<1>0. /\ Len(queue) \in Nat /\ Len(queue') \in Nat /\ Len(shown) \in Nat
      /\ \A i \in 1 .. Len(queue) : From(i) \in Models /\ Number(i) \in Nat
      /\ DOMAIN shown = 1 .. Len(shown)
  <2>0. TypeOK
    OBVIOUS
  <2>1. /\ Len(queue) \in Nat /\ Len(shown) \in Nat /\ DOMAIN shown = 1 .. Len(shown)
        /\ \A i \in 1 .. Len(queue) : From(i) \in Models /\ Number(i) \in Nat
    <3> HIDE DEF RaceInv
    <3> QED
      BY <2>0, SequenceTypes
  <2>2. Len(queue') \in Nat
    <3>1. queue' \in Seq(Item)
      BY DEF TypeOK
    <3> QED
      BY <3>1, LenProperties
  <2>3. QED
    BY <2>1, <2>2
<1>1. \A i \in 1 .. Len(queue') : /\ i + k \in 1 .. Len(queue)
                                 /\ Spoken(i)' = Spoken(i + k) /\ From(i)' = From(i + k)
                                 /\ Number(i)' = Number(i + k)
                                 /\ queue'[i] = queue[i + k]
  <2> SUFFICES ASSUME NEW i \in 1 .. Len(queue')
               PROVE  /\ i + k \in 1 .. Len(queue)
                      /\ Spoken(i)' = Spoken(i + k) /\ From(i)' = From(i + k)
                      /\ Number(i)' = Number(i + k)
                      /\ queue'[i] = queue[i + k]
    OBVIOUS
  <2> HIDE DEF RaceInv
  <2>1. i + k \in 1 .. Len(queue)
    BY <1>0
  <2>2. queue'[i] = queue[i + k]
    OBVIOUS
  <2>3. QED
    BY <2>1, <2>2 DEF Spoken, From, Number
<1>a. StreamInv' /\ mind' = mind
  BY DEF stream, StreamInv
<1>b. committed \in Models /\ probe[committed] = "ended" => probe'[committed] = "ended"
  OBVIOUS
<1>c. shown # <<>> => committed \in Models
  BY DEF Winner, TypeOK
<1>2. AnswerIsFaithful'
  <2>1. OneVoice' /\ DoneIsWhole'
    BY DEF AnswerIsFaithful, OneVoice
  <2>2. ASSUME NEW i \in DOMAIN shown, endpoint = "chat/stream", "thought" \in shown[i].aloud
        PROVE  /\ mind'[committed] = "thinking" /\ probe'[committed] = "ended"
               /\ i = said'[committed]
    <3>1. /\ mind[committed] = "thinking" /\ probe[committed] = "ended"
          /\ i = said[committed] /\ committed \in Models
      BY <1>0, <1>c, <2>2 DEF AnswerIsFaithful, ThoughtsHidden
    <3>2. QED
      BY <1>a, <1>b, <3>1
  <2>3. ThoughtsHidden'
    BY <2>2 DEF ThoughtsHidden
  <2>4. QED
    BY <2>1, <2>3 DEF AnswerIsFaithful
<1>3. Numbered'
  <2> SUFFICES ASSUME NEW i \in 1 .. Len(queue')
               PROVE  /\ ~Spoken(i)' => probe'[From(i)'] = "ended"
                      /\ Spoken(i)' => /\ Number(i)' \in 1 .. said[From(i)']
                                       /\ Live(From(i))' => Number(i)' > Len(shown)
                      /\ Spoken(i)' /\ "thought" \in queue'[i].token.aloud
                           => /\ probe'[From(i)'] = "ended" /\ mind[From(i)'] = "thinking"
                              /\ Number(i)' = said[From(i)']
    BY DEF Numbered, stream
  <2>1. probe[From(i + k)] = "ended" => probe'[From(i + k)] = "ended"
    BY <1>0, <1>1
  <2>2. /\ ~Spoken(i + k) => probe[From(i + k)] = "ended"
        /\ Spoken(i + k) => /\ Number(i + k) \in 1 .. said[From(i + k)]
                            /\ Live(From(i + k)) => Number(i + k) > Len(shown)
        /\ Spoken(i + k) /\ "thought" \in queue[i + k].token.aloud
             => /\ probe[From(i + k)] = "ended" /\ mind[From(i + k)] = "thinking"
                /\ Number(i + k) = said[From(i + k)]
    BY <1>1 DEF Numbered
  <2>3. Live(From(i))' <=> Live(From(i + k))
    BY <1>1 DEF Live
  <2>4. QED
    BY <1>1, <2>1, <2>2, <2>3
<1>4. Ordered'
  <2> SUFFICES ASSUME NEW i \in 1 .. Len(queue'), NEW j \in 1 .. Len(queue'),
                      i < j, From(i)' = From(j)', Spoken(j)'
               PROVE  Spoken(i)' /\ Number(i)' < Number(j)'
    BY DEF Ordered
  <2>1. i + k < j + k
    BY <1>0
  <2>2. QED
    BY <1>1, <2>1 DEF Ordered
<1>5. Complete'
  <2> SUFFICES ASSUME NEW x \in Models, Live(x),
                      probe'[x] = "open" \/ \E i \in 1 .. Len(queue') : From(i)' = x,
                      NEW n \in Len(shown) + 1 .. said[x]
               PROVE  \E i \in 1 .. Len(queue') :
                        Spoken(i)' /\ From(i)' = x /\ Number(i)' = n
    BY DEF Complete, Live
  <2>1. probe[x] = "open" \/ \E i \in 1 .. Len(queue) : From(i) = x
    BY <1>1
  <2>2. PICK i \in 1 .. Len(queue) : Spoken(i) /\ From(i) = x /\ Number(i) = n
    BY <2>1 DEF Complete
  <2>3. i - k \in 1 .. Len(queue') /\ (i - k) + k = i
    BY <1>0, <2>2
  <2>4. QED
    BY <1>1, <2>2, <2>3
<1>6. Unstarted'
  <2>1. ASSUME NEW i \in tried + 1 .. Len(Roster) PROVE probe'[Roster[i]] = "none"
    <3>1. Roster[i] \in Models /\ probe[Roster[i]] = "none"
      BY RosterFacts DEF Unstarted, TypeOK
    <3>2. QED
      BY <3>1
  <2>2. QED
    BY <2>1 DEF Unstarted
<1>7. Winner'
  <2>1. ASSUME NEW i \in 1 .. Len(shown), endpoint = "chat/stream",
               "thought" \in shown[i].aloud
        PROVE  probe'[committed] = "ended"
    <3>1. committed \in Models /\ probe[committed] = "ended"
      BY <2>1 DEF Winner, TypeOK
    <3>2. QED
      BY <1>b, <3>1
  <2>2. QED
    BY <2>1 DEF Winner
<1>8. QED
  BY <1>a, <1>2, <1>3, <1>4, <1>5, <1>6, <1>7

\* The reader shows the head of the queue: it is the next token of its model.
LEMMA ShownNext ==
  ASSUME RaceInv, queue # <<>>, Spoken(1), Live(From(1))
  PROVE  From(1) \in Models /\ Number(1) = Len(shown) + 1
<1> USE DEF RaceInv
<1>1. /\ 1 \in 1 .. Len(queue) /\ Len(queue) \in Nat /\ Len(shown) \in Nat
      /\ From(1) \in Models /\ Number(1) \in Nat /\ said[From(1)] \in Nat
      /\ \A i \in 1 .. Len(queue) : Number(i) \in Nat
  <2>1. queue \in Seq(Item)
    BY DEF TypeOK
  <2>2. Len(queue) \in Nat \ {0}
    BY <2>1, EmptySeq
  <2>3. QED
    BY <2>2, SequenceTypes
<1>2. Number(1) \in 1 .. said[From(1)] /\ Number(1) > Len(shown)
  BY <1>1 DEF Numbered
<1>3. Len(shown) + 1 \in Len(shown) + 1 .. said[From(1)]
  BY <1>1, <1>2
<1>4. PICK j \in 1 .. Len(queue) :
        Spoken(j) /\ From(j) = From(1) /\ Number(j) = Len(shown) + 1
  BY <1>1, <1>3 DEF Complete
<1>5. j > 1 => Number(1) < Number(j)
  BY <1>1, <1>4 DEF Ordered
<1>6. QED
  BY <1>1, <1>2, <1>4, <1>5

\* The first on the queue is shown, and its model is the winner.
LEMMA Show ==
  ASSUME RaceInv, TypeOK', queue # <<>>, Spoken(1), Live(From(1)), reader = "reading",
         endpoint = "chat/stream", queue' = Tail(queue),
         shown' = Append(shown, queue[1].token), committed' = From(1),
         probe' = probe \/ Cancel(Models \ {From(1)}),
         UNCHANGED <<endpoint, reader, tried, stream, said, ending>>
  PROVE  RaceInv'
<1> USE DEF RaceInv
<1> DEFINE m == From(1)
<1>1. m \in Models /\ Number(1) = Len(shown) + 1
  BY ShownNext
<1> HIDE DEF m
<1>2. m # NoModel /\ committed' = m
  BY <1>1, RosterFacts DEF m
<1>3. /\ Len(queue) \in Nat \ {0} /\ Len(shown) \in Nat /\ said[m] \in Nat
      /\ \A i \in 1 .. Len(queue) : From(i) \in Models /\ Number(i) \in Nat
      /\ DOMAIN shown = 1 .. Len(shown) /\ queue[1].token \in Token
  <2>1. queue \in Seq(Item)
    BY DEF TypeOK
  <2>2. Len(queue) \in Nat \ {0}
    BY <2>1, EmptySeq
  <2>3. QED
    BY <1>1, <2>2, SequenceTypes
<1>4. /\ Len(queue') = Len(queue) - 1
      /\ \A i \in 1 .. Len(queue') :
           /\ i + 1 \in 1 .. Len(queue) /\ queue'[i] = queue[i + 1]
           /\ Spoken(i)' = Spoken(i + 1) /\ From(i)' = From(i + 1)
           /\ Number(i)' = Number(i + 1)
  <2>1. queue \in Seq(Item)
    BY DEF TypeOK
  <2>2. Len(queue') = Len(queue) - 1 /\ \A i \in 1 .. Len(queue') : queue'[i] = queue[i + 1]
    BY <2>1, HeadTailProperties
  <2>3. QED
    BY <1>3, <2>2 DEF Spoken, From, Number
<1>5. /\ Len(shown') = Len(shown) + 1 /\ DOMAIN shown' = 1 .. Len(shown) + 1
      /\ \A i \in 1 .. Len(shown) : shown'[i] = shown[i]
      /\ shown'[Len(shown) + 1] = queue[1].token
  <2>1. shown \in Seq(Token)
    BY DEF TypeOK
  <2>2. QED
    BY <1>3, <2>1, AppendProperties, LenProperties
<1>6. \A x \in Models : \/ probe'[x] = probe[x]
                        \/ x # m /\ probe[x] = "open" /\ probe'[x] = "cancelled"
  BY DEF Cancel, Running, m
<1>7. ending # "done"
  BY DEF Phases
<1>b. StreamInv' /\ mind' = mind
  BY DEF stream, StreamInv
<1>8. shown # <<>> => committed = m
  BY DEF Winner, Live, m
<1>9. queue[1].token.from = m /\ queue[1].token.n = Len(shown) + 1
  BY <1>1 DEF m, From, Number
<1>10. "thought" \in queue[1].token.aloud
         => probe[m] = "ended" /\ mind[m] = "thinking" /\ said[m] = Len(shown) + 1
  BY <1>1, <1>3 DEF Numbered, m
<1>11. Len(shown) + 1 <= said[m]
  BY <1>1, <1>3 DEF Numbered, m
<1>12. ASSUME NEW i \in 1 .. Len(shown') PROVE
         \/ i \in 1 .. Len(shown) /\ shown'[i] = shown[i] /\ committed = m
         \/ i = Len(shown) + 1 /\ shown'[i] = queue[1].token
  <2>1. CASE i \in 1 .. Len(shown)
    BY <1>3, <1>5, <1>8, <2>1
  <2>2. CASE i = Len(shown) + 1
    BY <1>5, <2>2
  <2>3. QED
    BY <1>3, <1>5, <2>1, <2>2
<1>13. AnswerIsFaithful'
  <2>1. OneVoice'
    BY <1>2, <1>3, <1>5, <1>9, <1>12 DEF AnswerIsFaithful, OneVoice
  <2>2. DoneIsWhole'
    BY <1>7 DEF DoneIsWhole
  <2>3. ASSUME NEW i \in 1 .. Len(shown'), "thought" \in shown'[i].aloud
        PROVE  mind[m] = "thinking" /\ probe'[m] = "ended" /\ i = said[m]
    <3>1. CASE i \in 1 .. Len(shown) /\ shown'[i] = shown[i] /\ committed = m
      <4>1. mind[m] = "thinking" /\ probe[m] = "ended" /\ i = said[m]
        BY <1>3, <2>3, <3>1 DEF AnswerIsFaithful, ThoughtsHidden
      <4>2. QED
        BY <1>1, <1>6, <4>1
    <3>2. CASE i = Len(shown) + 1 /\ shown'[i] = queue[1].token
      BY <1>1, <1>6, <1>10, <2>3, <3>2
    <3>3. QED
      BY <1>12, <3>1, <3>2
  <2>a. ThoughtsHidden'
    BY <1>2, <1>3, <1>5, <1>b, <2>3 DEF ThoughtsHidden
  <2>4. QED
    BY <2>1, <2>2, <2>a DEF AnswerIsFaithful
<1>14. Numbered'
  <2> SUFFICES ASSUME NEW i \in 1 .. Len(queue')
               PROVE  /\ ~Spoken(i)' => probe'[From(i)'] = "ended"
                      /\ Spoken(i)' => /\ Number(i)' \in 1 .. said[From(i)']
                                       /\ Live(From(i))' => Number(i)' > Len(shown')
                      /\ Spoken(i)' /\ "thought" \in queue'[i].token.aloud
                           => /\ probe'[From(i)'] = "ended" /\ mind[From(i)'] = "thinking"
                              /\ Number(i)' = said[From(i)']
    BY DEF Numbered, stream
  <2>1. i + 1 \in 1 .. Len(queue) /\ 1 \in 1 .. Len(queue) /\ From(i + 1) \in Models
    BY <1>3, <1>4
  <2>2. probe[From(i + 1)] = "ended" => probe'[From(i + 1)] = "ended"
    BY <1>6, <2>1
  <2>3. From(i + 1) = m /\ Spoken(i + 1) => Number(i + 1) > Len(shown) + 1
    <3>1. From(i + 1) = m /\ Spoken(i + 1) => Number(1) < Number(i + 1)
      BY <1>3, <2>1 DEF Ordered, m
    <3>2. QED
      BY <1>1, <1>3, <2>1, <3>1
  <2>4. Live(From(i))' => From(i + 1) = m
    BY <1>2, <1>4, <2>1, RosterFacts DEF Live
  <2>5. QED
    BY <1>4, <1>5, <2>1, <2>2, <2>3, <2>4 DEF Numbered
<1>15. Ordered'
  <2> SUFFICES ASSUME NEW i \in 1 .. Len(queue'), NEW j \in 1 .. Len(queue'),
                      i < j, From(i)' = From(j)', Spoken(j)'
               PROVE  Spoken(i)' /\ Number(i)' < Number(j)'
    BY DEF Ordered
  <2>1. i + 1 < j + 1
    BY <1>3, <1>4
  <2>2. QED
    BY <1>4, <2>1 DEF Ordered
<1>16. Complete'
  <2> SUFFICES ASSUME NEW x \in Models, Live(x)',
                      NEW n \in Len(shown') + 1 .. said[x]
               PROVE  \E i \in 1 .. Len(queue') :
                        Spoken(i)' /\ From(i)' = x /\ Number(i)' = n
    BY DEF Complete
  <2>1. x = m
    BY <1>2, RosterFacts DEF Live
  <2>2. n \in Len(shown) + 1 .. said[m] /\ n > Len(shown) + 1
    BY <1>3, <1>5, <2>1
  <2>3. Live(m) /\ 1 \in 1 .. Len(queue) /\ From(1) = m
    BY <1>3 DEF m
  <2>4. PICK i \in 1 .. Len(queue) : Spoken(i) /\ From(i) = m /\ Number(i) = n
    BY <1>1, <2>2, <2>3 DEF Complete
  <2>5. i # 1
    BY <1>1, <1>3, <2>2, <2>4
  <2>6. i - 1 \in 1 .. Len(queue') /\ (i - 1) + 1 = i
    BY <1>3, <1>4, <2>5
  <2>7. QED
    BY <1>4, <2>1, <2>4, <2>6
<1>17. Unstarted'
  <2>1. ASSUME NEW i \in tried + 1 .. Len(Roster) PROVE probe'[Roster[i]] = "none"
    <3>1. Roster[i] \in Models /\ probe[Roster[i]] = "none"
      BY RosterFacts DEF Unstarted, TypeOK
    <3>2. QED
      BY <1>6, <3>1
  <2>2. QED
    BY <1>6, <2>1 DEF Unstarted
<1>18. Winner'
  <2>1. \A i \in 1 .. Len(shown') : "thought" \in shown'[i].aloud => probe'[m] = "ended"
    BY <1>1, <1>6, <1>10, <1>12 DEF Winner
  <2>2. QED
    BY <1>2, <1>5, <1>11, <2>1 DEF Winner
<1>19. Phases'
  BY <1>7 DEF Phases
<1>20. QED
  BY <1>13, <1>14, <1>15, <1>16, <1>17, <1>18, <1>19, <1>b

\* What stands behind b in the roster was behind a before it, and is none of those
\* between the two.
Later(a, b, c) ==
  \A i \in b + 1 .. c : /\ i \in a + 1 .. c /\ i \in 1 .. c
                        /\ \A j \in a + 1 .. b : j \in 1 .. c /\ j # i

LEMMA IntervalsApart ==
  ASSUME NEW a \in Nat, NEW b \in Nat, NEW c \in Nat, a <= b, b <= c
  PROVE  Later(a, b, c)
BY DEF Later

\* A wave starts behind the models that were started before, with an empty queue.
LEMMA WaveStarts ==
  ASSUME RaceInv, TypeOK', reader = "between", reader' = "reading",
         tried' >= tried,
         probe' = [m \in Models |-> IF \E i \in tried + 1 .. tried' : m = Roster[i]
                                    THEN "open" ELSE probe[m]],
         queue' = <<>>,
         UNCHANGED <<stream, said, committed, shown, ending>>,
         endpoint' = endpoint
  PROVE  RaceInv'
<1> USE DEF RaceInv
<1>1. committed = NoModel /\ shown = <<>> /\ ending # "done" /\ \A m \in Models : probe[m] # "open"
  BY DEF Phases, Winner, Running
<1>2. Numbered' /\ Ordered' /\ Winner' /\ Phases'
  BY <1>1, RosterFacts DEF Numbered, Ordered, Winner, Phases
<1>3. AnswerIsFaithful'
  BY <1>1 DEF AnswerIsFaithful, OneVoice, DoneIsWhole, ThoughtsHidden
<1>4. tried \in Nat /\ tried' \in Nat /\ tried' <= Len(Roster) /\ Len(Roster) \in Nat
  BY RosterFacts DEF TypeOK
<1>5. \A m \in Models : probe'[m] = "open" => said[m] = 0
  <2> SUFFICES ASSUME NEW m \in Models, probe'[m] = "open" PROVE said[m] = 0
    OBVIOUS
  <2>1. PICK i \in tried + 1 .. tried' : m = Roster[i]
    BY <1>1
  <2>2. i \in tried + 1 .. Len(Roster)
    BY <1>4
  <2>3. QED
    BY <2>1, <2>2 DEF Unstarted
<1>6. Complete'
  BY <1>1, <1>5 DEF Complete
<1>7. Unstarted'
  <2>1. ASSUME NEW i \in tried' + 1 .. Len(Roster) PROVE probe'[Roster[i]] = "none"
    <3>a. Later(tried, tried', Len(Roster))
      <4>1. tried <= tried'
        BY <1>4
      <4>2. QED
        BY <1>4, <4>1, IntervalsApart, Zenon
    <3>1. /\ i \in tried + 1 .. Len(Roster) /\ i \in 1 .. Len(Roster)
          /\ \A j \in tried + 1 .. tried' : j \in 1 .. Len(Roster) /\ j # i
      BY <3>a, Zenon DEF Later
    <3>2. Roster[i] \in Models /\ \A j \in tried + 1 .. tried' : Roster[i] # Roster[j]
      BY <3>1, RosterFacts
    <3>3. probe[Roster[i]] = "none"
      BY <3>1 DEF Unstarted
    <3>4. QED
      BY <3>2, <3>3
  <2>2. QED
    BY <2>1 DEF Unstarted
<1>9. StreamInv'
  BY DEF stream, StreamInv
<1>10. QED
  BY <1>2, <1>3, <1>6, <1>7, <1>9

\* Every step preserves the invariant of the race.
LEMMA RaceInvStep == RaceInv /\ [Next]_vars => RaceInv'
<1> SUFFICES ASSUME RaceInv, [Next]_vars PROVE RaceInv'
  OBVIOUS
<1>i. /\ TypeOK /\ AnswerIsFaithful /\ Numbered /\ Ordered /\ Complete
      /\ Unstarted /\ Winner /\ Phases /\ StreamInv
  BY DEF RaceInv
<1> USE <1>i
<1>0. TypeOK'
  BY RaceTypesStep
<1>a. /\ queue \in Seq(Item) /\ Len(queue) \in Nat /\ 0 <= Len(queue)
      /\ queue # <<>> => /\ 1 <= Len(queue) /\ Len(Tail(queue)) = Len(queue) - 1
                         /\ Head(queue) = queue[1]
                         /\ \A i \in 1 .. Len(Tail(queue)) : Tail(queue)[i] = queue[i + 1]
  <2>1. queue \in Seq(Item)
    BY DEF TypeOK
  <2>2. Len(queue) \in Nat /\ (queue # <<>> => Len(queue) \in Nat \ {0})
    BY <2>1, EmptySeq, LenProperties
  <2>3. queue # <<>> => Head(queue) = queue[1]
    BY <2>1
  <2>4. QED
    BY <2>1, <2>2, <2>3, HeadTailProperties
\* What a step does that leaves queue and answer alone.
<1>b. ASSUME UNCHANGED <<tried, stream, said, committed, shown, endpoint, queue>>,
             \A m \in Models : \/ probe'[m] = probe[m]
                               \/ probe[m] = "open" /\ probe'[m] \notin {"open", "none"},
             Phases', DoneIsWhole'
      PROVE  RaceInv'
  <2>1. Len(queue') = Len(queue) - 0 /\ \A i \in 1 .. Len(queue') : queue'[i] = queue[i + 0]
    BY <1>a, <1>b
  <2>2. 0 \in {0, 1} /\ 0 <= Len(queue) /\ (0 = 1 => ~(Spoken(1) /\ Live(From(1))))
    BY <1>a
  <2> HIDE <1>i
  <2>3. QED
    BY <1>0, <1>b, <2>1, <2>2, Shift
<1>c. ASSUME NEW ms, Cancel(ms)
      PROVE  /\ \A m \in Models : \/ probe'[m] = probe[m]
                                  \/ probe[m] = "open" /\ probe'[m] \notin {"open", "none"}
             /\ ms = Models => Running' = {}
  BY <1>c DEF Cancel, Running
<1>d. reader = "reading" => ending # "done"
  BY DEF Phases
<1>1. CASE UNCHANGED vars
  BY <1>1, <1>b DEF vars, Phases, DoneIsWhole, Running, AnswerIsFaithful
<1>2. CASE BudgetEnds
  <2>1. Phases' /\ DoneIsWhole'
    BY <1>2 DEF BudgetEnds, Phases, DoneIsWhole, Running, AnswerIsFaithful
  <2>2. QED
    BY <1>2, <1>b, <2>1 DEF BudgetEnds
<1>3. CASE NextWave
  <2>1. CASE inBudget /\ tried < Len(Roster)
    <3>1. tried \in Nat /\ tried + RacePool \in Nat /\ Len(Roster) \in Nat
      BY RosterFacts DEF TypeOK
    <3>2. tried' >= tried
      <4>1. tried' = Min({tried + RacePool, Len(Roster)})
        BY <1>3, <2>1 DEF NextWave
      <4>2. tried' \in {tried + RacePool, Len(Roster)}
        BY <3>1, <4>1, LeastOfTwo
      <4>3. QED
        BY <2>1, <3>1, <4>2, RosterFacts
    <3>3. probe' = [m \in Models |-> IF \E i \in tried + 1 .. tried' : m = Roster[i]
                                     THEN "open" ELSE probe[m]]
      BY <1>3, <2>1 DEF NextWave, Wave
    <3>4. QED
      BY <1>0, <1>3, <2>1, <3>2, <3>3, WaveStarts DEF NextWave, FreshQueue
  <2>2. CASE ~(inBudget /\ tried < Len(Roster))
    <3>1. Phases' /\ DoneIsWhole'
      BY <1>3, <2>2 DEF NextWave, End, Phases, DoneIsWhole, Running
    <3>2. QED
      BY <1>3, <1>b, <2>2, <3>1 DEF NextWave
  <2>3. QED
    BY <2>1, <2>2
<1>4. CASE Read
  <2>1. /\ queue # <<>> /\ reader = "reading" /\ endpoint = "chat/stream" /\ queue' = Tail(queue)
        /\ Head(queue) = queue[1] /\ queue[1].token.from \in Models
        /\ endpoint' = endpoint /\ UNCHANGED <<tried, stream, said>>
    <3>1. endpoint = "chat/stream"
      BY <1>4 DEF Read, Phases, TypeOK
    <3>2. 1 \in 1 .. Len(queue)
      BY <1>4, <1>a DEF Read
    <3>3. queue[1].token.from \in Models
      BY <3>2, SequenceTypes DEF From
    <3>4. QED
      BY <1>4, <1>a, <3>1, <3>3 DEF Read
  <2>a. Ignored(Head(queue)) <=> ~Live(From(1))
    BY <2>1, RosterFacts DEF Ignored, Live, From, TypeOK
  \* An item that is not shown.
  <2>2. ASSUME UNCHANGED <<committed, shown>>, ~(Spoken(1) /\ Live(From(1))),
               probe' = probe \/ CancelAll, Phases', DoneIsWhole'
        PROVE  RaceInv'
    <3>1. \A m \in Models : \/ probe'[m] = probe[m]
                            \/ probe[m] = "open" /\ probe'[m] \notin {"open", "none"}
      BY <1>c, <2>2 DEF CancelAll
    <3>2. /\ Len(queue') = Len(queue) - 1 /\ 1 <= Len(queue)
          /\ \A i \in 1 .. Len(queue') : queue'[i] = queue[i + 1]
      BY <1>a, <2>1
    <3>3. QED
      BY <1>0, <2>1, <2>2, <3>1, <3>2, Shift
  <2>3. CASE /\ Head(queue).kind = "error"
             /\ IF errors' >= WaveSize /\ committed = NoModel
                THEN LeaveWave
                ELSE UNCHANGED <<probe, reader, ending>>
             /\ UNCHANGED <<committed, shown>>
    <3>1. ~Spoken(1)
      BY <2>1, <2>3 DEF Spoken
    <3>2. probe' = probe \/ CancelAll
      BY <2>3 DEF LeaveWave
    <3>3. Phases'
      BY <1>c, <1>d, <2>1, <2>3 DEF LeaveWave, CancelAll, End, Phases
    <3>4. ending' # "done"
      BY <1>d, <2>1, <2>3 DEF LeaveWave, End
    <3>5. QED
      BY <2>2, <2>3, <3>1, <3>2, <3>3, <3>4 DEF DoneIsWhole
  <2>4. CASE /\ Shows(Head(queue))
             /\ shown' = Append(shown, Head(queue).token)
             /\ IF committed = NoModel
                THEN /\ committed' = Head(queue).token.from
                     /\ Cancel(Models \ {Head(queue).token.from})
                ELSE UNCHANGED <<committed, probe>>
             /\ UNCHANGED <<errors, reader, ending>>
    <3>1. Spoken(1) /\ Live(From(1))
      BY <2>1, <2>4, <2>a DEF Shows, Spoken
    <3>2. committed' = From(1)
      BY <2>1, <2>4, <3>1 DEF Live, From
    <3>3. probe' = probe \/ Cancel(Models \ {From(1)})
      BY <2>1, <2>4 DEF From
    <3>4. QED
      BY <1>0, <2>1, <2>4, <3>1, <3>2, <3>3, Show
  <2>5. CASE /\ Head(queue).kind = "done" /\ ~Ignored(Head(queue))
             /\ CancelAll
             /\ End("done")
             /\ UNCHANGED <<errors, committed, shown>>
    <3> DEFINE m == From(1)
    <3>1. ~Spoken(1) /\ Live(m) /\ m \in Models /\ 1 \in 1 .. Len(queue)
      BY <1>a, <2>1, <2>5, <2>a DEF Spoken, From
    <3>2. probe[m] = "ended"
      BY <3>1 DEF Numbered
    <3>3. probe'[m] = "ended"
      BY <1>c, <2>5, <3>1, <3>2 DEF CancelAll
    <3>4. Len(shown) \in Nat /\ said[m] \in Nat /\ \A i \in 1 .. Len(queue) : From(i) \in Models
      BY <3>1, SequenceTypes
    <3>5. ~(said[m] > Len(shown))
      <4> SUFFICES ASSUME said[m] > Len(shown) PROVE FALSE
        OBVIOUS
      <4>1. said[m] \in Len(shown) + 1 .. said[m]
        BY <3>4
      <4>2. PICK j \in 1 .. Len(queue) : Spoken(j) /\ From(j) = m
        BY <3>1, <4>1 DEF Complete
      <4>3. j > 1
        BY <1>a, <3>1, <4>2
      <4>4. QED
        BY <3>1, <4>2, <4>3 DEF Ordered
    <3>6. Len(shown) <= said[m]
      BY <2>1, <3>1, <3>4, RosterFacts DEF Winner, Live
    <3>7. DoneIsWhole'
      BY <2>1, <2>5, <3>1, <3>3, <3>4, <3>5, <3>6 DEF DoneIsWhole, Live
    <3>8. Phases'
      BY <1>c, <2>1, <2>5 DEF CancelAll, End, Phases
    <3>9. QED
      BY <2>2, <2>5, <3>1, <3>7, <3>8
  <2>6. CASE /\ Head(queue).kind # "error" /\ Ignored(Head(queue)) /\ ~Shows(Head(queue))
             /\ UNCHANGED <<errors, committed, shown, probe, reader, ending>>
    <3>1. Phases' /\ ending' # "done"
      BY <1>d, <2>1, <2>6 DEF Phases
    <3>2. QED
      BY <2>2, <2>6, <2>a, <3>1 DEF DoneIsWhole
  <2>7. QED
    BY <1>4, <2>3, <2>4, <2>5, <2>6 DEF Read
<1>5. CASE GetTimesOut
  <2>1. CancelAll
    BY <1>5 DEF GetTimesOut, LeaveWave
  <2>2. Phases' /\ ending' # "done"
    BY <1>5, <1>c, <1>d, <2>1 DEF GetTimesOut, LeaveWave, CancelAll, End, Phases
  <2>3. QED
    BY <1>5, <1>b, <1>c, <2>1, <2>2 DEF GetTimesOut, CancelAll, DoneIsWhole
<1>6. CASE BudgetFound
  <2>1. Phases' /\ ending' # "done"
    BY <1>6, <1>c, <1>d DEF BudgetFound, CancelAll, End, Phases
  <2>2. QED
    BY <1>6, <1>b, <1>c, <2>1 DEF BudgetFound, CancelAll, DoneIsWhole
<1>7. CASE Disconnect
  <2>1. Phases' /\ ending' # "done"
    BY <1>7, <1>c, <1>d DEF Disconnect, CancelAll, End, Phases
  <2>2. QED
    BY <1>7, <1>b, <1>c, <2>1 DEF Disconnect, CancelAll, DoneIsWhole
<1>8. CASE Ask
  <2>1. endpoint = "chat" /\ queue = <<>>
    BY <1>8 DEF Ask, Phases
  <2>2. tried \in Nat /\ Len(Roster) \in Nat /\ RacePool \in Nat
    BY RosterFacts DEF TypeOK
  <2>3. tried' >= tried /\
        probe' = [m \in Models |-> IF \E i \in tried + 1 .. tried' : m = Roster[i]
                                   THEN "open" ELSE probe[m]]
    <3>1. CASE tried = 0
      <4>1. tried' = Min({RacePool, Len(Roster)}) /\ tried + RacePool = RacePool
        BY <1>8, <2>2, <3>1 DEF Ask
      <4>2. tried' \in {RacePool, Len(Roster)}
        BY <2>2, <4>1, LeastOfTwo
      <4>3. QED
        BY <1>8, <2>2, <3>1, <4>1, <4>2 DEF Ask, Wave
    <3>2. CASE tried # 0
      <4>1. tried' = tried + 1 /\ tried + 1 .. tried' = {tried + 1}
        BY <1>8, <2>2, <3>2 DEF Ask
      <4>2. QED
        BY <1>8, <2>2, <3>2, <4>1 DEF Ask
    <3>3. QED
      BY <3>1, <3>2
  <2>4. QED
    BY <1>0, <1>8, <2>1, <2>3, WaveStarts DEF Ask
<1>9. CASE Choose
  <2>1. endpoint = "chat" /\ reader = "reading" /\ queue = <<>> /\ committed = NoModel
        /\ shown = <<>> /\ Running = {}
    BY <1>9 DEF Choose, Phases, Winner
  <2>2. CASE committed' = committed /\ shown' = shown
    <3>1. Phases' /\ DoneIsWhole'
      BY <1>9, <2>1, <2>2 DEF Choose, End, Phases, DoneIsWhole, Running
    <3>2. QED
      BY <1>9, <1>b, <2>2, <3>1 DEF Choose
  <2>3. CASE \E m \in Models : /\ End("done") /\ committed' = m
                             /\ \E cutOff \in SUBSET {"thought", "aside"} :
                                  shown' = <<[from |-> m, n |-> 1, aloud |-> cutOff]>>
    <3>1. PICK m \in Models, cutOff \in SUBSET {"thought", "aside"} :
            /\ End("done") /\ committed' = m
            /\ shown' = <<[from |-> m, n |-> 1, aloud |-> cutOff]>>
      BY <2>3
    <3>2. DOMAIN shown' = {1} /\ shown'[1] = [from |-> m, n |-> 1, aloud |-> cutOff]
          /\ Len(shown') = 1
      BY <3>1
    <3>3. AnswerIsFaithful'
      BY <1>9, <2>1, <3>1, <3>2
         DEF Choose, AnswerIsFaithful, OneVoice, DoneIsWhole, ThoughtsHidden
    <3>4. Winner'
      BY <1>9, <2>1, <3>1, <3>2, RosterFacts DEF Choose, Winner
    <3>5. Phases'
      BY <1>9, <2>1, <3>1 DEF Choose, End, Phases, Running
    <3>6. Numbered' /\ Ordered'
      BY <1>9, <2>1 DEF Choose, Numbered, Ordered
    <3>7. Complete'
      BY <1>9, <2>1 DEF Choose, Complete, Running
    <3>8. Unstarted'
      BY <1>9 DEF Choose, Unstarted
    <3>a. StreamInv'
      BY <1>9 DEF Choose, stream, StreamInv
    <3>9. QED
      BY <1>0, <3>3, <3>4, <3>5, <3>6, <3>7, <3>8, <3>a DEF RaceInv
  <2>4. CASE Decisive # {}
    <3>1. Decisive \subseteq Nat /\ Decisive \subseteq 1 .. Len(Roster)
      BY RosterFacts DEF Decisive, TypeOK
    <3>2. Roster[Min(Decisive)] \in Models
      BY <2>4, <3>1, LeastIsMember, RosterFacts
    <3>3. QED
      BY <1>9, <2>2, <2>3, <2>4, <3>2 DEF Choose
  <2>5. QED
    BY <1>9, <2>2, <2>4 DEF Choose
<1>10. CASE GiveUp
  <2>1. Phases' /\ DoneIsWhole'
    BY <1>10 DEF GiveUp, End, Phases, DoneIsWhole, Running
  <2>2. QED
    BY <1>10, <1>b, <2>1 DEF GiveUp
<1>e. \A m \in Models : said[m] \in Nat /\ said[m] + 1 > said[m] /\ ~(said[m] > said[m])
  BY DEF TypeOK
<1>11. ASSUME NEW m \in Models, Chunk(m) PROVE RaceInv'
  <2>1. /\ StreamInv'
        /\ \/ UNCHANGED <<queue, said>>
           \/ \E ps : Put(m, ps) /\ "thought" \notin Range(ps)
    BY <1>11, ChunkStep
  <2>2. \A x \in Models \ {m} : mind'[x] = mind[x]
    BY <1>11 DEF Chunk, TypeOK
  <2>3. CASE UNCHANGED <<queue, said>>
    <3>1. /\ said' = [said EXCEPT ![m] = said'[m]] /\ said'[m] = said[m]
          /\ Len(queue') = Len(queue) /\ \A i \in 1 .. Len(queue) : queue'[i] = queue[i]
          /\ Len(queue) + 1 .. Len(queue') = {}
      BY <1>a, <2>3 DEF TypeOK
    <3>2. QED
      BY <1>0, <1>11, <1>a, <1>e, <2>1, <2>2, <3>1, Growth DEF Chunk
  <2>4. ASSUME NEW ps, Put(m, ps), "thought" \notin Range(ps) PROVE RaceInv'
    <3> DEFINE it == ItemOf("token", m, Range(ps))
    <3>1. it \in Item
      BY ItemTypes
    <3>2. it.kind = "token" /\ it.token.from = m /\ it.token.n = said[m] + 1
          /\ "thought" \notin it.token.aloud
      BY <2>4 DEF ItemOf, TokenOf
    <3>3. queue' = Append(queue, it)
      BY <2>4 DEF Put
    <3> HIDE DEF it
    <3>4. /\ Len(queue') = Len(queue) + 1 /\ \A i \in 1 .. Len(queue) : queue'[i] = queue[i]
          /\ queue'[Len(queue) + 1] = it
      BY <1>a, <3>1, <3>3, AppendProperties
    <3>5. /\ said' = [said EXCEPT ![m] = said'[m]] /\ said'[m] = said[m] + 1
      BY <2>4 DEF Put, TypeOK
    <3>6. \A i \in Len(queue) + 1 .. Len(queue') : i = Len(queue) + 1
      BY <1>a, <3>4
    <3>7. \A i \in Len(queue) + 1 .. Len(queue') :
            /\ From(i)' = m /\ Spoken(i)' /\ Number(i)' = said[m] + 1
            /\ "thought" \notin queue'[i].token.aloud
      BY <3>2, <3>4, <3>6 DEF From, Spoken, Number
    <3>8. Len(queue) + 1 \in Len(queue) + 1 .. Len(queue')
      BY <1>a, <3>4
    <3>9. Len(queue') >= Len(queue)
      BY <1>a, <3>4
    <3>10. QED
      BY <1>0, <1>11, <2>1, <2>2, <3>4, <3>5, <3>6, <3>7, <3>8, <3>9, Growth DEF Chunk
  <2>5. QED
    BY <2>1, <2>3, <2>4
<1>12. ASSUME NEW m \in Models, Done(m) PROVE RaceInv'
  <2> DEFINE it == ItemOf("token", m, Cleaned(pre[m]))
             end == ItemOf("done", m, {})
  <2>1. it \in Item /\ end \in Item
    BY ItemTypes
  <2>2. /\ it.kind = "token" /\ it.token.from = m /\ it.token.n = said[m] + 1
        /\ "thought" \in it.token.aloud => mind[m] = "thinking"
        /\ end.kind = "done" /\ end.token.from = m
    BY FlushHides DEF ItemOf, TokenOf
  <2>3. EndItems(m) = IF Held(m) THEN Append(<<it>>, end) ELSE Append(<<>>, end)
    BY DEF EndItems, Flush
  <2>4. queue' = queue \o EndItems(m)
    BY <1>12 DEF Done
  <2> HIDE DEF it, end
  <2>5. /\ said' = [said EXCEPT ![m] = said'[m]]
        /\ said'[m] = IF Held(m) THEN said[m] + 1 ELSE said[m]
        /\ probe' = [probe EXCEPT ![m] = "ended"] /\ probe'[m] = "ended"
        /\ mind' = mind /\ StreamInv'
    BY <1>12 DEF Done, TypeOK, stream, StreamInv
  <2>6. CASE Held(m)
    <3> DEFINE es == Append(<<it>>, end)
    <3>0. <<it>> \in Seq(Item) /\ Len(<<it>>) = 1 /\ <<it>>[1] = it
      BY <2>1
    <3>1. es \in Seq(Item) /\ Len(es) = 2 /\ es[1] = it /\ es[2] = end
      BY <2>1, <3>0, AppendProperties
    <3> HIDE DEF es
    <3>a. queue' = queue \o es
      BY <2>3, <2>4, <2>6 DEF es
    <3>2. /\ Len(queue') = Len(queue) + 2 /\ \A i \in 1 .. Len(queue) : queue'[i] = queue[i]
          /\ queue'[Len(queue) + 1] = it /\ queue'[Len(queue) + 2] = end
      <4>1. 1 \in 1 .. Len(es) /\ 2 \in 1 .. Len(es)
        BY <3>1
      <4>2. /\ Len(queue \o es) = Len(queue) + Len(es)
            /\ \A i \in 1 .. Len(queue) : (queue \o es)[i] = queue[i]
            /\ \A i \in 1 .. Len(es) : (queue \o es)[Len(queue) + i] = es[i]
        <5>1. queue \in Seq(Item) /\ es \in Seq(Item)
          BY <1>a, <3>1
        <5> HIDE <1>i
        <5>2. QED
          BY <5>1, Behind
      <4>3. QED
        BY <3>1, <3>a, <4>1, <4>2
    <3>3. \A i \in Len(queue) + 1 .. Len(queue') : i \in {Len(queue) + 1, Len(queue) + 2}
      BY <1>a, <3>2
    <3>4. \A i \in Len(queue) + 1 .. Len(queue') :
            /\ From(i)' = m
            /\ i = Len(queue) + 1 => Spoken(i)'
            /\ Spoken(i)' => /\ i = Len(queue) + 1 /\ Number(i)' = said[m] + 1
                             /\ "thought" \in queue'[i].token.aloud => mind'[m] = "thinking"
      BY <2>2, <2>5, <3>2, <3>3 DEF From, Spoken, Number
    <3>5. Len(queue) + 1 \in Len(queue) + 1 .. Len(queue')
      BY <1>a, <3>2
    <3>6. Len(queue') >= Len(queue)
      BY <1>a, <3>2
    <3>7. \E i \in Len(queue) + 1 .. Len(queue') : Spoken(i)'
      BY <3>4, <3>5
    <3>8. QED
      BY <1>0, <1>12, <2>5, <2>6, <3>2, <3>4, <3>6, <3>7, Growth DEF Done
  <2>7. CASE ~Held(m)
    <3> DEFINE es == Append(<<>>, end)
    <3>1. es \in Seq(Item) /\ Len(es) = 1 /\ es[1] = end
      BY <2>1, EmptySeq, AppendProperties
    <3> HIDE DEF es
    <3>a. queue' = queue \o es
      BY <2>3, <2>4, <2>7 DEF es
    <3>2. /\ Len(queue') = Len(queue) + 1 /\ \A i \in 1 .. Len(queue) : queue'[i] = queue[i]
          /\ queue'[Len(queue) + 1] = end
      <4>1. 1 \in 1 .. Len(es)
        BY <3>1
      <4>2. /\ Len(queue \o es) = Len(queue) + Len(es)
            /\ \A i \in 1 .. Len(queue) : (queue \o es)[i] = queue[i]
            /\ \A i \in 1 .. Len(es) : (queue \o es)[Len(queue) + i] = es[i]
        <5>1. queue \in Seq(Item) /\ es \in Seq(Item)
          BY <1>a, <3>1
        <5> HIDE <1>i
        <5>2. QED
          BY <5>1, Behind
      <4>3. QED
        BY <3>1, <3>a, <4>1, <4>2
    <3>3. \A i \in Len(queue) + 1 .. Len(queue') : i = Len(queue) + 1
      BY <1>a, <3>2
    <3>4. \A i \in Len(queue) + 1 .. Len(queue') : From(i)' = m /\ ~Spoken(i)'
      BY <2>2, <3>2, <3>3 DEF From, Spoken
    <3>5. Len(queue') >= Len(queue)
      BY <1>a, <3>2
    <3>6. QED
      BY <1>0, <1>12, <1>e, <2>5, <2>7, <3>2, <3>4, <3>5, Growth DEF Done
  <2>8. QED
    BY <2>6, <2>7
<1>13. ASSUME NEW m \in Models, Fails(m) PROVE RaceInv'
  <2> DEFINE it == ItemOf("error", m, {})
  <2>1. it \in Item /\ it.kind = "error" /\ it.token.from = m
    BY ItemTypes DEF ItemOf, TokenOf
  <2>2. queue' \in {queue, Append(queue, it)}
    BY <1>13 DEF Fails
  <2> HIDE DEF it
  <2>3. /\ said' = [said EXCEPT ![m] = said'[m]] /\ said'[m] = said[m] /\ mind' = mind
        /\ probe' = [probe EXCEPT ![m] = "ended"] /\ probe'[m] = "ended" /\ StreamInv'
    BY <1>13 DEF Fails, TypeOK, stream, StreamInv
  <2>4. /\ \A i \in 1 .. Len(queue) : queue'[i] = queue[i]
        /\ \A i \in Len(queue) + 1 .. Len(queue') : queue'[i] = it
        /\ Len(queue') >= Len(queue)
    <3>1. CASE queue' = queue
      BY <1>a, <3>1
    <3>2. CASE queue' = Append(queue, it)
      <4>1. /\ Len(queue') = Len(queue) + 1 /\ \A i \in 1 .. Len(queue) : queue'[i] = queue[i]
            /\ queue'[Len(queue) + 1] = it
        BY <1>a, <2>1, <3>2, AppendProperties
      <4>2. \A i \in Len(queue) + 1 .. Len(queue') : i = Len(queue) + 1
        BY <1>a, <4>1
      <4>3. QED
        BY <1>a, <4>1, <4>2
    <3>3. QED
      BY <2>2, <3>1, <3>2
  <2>5. \A i \in Len(queue) + 1 .. Len(queue') : From(i)' = m /\ ~Spoken(i)'
    BY <2>1, <2>4 DEF From, Spoken
  <2>6. QED
    BY <1>0, <1>13, <1>e, <2>3, <2>4, <2>5, Growth DEF Fails
<1>14. ASSUME NEW m \in Models, CallEnds(m) PROVE RaceInv'
  <2>1. \A x \in Models : \/ probe'[x] = probe[x]
                          \/ probe[x] = "open" /\ probe'[x] \notin {"open", "none"}
    BY <1>14 DEF CallEnds, TypeOK
  <2>2. Phases' /\ DoneIsWhole'
    BY <1>14, <2>1 DEF CallEnds, Phases, DoneIsWhole, Running
  <2>3. QED
    BY <1>14, <1>b, <2>1, <2>2 DEF CallEnds
<1>15. QED
  BY <1>1, <1>2, <1>3, <1>4, <1>5, <1>6, <1>7, <1>8, <1>9, <1>10, <1>11, <1>12,
     <1>13, <1>14 DEF Next, Handle

\* So it holds of every behaviour.
LEMMA RaceInvAlways == Spec => []RaceInv
BY RaceInvInit, RaceInvStep, PTL DEF Spec

\* The variables of a race keep their types, for any roster and any streams.
THEOREM RaceTypeCorrect == Spec => []TypeOK
<1>1. RaceInv => TypeOK
  BY DEF RaceInv
<1>2. QED
  BY RaceInvAlways, <1>1, PTL

\* The customer reads one model's answer from its first token on, without a gap,
\* and all that its parser passed on when it is closed with "done": whatever the
\* models put on the queue, in any order, and whenever the winner is found, the
\* budget ends or a wave is left.  The thoughts a stream begins with are not in
\* it, however they are cut into chunks, unless the stream ended inside them;
\* those of later blocks may be.
THEOREM OneModelAnswers == Spec => []AnswerIsFaithful
<1>1. RaceInv => AnswerIsFaithful
  BY DEF RaceInv
<1>2. QED
  BY RaceInvAlways, <1>1, PTL

\* When the answer is over no call to a model is still open.
THEOREM CallsAreEnded == Spec => []NothingLeftBehind
<1>1. RaceInv => NothingLeftBehind
  BY DEF RaceInv, Phases, NothingLeftBehind
<1>2. QED
  BY RaceInvAlways, <1>1, PTL

-----------------------------------------------------------------------------
(* The components side by side.                                            *)

\* What holds of the components holds of the three together.
LEMMA ComponentsRun == ServicesSpec => Spec /\ B!Spec /\ P!Spec
<1>1. ServicesInit => Init /\ B!Init /\ P!Init
  BY DEF ServicesInit
<1>2. [ServicesNext]_<<vars, breaker, pool, part>>
        => [Next]_vars /\ [B!Next]_(B!vars) /\ [P!Next]_(P!vars)
  BY DEF ServicesNext, vars, breaker, pool, B!vars, B!breaker, P!vars
<1>3. QED
  BY <1>1, <1>2, PTL DEF ServicesSpec, Spec, B!Spec, P!Spec

\* So each invariant the run checks is one of the three components side by side.
THEOREM ServicesCorrect ==
  ServicesSpec => [](AnswerIsFaithful /\ NothingLeftBehind /\ OpensAtThreshold)
BY ComponentsRun, OneModelAnswers, CallsAreEnded, StateAgreesWithCount, PTL
=============================================================================
