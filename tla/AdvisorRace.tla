----------------------------- MODULE AdvisorRace -----------------------------
(***************************************************************************)
(* One question to the advisor.                                            *)
(*                                                                         *)
(* The streaming chat races the models of the roster in waves: a task per  *)
(* model parses its stream, holds back what the model thinks aloud, and    *)
(* puts tokens, an end or an error on the wave's queue; the reader commits *)
(* to the first model with a token, cancels the others and passes on what  *)
(* the winner says.  The plain chat asks the first wave at once, waits for *)
(* all of it, and asks the rest one by one.                                *)
(***************************************************************************)
EXTENDS Integers, Sequences, FiniteSets, FiniteSetsExt, Functions

CONSTANTS
  Models,
  Roster,     \* _LLM_MODELS: the models in the order they are tried
  RacePool,   \* _RACE_POOL_SIZE: models raced in one wave
  NoModel,    \* no winner yet
  Chunks,     \* what a model may send at once
  MaxChunks   \* bound: chunks a model sends

\* What a model says, as the parser tells it apart: "<think>" and "</think>",
\* another tag or as much of one as has come, plain text, and what is thought
\* aloud: a "thought" of the block a stream begins with, an "aside" in a later
\* one.  Blanks are nothing.
Parts == {"open", "close", "tag", "text", "thought", "aside"}

ASSUME RaceAssumption ==
  /\ Roster \in Seq(Models)
  /\ \A i, j \in 1 .. Len(Roster) : Roster[i] = Roster[j] => i = j
  /\ RacePool \in Nat \ {0}
  /\ NoModel \notin Models
  /\ Chunks \subseteq Seq(Parts)
  /\ MaxChunks \in Nat

VARIABLES
  inBudget,   \* _TOTAL_BUDGET_SECONDS have not passed yet
  endpoint,   \* "chat/stream" or "chat"
  reader,     \* what the handler does: "between" waves, "reading", or "over"
  tried,      \* how many models of the roster were started
  probe,      \* probe[m]: its task or call: "none", "open", or how it ended
  phase,      \* phase[m]: the parser of its stream
  pre,        \* pre[m]: what the parser holds back
  mind,       \* mind[m]: what the model is really at
  chunks,     \* chunks[m]: how many it has sent
  said,       \* said[m]: how many tokens its task put on the queue
  queue,      \* the wave's queue
  errors,     \* wave_errors
  committed,  \* the winner, or NoModel
  shown,      \* the tokens the customer was sent
  ending      \* the last event: "none", "done" or "error", or "gone"

stream == <<phase, pre, mind, chunks>>
vars == <<inBudget, endpoint, reader, tried, probe, stream, said, queue,
          errors, committed, shown, ending>>

\* "aloud": what of a model's thinking the token passes on.
Token == [from : Models, n : Nat, aloud : SUBSET {"thought", "aside"}]
Item == [kind : {"token", "done", "error"}, token : Token]

TypeOK ==
  /\ inBudget \in BOOLEAN
  /\ endpoint \in {"chat/stream", "chat"}
  /\ reader \in {"between", "reading", "over"}
  /\ tried \in 0 .. Len(Roster)
  /\ probe \in [Models -> {"none", "open", "ended", "replied", "denied", "cancelled"}]
  /\ phase \in [Models -> {"buffering", "thinking", "streaming"}]
  /\ pre \in [Models -> Seq(Parts)]
  /\ mind \in [Models -> {"silent", "thinking", "speaking"}]
  /\ chunks \in [Models -> 0 .. MaxChunks]
  /\ said \in [Models -> Nat]
  /\ queue \in Seq(Item)
  /\ errors \in Nat
  /\ committed \in Models \cup {NoModel}
  /\ shown \in Seq(Token)
  /\ ending \in {"none", "done", "error", "gone"}

Init ==
  /\ inBudget = TRUE
  /\ endpoint \in {"chat/stream", "chat"}
  /\ reader = "between" /\ tried = 0
  /\ probe = [m \in Models |-> "none"]
  /\ phase = [m \in Models |-> "buffering"]
  /\ pre = [m \in Models |-> <<>>]
  /\ mind = [m \in Models |-> "silent"]
  /\ chunks = [m \in Models |-> 0]
  /\ said = [m \in Models |-> 0]
  /\ queue = <<>> /\ errors = 0
  /\ committed = NoModel
  /\ shown = <<>> /\ ending = "none"

BudgetEnds ==
  /\ inBudget
  /\ inBudget' = FALSE
  /\ UNCHANGED <<endpoint, reader, tried, probe, stream, said, queue,
                 errors, committed, shown, ending>>

Running == {m \in Models : probe[m] = "open"}

-----------------------------------------------------------------------------
(* What a model says.                                                      *)

\* What tells of the model's mind in front of its next chunk.
Context == [silent |-> <<>>, thinking |-> <<"open">>, speaking |-> <<"text">>]

\* Position i lies in the block of thoughts that ps, the stream from where it
\* matters on, begins with: blanks and tags may come before it.
Thinks(ps, i) ==
  \E o \in DOMAIN ps :
    /\ o < i /\ ps[o] = "open"
    /\ \A j \in 1 .. (o - 1) : ps[j] = "tag"
    /\ \A j \in (o + 1) .. (i - 1) : ps[j] # "close"

WellFormed(ps) ==
  \A i \in DOMAIN ps : ps[i] = "thought" <=> Thinks(ps, i) /\ ps[i] # "close"

\* A tag that was passed on was none that begins a block of thoughts.
MindAfter(ps, passedOn) ==
  IF Thinks(ps, Len(ps) + 1) THEN "thinking"
  ELSE IF passedOn \/ \E i \in DOMAIN ps : ps[i] # "tag" THEN "speaking"
  ELSE "silent"

-----------------------------------------------------------------------------
(* _probe: the task of one model.                                          *)

TokenOf(m, parts) ==
  [from |-> m, n |-> said[m] + 1, aloud |-> parts \cap {"thought", "aside"}]
ItemOf(kind, m, parts) == [kind |-> kind, token |-> TokenOf(m, parts)]

Put(m, ps) ==
  /\ queue' = Append(queue, ItemOf("token", m, Range(ps)))
  /\ said' = [said EXCEPT ![m] = @ + 1]

\* Faulty variant of HoldBack: what is held back is passed on as well.
PassOn(m, ps) == Put(m, ps)

HoldBack(m, ps) == UNCHANGED <<queue, said>>

Parser(m, state, held) ==
  /\ phase' = [phase EXCEPT ![m] = state]
  /\ pre' = [pre EXCEPT ![m] = held]

\* Something in front of "<think>" does not keep the block from being found,
\* though it will be dropped with the block.  What begins with a tag is held
\* back until it is known not to be "<think>", text is passed on, and the
\* parser looks for nothing any more.
Buffer(m, ps) ==
  \/ /\ "open" \in Range(ps)
     /\ Parser(m, "thinking", ps)
     /\ HoldBack(m, ps)
  \/ /\ "open" \notin Range(ps)
     /\ ps = <<>> \/ Head(ps) = "tag"
     /\ Parser(m, "buffering", ps)
     /\ HoldBack(m, ps)
  \/ /\ "open" \notin Range(ps)
     /\ ps # <<>>
     /\ Parser(m, "streaming", <<>>)
     /\ Put(m, ps)

\* Up to the first "</think>" all is dropped; what is behind it is passed on
\* as it is.
Drop(m, ps) ==
  \/ /\ "close" \notin Range(ps)
     /\ Parser(m, "thinking", ps)
     /\ HoldBack(m, ps)
  \/ \E i \in DOMAIN ps :
       /\ ps[i] = "close" /\ \A j \in 1 .. (i - 1) : ps[j] # "close"
       /\ Parser(m, "streaming", <<>>)
       /\ IF i = Len(ps)
          THEN UNCHANGED <<queue, said>>
          ELSE Put(m, SubSeq(ps, i + 1, Len(ps)))

\* A chunk moves the parser on.
Chunk(m) ==
  /\ endpoint = "chat/stream"
  /\ probe[m] = "open"
  /\ chunks[m] < MaxChunks
  /\ chunks' = [chunks EXCEPT ![m] = @ + 1]
  /\ \E c \in Chunks :
       /\ WellFormed(Context[mind[m]] \o c)
       /\ \/ phase[m] = "buffering" /\ Buffer(m, pre[m] \o c)
          \/ phase[m] = "thinking" /\ Drop(m, pre[m] \o c)
          \/ /\ phase[m] = "streaming"
             /\ Put(m, c)
             /\ UNCHANGED <<phase, pre>>
       /\ mind' = [mind EXCEPT ![m] =
                     MindAfter(Context[@] \o c, phase'[m] = "streaming")]
  /\ UNCHANGED <<inBudget, endpoint, reader, tried, probe, errors, committed,
                 shown, ending>>

\* _THINKING_RE: the expression that removes thoughts removes closed blocks.
InClosedBlock(ps, i) ==
  \E o, c \in DOMAIN ps :
    /\ ps[o] = "open" /\ ps[c] = "close"
    /\ o <= i /\ i <= c
    /\ \A j \in (o + 1) .. (i - 1) : ps[j] # "close"

Cleaned(ps) == {ps[i] : i \in {j \in DOMAIN ps : ~InClosedBlock(ps, j)}}

Held(m) == Cleaned(pre[m]) # {}

Flush(m) ==
  IF Held(m) THEN <<ItemOf("token", m, Cleaned(pre[m]))>> ELSE <<>>

\* Faulty variant of EndItems: the end overtakes what was held back.
EndItemsFirst(m) == <<ItemOf("done", m, {})>> \o Flush(m)

EndItems(m) == Append(Flush(m), ItemOf("done", m, {}))

\* [DONE] flushes what was held back.
Done(m) ==
  /\ endpoint = "chat/stream"
  /\ probe[m] = "open"
  /\ probe' = [probe EXCEPT ![m] = "ended"]
  /\ queue' = queue \o EndItems(m)
  /\ said' = [said EXCEPT ![m] = IF Held(m) THEN @ + 1 ELSE @]
  /\ UNCHANGED <<inBudget, endpoint, reader, tried, stream, errors, committed,
                 shown, ending>>

\* The model refuses, fails or is silent for too long: an error.  A stream that
\* just ends leaves nothing on the queue.
Fails(m) ==
  /\ endpoint = "chat/stream"
  /\ probe[m] = "open"
  /\ probe' = [probe EXCEPT ![m] = "ended"]
  /\ queue' \in {queue, Append(queue, ItemOf("error", m, {}))}
  /\ UNCHANGED <<inBudget, endpoint, reader, tried, stream, said, errors,
                 committed, shown, ending>>

-----------------------------------------------------------------------------
(* _race_stream and the generator that sends its events.                   *)

\* Faulty variant of CancelAll: losers are cancelled at the commit only.
CancelNone == UNCHANGED probe

Cancel(ms) ==
  probe' = [m \in Models |-> IF m \in ms /\ m \in Running THEN "cancelled" ELSE probe[m]]

CancelAll == Cancel(Models)

\* The generator returns, and the stream with it.
End(how) ==
  /\ reader' = "over"
  /\ ending' = how

Wave == {Roster[i] : i \in (tried + 1) .. Min({tried + RacePool, Len(Roster)})}

FreshQueue == queue' = <<>> /\ errors' = 0

\* Without budget or models left the customer gets an error.
NextWave ==
  /\ endpoint = "chat/stream"
  /\ reader = "between"
  /\ IF inBudget /\ tried < Len(Roster)
     THEN /\ reader' = "reading"
          /\ tried' = Min({tried + RacePool, Len(Roster)})
          /\ probe' = [m \in Models |-> IF m \in Wave THEN "open" ELSE probe[m]]
          /\ FreshQueue
          /\ UNCHANGED ending
     ELSE /\ End("error")
          /\ UNCHANGED <<tried, probe, queue, errors>>
  /\ UNCHANGED <<inBudget, endpoint, stream, said, committed, shown>>

\* The models of the wave at work: those that were started last.
WaveSize == IF tried % RacePool = 0 THEN RacePool ELSE tried % RacePool

\* The reader leaves the wave: with a winner the answer is cut off.
LeaveWave ==
  /\ CancelAll
  /\ IF committed # NoModel
     THEN End("error")
     ELSE reader' = "between" /\ UNCHANGED ending

Ignored(i) == committed # NoModel /\ i.token.from # committed

\* Faulty variant of Shows: the tokens of every model are passed on.
ShowsAll(i) == i.kind = "token"

Shows(i) == i.kind = "token" /\ ~Ignored(i)

\* A first token commits to its model; an end before it ends the stream.
Read ==
  /\ reader = "reading" /\ inBudget
  /\ queue # <<>>
  /\ queue' = Tail(queue)
  /\ LET i == Head(queue) IN
       \/ /\ i.kind = "error"
          /\ errors' = errors + 1
          /\ IF errors' >= WaveSize /\ committed = NoModel
             THEN LeaveWave
             ELSE UNCHANGED <<probe, reader, ending>>
          /\ UNCHANGED <<committed, shown>>
       \/ /\ Shows(i)
          /\ shown' = Append(shown, i.token)
          /\ IF committed = NoModel
             THEN /\ committed' = i.token.from
                  /\ Cancel(Models \ {i.token.from})
             ELSE UNCHANGED <<committed, probe>>
          /\ UNCHANGED <<errors, reader, ending>>
       \/ /\ i.kind = "done" /\ ~Ignored(i)
          /\ CancelAll
          /\ End("done")
          /\ UNCHANGED <<errors, committed, shown>>
       \/ /\ i.kind # "error" /\ Ignored(i) /\ ~Shows(i)
          /\ UNCHANGED <<errors, committed, shown, probe, reader, ending>>
  /\ UNCHANGED <<inBudget, endpoint, tried, stream, said>>

\* Faulty variant of WaitEnds: the queue is waited for without a timeout.
WaitsForEver == FALSE

\* wait_for(result_q.get()) times out when nothing comes.
WaitEnds == queue = <<>>

GetTimesOut ==
  /\ endpoint = "chat/stream"
  /\ reader = "reading"
  /\ WaitEnds
  /\ LeaveWave
  /\ UNCHANGED <<inBudget, endpoint, tried, stream, said, queue, errors,
                 committed, shown>>

BudgetFound ==
  /\ reader = "reading" /\ ~inBudget
  /\ queue # <<>>
  /\ CancelAll
  /\ End("error")
  /\ UNCHANGED <<inBudget, endpoint, tried, stream, said, queue, errors,
                 committed, shown>>

\* The customer closes the connection: the generators are closed.
Disconnect ==
  /\ endpoint = "chat/stream"
  /\ reader = "reading"
  /\ CancelAll
  /\ End("gone")
  /\ UNCHANGED <<inBudget, endpoint, tried, stream, said, queue, errors,
                 committed, shown>>

-----------------------------------------------------------------------------
(* ia_chat.                                                                *)

\* _try_one ends: with a reply, without one, or refused for the credential.
CallEnds(m) ==
  /\ endpoint = "chat"
  /\ probe[m] = "open"
  /\ \E how \in {"replied", "ended", "denied"} : probe' = [probe EXCEPT ![m] = how]
  /\ UNCHANGED <<inBudget, endpoint, reader, tried, stream, said, queue,
                 errors, committed, shown, ending>>

\* The first wave at once, then one at a time; the budget is looked at before
\* each of the others.
Ask ==
  /\ endpoint = "chat"
  /\ reader = "between"
  /\ tried = 0 \/ (inBudget /\ tried < Len(Roster))
  /\ LET ms == IF tried = 0 THEN Wave ELSE {Roster[tried + 1]} IN
       /\ probe' = [m \in Models |-> IF m \in ms THEN "open" ELSE probe[m]]
       /\ tried' = IF tried = 0 THEN Min({RacePool, Len(Roster)}) ELSE tried + 1
  /\ reader' = "reading"
  /\ UNCHANGED <<inBudget, endpoint, stream, said, queue, errors,
                 committed, shown, ending>>

\* Positions of the answers that decide.
Decisive == {i \in 1 .. tried : probe[Roster[i]] \in {"replied", "denied"}}

\* The first decisive answer in the order of the roster; a refused credential
\* is an error even when a model behind it replied.  A thought that the reply
\* was cut off in stays in it: again closed blocks only are removed.
Choose ==
  /\ endpoint = "chat"
  /\ reader = "reading"
  /\ Running = {}
  /\ IF Decisive = {}
     THEN /\ reader' = "between"
          /\ UNCHANGED <<ending, committed, shown>>
     ELSE LET m == Roster[Min(Decisive)] IN
          IF probe[m] = "denied"
          THEN /\ End("error")
               /\ UNCHANGED <<committed, shown>>
          ELSE /\ End("done")
               /\ committed' = m
               /\ \E cutOff \in SUBSET {"thought", "aside"} :
                    shown' = <<[from |-> m, n |-> 1, aloud |-> cutOff]>>
  /\ UNCHANGED <<inBudget, endpoint, tried, probe, stream, said, queue,
                 errors>>

GiveUp ==
  /\ endpoint = "chat"
  /\ reader = "between"
  /\ tried > 0 /\ ~(inBudget /\ tried < Len(Roster))
  /\ End("error")
  /\ UNCHANGED <<inBudget, endpoint, tried, probe, stream, said, queue,
                 errors, committed, shown>>

-----------------------------------------------------------------------------
Handle == NextWave \/ Read \/ GetTimesOut \/ BudgetFound \/ Ask \/ Choose \/ GiveUp

Next ==
  \/ BudgetEnds \/ Handle \/ Disconnect
  \/ \E m \in Models : Chunk(m) \/ Done(m) \/ Fails(m) \/ CallEnds(m)

Spec == Init /\ [][Next]_vars

\* The handler goes on, its timed wait included, and a call has a timeout.
FairSpec ==
  /\ Spec
  /\ WF_vars(Handle)
  /\ \A m \in Models : WF_vars(CallEnds(m))

-----------------------------------------------------------------------------
(* Properties.                                                             *)

\* The customer reads one model, from its first token on and without a gap,
\* whatever the losers still put on the queue before they were cancelled.
OneVoice ==
  \A i \in DOMAIN shown : shown[i].from = committed /\ shown[i].n = i

\* An answer that is closed with "done" is whole: everything that the parser of
\* a model which came to its end passed on, be it nothing.
DoneIsWhole ==
  endpoint = "chat/stream" /\ ending = "done"
    => \E m \in Models : /\ probe[m] = "ended"
                        /\ committed \in {m, NoModel}
                        /\ Len(shown) = said[m]

\* The block of thoughts that a stream begins with stays hidden, though tags
\* come before it and the parser sees it in pieces: only a stream that ended
\* inside the block shows of it, in its last token.
ThoughtsHidden ==
  \A i \in DOMAIN shown :
    endpoint = "chat/stream" /\ "thought" \in shown[i].aloud
      => /\ mind[committed] = "thinking" /\ probe[committed] = "ended"
         /\ i = said[committed]

\* What the customer reads is one model's answer, without a gap and without the
\* thoughts it began with, and when it is closed with "done" it is all that the
\* model's parser passed on.
AnswerIsFaithful == OneVoice /\ DoneIsWhole /\ ThoughtsHidden

\* No call outlives the request it was made for.
NothingLeftBehind == reader = "over" => Running = {}

\* The customer gets an answer or an error in the end, however silent, slow or
\* talkative the models are.
AnswerEnds == (reader = "between") ~> (reader = "over")
=============================================================================
