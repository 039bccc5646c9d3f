------------------------------ MODULE MCServices ------------------------------
(* Services for TLC: three models in waves of two; one worker thread and the  *)
(* event loop inside one breaker; two workers and the webhook at two          *)
(* connections, with more requests than connections.                          *)
EXTENDS Services

CONSTANTS m1, m2, m3, a, t1, t2

MCRoster == <<m1, m2, m3>>

\* A model speaks, begins with a tag that is none of its thoughts', thinks, or
\* ends its thoughts and begins others: a block comes in pieces, behind a tag,
\* behind text and behind another block.
MCChunks ==
  {<<"text">>, <<"tag">>, <<"open", "thought">>, <<"close", "open", "aside">>}
=============================================================================
