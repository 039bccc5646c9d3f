------------------------------ MODULE MCCustomer ------------------------------
(* Customer for TLC: two sessions, two worker threads, values about every      *)
(* threshold of the tables (and whole hundreds of reais), and codes of every   *)
(* kind.                                                                       *)
EXTENDS Customer, Sequences

CONSTANTS w1, w2

\* Ids that spell tags (one only without its hyphens), one with the length and the
\* hyphens of a UUID, and a checksum that reads as its own tag.
MCIds == {<<10, 10, 10>>, <<5, 4, 0, 1, 9>>, <<6, 11, 3, 0, 4, 11, 1, 2>>,
          [i \in 1 .. 36 |-> IF i \in {9, 14, 19, 24} THEN 11 ELSE i % 10]}
MCAmounts == {<<1, 10, 0, 0>>, <<5, 4, 10, 0, 2>>}
MCCrcs == {<<1, 2, 10, 9>>, <<6, 3, 0, 4>>, <<3, 0, 4, 6>>}
=============================================================================
