-------------------------- MODULE SignificantTokens --------------------------
(***************************************************************************)
(* What the parser relies on when it calls peek_token and next_token: the  *)
(* significant tokens come one after the other, each exactly once, however *)
(* much trivia lies between them and whoever has asked for trivia before.  *)
(* Tokens are represented by their positions.                              *)
(***************************************************************************)
EXTENDS Naturals

VARIABLES
  stream,    \* the significant tokens
  rest,      \* the ones that have not been consumed
  last       \* the token that was returned last, 0 at first

First(S, p) == p \in S /\ \A q \in S : p <= q
Last(S, p) == p \in S /\ \A q \in S : q <= p

SInit == rest = stream /\ last = 0

Consume == First(rest, last') /\ rest' = rest \ {last'}
Look == First(rest, last') /\ UNCHANGED rest
Trivia == last' \notin stream /\ UNCHANGED rest
\* When the stream is used up its last token is returned for ever.
Exhausted == rest = {} /\ Last(stream, last') /\ UNCHANGED rest

SNext == UNCHANGED stream /\ (Consume \/ Look \/ Trivia \/ Exhausted)
SSpec == SInit /\ [][SNext]_<< stream, rest, last >>
=============================================================================
