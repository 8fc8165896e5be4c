----------------------------- MODULE TokenCursor -----------------------------
(***************************************************************************)
(* next_token and peek_token (ast/parser/misc.cc): the cursor over the     *)
(* token list with its trivia.  Parser sees the significant tokens only.   *)
(*                                                                         *)
(* A call of either is a loop over the list; a step of the model is one    *)
(* turn of it.  Tokens are represented by their positions, from 1 on, so   *)
(* "cur" tokens have been passed when idx_current_token is cur.            *)
(***************************************************************************)
EXTENDS Naturals, Sequences

CONSTANTS Lists      \* the lists of token kinds the lexer may deliver

Trivia == {"NewLine", "Whitespace", "Comment"}
Kinds == Trivia \cup {"Significant", "End"}

ASSUME ListsAssumption ==
  \A s \in Lists : s \in Seq(Kinds) /\ s # << >> /\ s[Len(s)] = "End"

VARIABLES
  list,      \* token_list
  cur,       \* idx_current_token
  prev,      \* idx_prev_token
  pc,        \* "idle", or the function that runs
  keep,      \* its arguments: the trivia it is to return
  i,         \* peek_token's own position
  marked,    \* the tokens whose index has been assigned
  ret,       \* the token returned last, 0 at first
  held       \* what the caller holds of its last peek_token: token and keep

vars == << list, cur, prev, pc, keep, i, marked, ret, held >>

\* The tokens a call with these arguments returns and does not step over.
Kept(n, k) == list[n] \notin Trivia \ k

NotHeld == [token |-> 0, keep |-> {}]

Init ==
  /\ list \in Lists
  /\ cur = 0 /\ prev = 1
  /\ pc = "idle" /\ keep = {} /\ i = 0
  /\ marked = {}
  /\ ret = 0 /\ held = NotHeld

Call(f, k) ==
  /\ pc = "idle"
  /\ pc' = f /\ keep' = k
  /\ i' = cur
  /\ UNCHANGED << list, cur, prev, marked, ret, held >>

-----------------------------------------------------------------------------
(* next_token *)

\* Mutant: the position is advanced before the return and after it.
NextTurnTwice ==
  /\ pc = "next" /\ cur < Len(list)
  /\ marked' = marked \cup {cur + 1}
  /\ \/ /\ Kept(cur + 1, keep) /\ cur' = cur + 2
        /\ pc' = "idle" /\ ret' = cur + 1 /\ prev' = cur + 1 /\ held' = NotHeld
     \/ ~Kept(cur + 1, keep) /\ cur' = cur + 1 /\ UNCHANGED << pc, ret, prev, held >>
  /\ UNCHANGED << list, keep, i >>

\* One turn: the token is passed, and returned if it is kept.
NextTurn ==
  /\ pc = "next" /\ cur < Len(list)
  /\ marked' = marked \cup {cur + 1}
  /\ cur' = cur + 1
  /\ \/ /\ Kept(cur + 1, keep)
        /\ pc' = "idle" /\ ret' = cur + 1 /\ prev' = cur + 1 /\ held' = NotHeld
     \/ ~Kept(cur + 1, keep) /\ UNCHANGED << pc, ret, prev, held >>
  /\ UNCHANGED << list, keep, i >>

\* Mutant: the position is advanced past the end.
NextExhaustedPast ==
  /\ pc = "next" /\ cur >= Len(list)
  /\ cur' = cur + 1
  /\ pc' = "idle" /\ ret' = Len(list) /\ held' = NotHeld
  /\ UNCHANGED << list, prev, keep, i, marked >>

\* The list is used up: its last token is returned again.
NextExhausted ==
  /\ pc = "next" /\ cur = Len(list)
  /\ pc' = "idle" /\ ret' = Len(list) /\ held' = NotHeld
  /\ UNCHANGED << list, cur, prev, keep, i, marked >>

-----------------------------------------------------------------------------
(* peek_token *)

Hold(n) == pc' = "idle" /\ ret' = n /\ held' = [token |-> n, keep |-> keep]

\* Mutant: the index is assigned to the tokens that are stepped over only.
PeekTurnUnmarked ==
  /\ pc = "peek" /\ i < Len(list)
  /\ \/ Kept(i + 1, keep) /\ Hold(i + 1) /\ UNCHANGED << i, marked >>
     \/ /\ ~Kept(i + 1, keep) /\ i' = i + 1 /\ marked' = marked \cup {i + 1}
        /\ UNCHANGED << pc, ret, held >>
  /\ UNCHANGED << list, cur, prev, keep >>

\* Mutant: whitespace is returned whatever the arguments are.
PeekTurnSpace ==
  /\ pc = "peek" /\ i < Len(list)
  /\ marked' = marked \cup {i + 1}
  /\ LET kept == Kept(i + 1, keep \cup {"Whitespace"}) IN
     \/ kept /\ Hold(i + 1) /\ UNCHANGED i
     \/ ~kept /\ i' = i + 1 /\ UNCHANGED << pc, ret, held >>
  /\ UNCHANGED << list, cur, prev, keep >>

PeekTurn ==
  /\ pc = "peek" /\ i < Len(list)
  /\ marked' = marked \cup {i + 1}
  /\ \/ Kept(i + 1, keep) /\ Hold(i + 1) /\ UNCHANGED i
     \/ ~Kept(i + 1, keep) /\ i' = i + 1 /\ UNCHANGED << pc, ret, held >>
  /\ UNCHANGED << list, cur, prev, keep >>

PeekExhausted ==
  /\ pc = "peek" /\ i = Len(list)
  /\ Hold(Len(list))
  /\ UNCHANGED << list, cur, prev, keep, i, marked >>

Next ==
  \/ \E f \in {"next", "peek"}, k \in SUBSET Trivia : Call(f, k)
  \/ NextTurn \/ NextExhausted \/ PeekTurn \/ PeekExhausted

Spec == Init /\ [][Next]_vars

-----------------------------------------------------------------------------
(* Properties. *)

\* The variables have their types; a position never leaves the list.
TypeOK ==
  /\ list \in Seq(Kinds) /\ list # << >> /\ list[Len(list)] = "End"
  /\ cur \in 0 .. Len(list)
  /\ prev \in 1 .. Len(list)
  /\ pc \in {"idle", "next", "peek"}
  /\ keep \in SUBSET Trivia
  /\ i \in 0 .. Len(list)
  /\ marked \subseteq 1 .. Len(list)
  /\ ret \in 0 .. Len(list)
  /\ held \in [token : 0 .. Len(list), keep : SUBSET Trivia]

\* A token that was returned knows its own position: errors and token ranges
\* are made of token->index, which is SIZE_MAX until one of the loops assigns
\* it, and list.back() is returned without an assignment.
ReturnedIndexed == ret # 0 => ret \in marked

\* peek_token promises what next_token returns: when nothing was consumed in
\* between, a next_token with the arguments of the last peek_token returns the
\* token the caller has looked at, although each walks the trivia for itself.
PeekThenNext ==
  [][ pc = "next" /\ pc' = "idle" /\ held.token # 0 /\ held.keep = keep
        => ret' = held.token ]_vars

\* The cursor implements the stream of significant tokens: trivia, and calls
\* that ask for trivia, neither lose a significant token nor repeat one.
Significant == {n \in 1 .. Len(list) : list[n] \notin Trivia}
S == INSTANCE SignificantTokens WITH
       stream <- Significant, rest <- {n \in Significant : n > cur}, last <- ret
Stream == S!SSpec
=============================================================================
