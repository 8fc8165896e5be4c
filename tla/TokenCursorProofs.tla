-------------------------- MODULE TokenCursorProofs --------------------------
(* Proofs about TokenCursor, for every set of token lists. *)
EXTENDS TokenCursor, TLAPS

\* No token after "from" up to "to" is kept.
NoneKept(from, to, k) == \A m \in (from + 1) .. to : ~Kept(m, k)

\* n is the token a call from position "from" with arguments k returns.
FirstKept(n, from, k) ==
  \/ n \in (from + 1) .. Len(list) /\ Kept(n, k) /\ NoneKept(from, n - 1, k)
  \/ from = Len(list) /\ n = Len(list)

\* Everything that was walked has its index.
Walked == 1 .. cur \subseteq marked /\ 1 .. i \subseteq marked

\* peek_token starts where the cursor is and steps over what it does not keep.
Looking == pc = "peek" => cur <= i /\ NoneKept(cur, i, keep)

\* What the caller holds is what a call with the same arguments finds.
HeldFirst ==
  held.token # 0 /\ (pc = "next" => keep = held.keep) =>
    FirstKept(held.token, cur, held.keep)

(* The inductive invariant.  Neither promise of the cursor is inductive: what *)
(* the caller holds stays right because of what both loops have walked.       *)
IInv == TypeOK /\ ReturnedIndexed /\ Walked /\ Looking /\ HeldFirst

-----------------------------------------------------------------------------
\* The last token is kept by every call, because it is no trivia.
LEMMA EndKept ==
  ASSUME TypeOK, NEW k
  PROVE  Kept(Len(list), k) /\ Len(list) \in Nat \ {0}
BY DEF TypeOK, Kept, Trivia

\* The invariant holds when the parser is constructed.
LEMMA IInvInit == Init => IInv
<1> SUFFICES ASSUME Init PROVE IInv
  OBVIOUS
<1>1. list \in Seq(Kinds) /\ list # << >> /\ list[Len(list)] = "End"
  BY ListsAssumption DEF Init
<1>2. TypeOK
  BY <1>1 DEF Init, TypeOK, NotHeld
<1>3. ReturnedIndexed /\ Walked /\ Looking /\ HeldFirst
  BY DEF Init, ReturnedIndexed, Walked, Looking, HeldFirst, NotHeld
<1> QED
  BY <1>2, <1>3 DEF IInv

\* Every step keeps the invariant.
LEMMA IInvStep == IInv /\ [Next]_vars => IInv'
<1> SUFFICES ASSUME IInv, [Next]_vars PROVE IInv'
  OBVIOUS
<1> USE DEF IInv
<1>e. Len(list) \in Nat \ {0}
  BY EndKept
<1>1. ASSUME NEW f \in {"next", "peek"}, NEW k \in SUBSET Trivia, Call(f, k)
      PROVE  IInv'
  <2>1. TypeOK' /\ ReturnedIndexed' /\ Walked'
    BY <1>1 DEF Call, TypeOK, ReturnedIndexed, Walked
  <2>2. Looking'
    BY <1>1 DEF Call, TypeOK, Looking, NoneKept
  <2>3. HeldFirst'
    BY <1>1 DEF Call, TypeOK, HeldFirst, FirstKept, NoneKept, Kept
  <2> QED
    BY <2>1, <2>2, <2>3
<1>2. CASE NextTurn
  <2>1. TypeOK' /\ Walked'
    BY <1>2, <1>e DEF NextTurn, TypeOK, Walked, NotHeld
  <2>2. ReturnedIndexed'
    BY <1>2 DEF NextTurn, TypeOK, ReturnedIndexed
  <2>3. Looking'
    BY <1>2 DEF NextTurn, Looking
  <2>4. HeldFirst'
    <3>1. CASE Kept(cur + 1, keep)
      BY <1>2, <3>1 DEF NextTurn, HeldFirst, NotHeld
    <3>2. CASE ~Kept(cur + 1, keep)
      <4>1. held' = held /\ keep' = keep /\ cur' = cur + 1 /\ list' = list /\ pc = "next" /\ pc' = "next"
        BY <1>2, <3>2 DEF NextTurn
      <4>2. ASSUME held.token # 0, keep = held.keep
            PROVE  FirstKept(held.token, cur + 1, keep)
        <5>1. FirstKept(held.token, cur, keep) /\ cur # Len(list)
          BY <1>2, <4>1, <4>2 DEF HeldFirst, NextTurn
        <5>2. held.token # cur + 1
          BY <5>1, <3>2 DEF FirstKept
        <5> QED
          BY <5>1, <5>2, <1>e DEF FirstKept, NoneKept, TypeOK
      <4> QED
        BY <4>1, <4>2 DEF HeldFirst, FirstKept, NoneKept, Kept
    <3> QED
      BY <3>1, <3>2
  <2> QED
    BY <2>1, <2>2, <2>3, <2>4
<1>3. CASE NextExhausted
  <2>1. TypeOK' /\ Walked'
    BY <1>3, <1>e DEF NextExhausted, TypeOK, Walked, NotHeld
  <2>2. ReturnedIndexed'
    BY <1>3, <1>e DEF NextExhausted, TypeOK, ReturnedIndexed, Walked
  <2>3. Looking' /\ HeldFirst'
    BY <1>3 DEF NextExhausted, Looking, HeldFirst, NotHeld
  <2> QED
    BY <2>1, <2>2, <2>3
<1>4. CASE PeekTurn
  <2>1. TypeOK' /\ Walked'
    BY <1>4, <1>e DEF PeekTurn, Hold, TypeOK, Walked
  <2>2. ReturnedIndexed'
    BY <1>4 DEF PeekTurn, Hold, TypeOK, ReturnedIndexed
  <2>3. Looking'
    BY <1>4 DEF PeekTurn, Hold, TypeOK, Looking, NoneKept, Kept
  <2>4. HeldFirst'
    <3>1. CASE Kept(i + 1, keep)
      <4>1. /\ held' = [token |-> i + 1, keep |-> keep] /\ pc' = "idle"
            /\ cur' = cur /\ list' = list
        BY <1>4, <3>1 DEF PeekTurn, Hold
      <4>2. FirstKept(i + 1, cur, keep)
        BY <1>4, <3>1 DEF PeekTurn, TypeOK, Looking, FirstKept, NoneKept
      <4> QED
        BY <4>1, <4>2 DEF HeldFirst, FirstKept, NoneKept, Kept
    <3>2. CASE ~Kept(i + 1, keep)
      BY <1>4, <3>2 DEF PeekTurn, HeldFirst, FirstKept, NoneKept, Kept
    <3> QED
      BY <3>1, <3>2
  <2> QED
    BY <2>1, <2>2, <2>3, <2>4
<1>5. CASE PeekExhausted
  <2>0. cur = Len(list)
    BY <1>5, <1>e, EndKept DEF PeekExhausted, Looking, NoneKept, TypeOK
  <2>1. TypeOK' /\ Walked'
    BY <1>5, <1>e DEF PeekExhausted, Hold, TypeOK, Walked
  <2>2. ReturnedIndexed'
    BY <1>5, <1>e DEF PeekExhausted, Hold, TypeOK, ReturnedIndexed, Walked
  <2>3. Looking'
    BY <1>5 DEF PeekExhausted, Hold, Looking
  <2>4. HeldFirst'
    BY <1>5, <2>0 DEF PeekExhausted, Hold, HeldFirst, FirstKept
  <2> QED
    BY <2>1, <2>2, <2>3, <2>4
<1>6. CASE UNCHANGED vars
  BY <1>6 DEF vars, TypeOK, ReturnedIndexed, Walked, Looking, HeldFirst, FirstKept, NoneKept, Kept
<1> QED
  BY <1>1, <1>2, <1>3, <1>4, <1>5, <1>6 DEF Next

\* The invariant holds throughout.
THEOREM CursorInvariance == Spec => []IInv
BY IInvInit, IInvStep, PTL DEF Spec

\* Positions never leave the token list, however the calls are mixed.
THEOREM CursorTypeCorrect == Spec => []TypeOK
<1>1. IInv => TypeOK
  BY DEF IInv
<1> QED
  BY <1>1, CursorInvariance, PTL

\* Every token next_token or peek_token returns knows its position.
THEOREM IndexAssigned == Spec => []ReturnedIndexed
<1>1. IInv => ReturnedIndexed
  BY DEF IInv
<1> QED
  BY <1>1, CursorInvariance, PTL

-----------------------------------------------------------------------------
\* What PeekThenNext says of a step.
Promised ==
  pc = "next" /\ pc' = "idle" /\ held.token # 0 /\ held.keep = keep => ret' = held.token

\* next_token finds what the caller holds.
LEMMA PromisedStep == IInv /\ [Next]_vars => Promised
<1> SUFFICES ASSUME IInv, [Next]_vars,
                    pc = "next", pc' = "idle", held.token # 0, held.keep = keep
             PROVE  ret' = held.token
  BY DEF Promised
<1>1. FirstKept(held.token, cur, keep) /\ TypeOK /\ Len(list) \in Nat
  BY EndKept DEF IInv, HeldFirst
<1>2. CASE NextTurn
  <2>1. Kept(cur + 1, keep) /\ ret' = cur + 1 /\ cur # Len(list)
    BY <1>2 DEF NextTurn
  <2> QED
    BY <1>1, <2>1 DEF FirstKept, NoneKept, TypeOK
<1>3. CASE NextExhausted
  BY <1>1, <1>3 DEF NextExhausted, FirstKept, TypeOK
<1>4. CASE UNCHANGED vars
  BY <1>4 DEF vars
<1> QED
  BY <1>2, <1>3, <1>4 DEF Next, Call, PeekTurn, PeekExhausted

\* What peek_token returned is what next_token returns, for every token list.
THEOREM PeekAgreesWithNext == Spec => PeekThenNext
<1>1. Promised => [pc = "next" /\ pc' = "idle" /\ held.token # 0 /\ held.keep = keep
                     => ret' = held.token]_vars
  BY DEF Promised
<1> QED
  BY <1>1, CursorInvariance, PromisedStep, PTL DEF Spec, PeekThenNext

-----------------------------------------------------------------------------
Rest == {n \in Significant : n > cur}

\* Every step of the cursor is a step of the stream of significant tokens.
LEMMA StreamStep == IInv /\ [Next]_vars => [S!SNext]_<< Significant, Rest, ret >>
<1> SUFFICES ASSUME IInv, [Next]_vars
             PROVE  S!SNext \/ UNCHANGED << Significant, Rest, ret >>
  OBVIOUS
<1>1. TypeOK /\ Len(list) \in Nat \ {0} /\ \A k : Kept(Len(list), k)
  BY EndKept DEF IInv
<1>2. UNCHANGED Significant
  BY DEF Next, vars, Call, NextTurn, NextExhausted, PeekTurn, PeekExhausted, Significant
<1>3. CASE NextTurn
  <2>0. cur + 1 \in 1 .. Len(list) /\ cur' = cur + 1
    BY <1>1, <1>3 DEF NextTurn, TypeOK
  <2>1. CASE cur + 1 \in Significant
    <3>1. ret' = cur + 1
      BY <1>3, <2>1 DEF NextTurn, Significant, Kept
    <3>2. S!First(Rest, cur + 1) /\ Rest' = Rest \ {cur + 1}
      BY <1>1, <1>2, <2>0, <2>1 DEF S!First, Rest, Significant, TypeOK
    <3> QED
      BY <1>2, <3>1, <3>2 DEF S!SNext, S!Consume, Rest
  <2>2. CASE cur + 1 \notin Significant
    <3>1. UNCHANGED Rest
      BY <1>1, <1>2, <2>0, <2>2 DEF Rest, Significant, TypeOK
    <3>2. ret' = ret \/ ret' = cur + 1
      BY <1>3 DEF NextTurn
    <3> QED
      BY <1>2, <2>2, <3>1, <3>2 DEF S!SNext, S!Trivia, Rest
  <2> QED
    BY <2>1, <2>2
<1>4. CASE NextExhausted \/ PeekExhausted
  <2>1. cur = Len(list) /\ cur' = cur /\ ret' = Len(list)
    BY <1>1, <1>4 DEF NextExhausted, PeekExhausted, Hold, IInv, Looking, NoneKept, TypeOK
  <2>2. Rest = {} /\ UNCHANGED Rest
    BY <1>1, <1>2, <2>1 DEF Rest, Significant
  <2>3. S!Last(Significant, Len(list))
    BY <1>1 DEF S!Last, Significant, Kept
  <2> QED
    BY <1>2, <2>1, <2>2, <2>3 DEF S!SNext, S!Exhausted, Rest
<1>5. CASE PeekTurn
  <2>0. i + 1 \in 1 .. Len(list) /\ UNCHANGED Rest /\ cur <= i /\ i \in Nat /\ cur \in Nat
    BY <1>1, <1>2, <1>5 DEF PeekTurn, TypeOK, Rest, IInv, Looking
  <2>1. CASE ret' = ret
    BY <1>2, <2>0, <2>1
  <2>2. CASE ret' = i + 1 /\ i + 1 \notin Significant
    BY <1>2, <2>0, <2>2 DEF S!SNext, S!Trivia, Rest
  <2>3. CASE ret' = i + 1 /\ i + 1 \in Significant
    <3>1. \A m \in (cur + 1) .. i : m \notin Significant
      BY <1>5 DEF PeekTurn, IInv, Looking, NoneKept, Significant, Kept
    <3>2. S!First(Rest, i + 1)
      BY <2>0, <2>3, <3>1 DEF S!First, Rest, Significant
    <3> QED
      BY <1>2, <2>0, <2>3, <3>2 DEF S!SNext, S!Look, Rest
  <2> QED
    BY <1>5, <2>1, <2>2, <2>3 DEF PeekTurn, Hold
<1>6. CASE UNCHANGED << list, cur, ret >>
  BY <1>2, <1>6 DEF Rest
<1> QED
  BY <1>3, <1>4, <1>5, <1>6 DEF Next, Call, vars

\* next_token and peek_token implement the stream of significant tokens.
THEOREM CursorImplementsStream == Spec => Stream
<1>1. Init => S!SInit
  BY ListsAssumption DEF Init, S!SInit, Significant
<1> QED
  BY <1>1, CursorInvariance, StreamStep, PTL DEF Spec, Stream, S!SSpec, Rest
=============================================================================
