------------------------- MODULE ParserGrammarProofs -------------------------
(***************************************************************************)
(* Proofs about ParserGrammar: what the parser accepts without a word is a *)
(* sentence of the grammar, and a sentence it reports something about has  *)
(* two definitions of one name.  The productions are seen as functions on  *)
(* sets of positions; that they consume tokens from left to right makes    *)
(* the bounded iteration of Star a closure.  The first half looks back, at *)
(* the production that leads to the parser's position; the second looks    *)
(* ahead, at how the rest of the sentence can be completed from there.     *)
(***************************************************************************)
EXTENDS ParserGrammar, ParserProofs, DataInduction

-----------------------------------------------------------------------------
(* Functions on the sets of positions 0 .. N. *)

Positions(N) == SUBSET (0 .. N)

\* What G reaches from P it reaches from one position of P, at least d tokens before.
Moves(G, N, d) ==
  \A P \in Positions(N) : \A x \in G[P] :
    \E y \in P : y + d <= x /\ \A Q \in Positions(N) : y \in Q => x \in G[Q]

\* What consumes a token consumes none at least.
LEMMA MovesAtLeast ==
  ASSUME NEW N \in Nat, NEW G \in [Positions(N) -> Positions(N)], Moves(G, N, 1)
  PROVE  Moves(G, N, 0)
<1> SUFFICES ASSUME NEW P \in Positions(N), NEW x \in G[P]
             PROVE  \E y \in P : y + 0 <= x /\ \A Q \in Positions(N) : y \in Q => x \in G[Q]
  BY DEF Moves
<1>1. PICK y \in P : y + 1 <= x /\ \A Q \in Positions(N) : y \in Q => x \in G[Q]
  BY DEF Moves
<1>2. y \in Nat /\ x \in Nat
  BY DEF Positions
<1> QED
  BY <1>1, <1>2

\* One function after another.
LEMMA MovesThen ==
  ASSUME NEW N \in Nat, NEW F \in [Positions(N) -> Positions(N)], NEW G \in [Positions(N) -> Positions(N)],
         Moves(F, N, 1), Moves(G, N, 0)
  PROVE  LET H == [P \in Positions(N) |-> F[G[P]]] IN
         H \in [Positions(N) -> Positions(N)] /\ Moves(H, N, 1)
<1> DEFINE H == [P \in Positions(N) |-> F[G[P]]]
<1>1. H \in [Positions(N) -> Positions(N)]
  OBVIOUS
<1>2. ASSUME NEW P \in Positions(N), NEW x \in H[P]
      PROVE  \E y \in P : y + 1 <= x /\ \A Q \in Positions(N) : y \in Q => x \in H[Q]
  <2>1. G[P] \in Positions(N) /\ x \in F[G[P]]
    OBVIOUS
  <2>2. PICK z \in G[P] : z + 1 <= x /\ \A Q \in Positions(N) : z \in Q => x \in F[Q]
    BY <2>1 DEF Moves
  <2>3. PICK y \in P : y + 0 <= z /\ \A Q \in Positions(N) : y \in Q => z \in G[Q]
    BY <2>2 DEF Moves
  <2>4. x \in Nat /\ y \in Nat /\ z \in Nat
    BY <2>1, <1>1 DEF Positions
  <2>5. y + 1 <= x
    BY <2>2, <2>3, <2>4
  <2>6. ASSUME NEW Q \in Positions(N), y \in Q
        PROVE  x \in H[Q]
    <3>1. G[Q] \in Positions(N) /\ z \in G[Q]
      BY <2>3, <2>6
    <3> QED
      BY <3>1, <2>2
  <2> QED
    BY <2>5, <2>6
<1> QED
  BY <1>1, <1>2 DEF Moves

\* A choice between two functions.
LEMMA MovesEither ==
  ASSUME NEW N \in Nat, NEW F \in [Positions(N) -> Positions(N)], NEW G \in [Positions(N) -> Positions(N)],
         NEW d \in {0, 1}, Moves(F, N, d), Moves(G, N, d)
  PROVE  LET H == [P \in Positions(N) |-> F[P] \cup G[P]] IN
         H \in [Positions(N) -> Positions(N)] /\ Moves(H, N, d)
<1> DEFINE H == [P \in Positions(N) |-> F[P] \cup G[P]]
<1>1. H \in [Positions(N) -> Positions(N)]
  BY DEF Positions
<1>2. ASSUME NEW P \in Positions(N), NEW x \in H[P]
      PROVE  \E y \in P : y + d <= x /\ \A Q \in Positions(N) : y \in Q => x \in H[Q]
  <2>1. \A Q \in Positions(N) : H[Q] = F[Q] \cup G[Q]
    OBVIOUS
  <2> HIDE DEF H
  <2>2. CASE x \in F[P]
    BY <2>1, <2>2 DEF Moves
  <2>3. CASE x \in G[P]
    BY <2>1, <2>3 DEF Moves
  <2> QED
    BY <2>1, <2>2, <2>3
<1> QED
  BY <1>1, <1>2 DEF Moves

-----------------------------------------------------------------------------
(* The iteration of Star. *)

\* f is P, then P with what G adds, and so on.
IsChain(f, G, P, N) ==
  /\ f[0] = P
  /\ \A n \in 0 .. N : f[n] \in Positions(N)
  /\ \A n \in 1 .. N : f[n] = f[n - 1] \cup G[f[n - 1]]

\* There is such a function.
LEMMA ChainExists ==
  ASSUME NEW N \in Nat, NEW G \in [Positions(N) -> Positions(N)], NEW P \in Positions(N)
  PROVE  \E f : DOMAIN f = 0 .. N /\ f = [n \in 0 .. N |-> f[n]] /\ IsChain(f, G, P, N)
<1> DEFINE Upto(f, n) == /\ f \in [0 .. n -> Positions(N)] /\ f[0] = P
                         /\ \A k \in 1 .. n : f[k] = f[k - 1] \cup G[f[k - 1]]
           S == {n \in Nat : \E f : Upto(f, n)}
<1>1. 0 \in S
  <2>1. Upto([k \in 0 .. 0 |-> P], 0)
    OBVIOUS
  <2> HIDE DEF Upto
  <2> QED
    BY <2>1
<1>2. ASSUME NEW n \in Nat, n \in S
      PROVE  n + 1 \in S
  <2>1. PICK f : Upto(f, n)
    BY <1>2
  <2> DEFINE g == [k \in 0 .. n + 1 |-> IF k = n + 1 THEN f[n] \cup G[f[n]] ELSE f[k]]
  <2>2. \A k \in 0 .. n : f[k] \in Positions(N) /\ g[k] = f[k]
    BY <2>1
  <2>3. f[n] \cup G[f[n]] \in Positions(N)
    <3>1. n \in 0 .. n
      OBVIOUS
    <3>2. f[n] \in Positions(N)
      BY <2>2, <3>1, Zenon
    <3>3. G[f[n]] \in Positions(N)
      BY <3>2
    <3> QED
      BY <3>2, <3>3 DEF Positions
  <2>4. g \in [0 .. n + 1 -> Positions(N)]
    <3>1. ASSUME NEW k \in 0 .. n + 1
          PROVE  (IF k = n + 1 THEN f[n] \cup G[f[n]] ELSE f[k]) \in Positions(N)
      <4>1. k # n + 1 => k \in 0 .. n
        OBVIOUS
      <4> QED
        BY <2>2, <2>3, <4>1, Zenon
    <3> QED
      BY <3>1, Zenon
  <2>5. g[n + 1] = g[n] \cup G[g[n]]
    BY <2>2
  <2>6. g[0] = P
    BY <2>1, <2>2
  <2>7. ASSUME NEW k \in 1 .. n + 1
        PROVE  g[k] = g[k - 1] \cup G[g[k - 1]]
    <3>1. CASE k = n + 1
      <4>1. k - 1 = n
        BY <3>1
      <4> HIDE DEF g
      <4> QED
        BY <2>5, <3>1, <4>1
    <3>2. CASE k # n + 1
      <4>1. k \in 1 .. n /\ k \in 0 .. n /\ k - 1 \in 0 .. n
        BY <3>2
      <4>2. f[k] = f[k - 1] \cup G[f[k - 1]]
        BY <2>1, <4>1
      <4> HIDE DEF g
      <4> QED
        BY <2>2, <4>1, <4>2
    <3> QED
      BY <3>1, <3>2
  <2> HIDE DEF g
  <2>8. Upto(g, n + 1)
    BY <2>4, <2>6, <2>7
  <2> HIDE DEF Upto
  <2> QED
    BY <2>8
<1> HIDE DEF S
<1>3. N \in S
  BY <1>1, <1>2, NaturalsByInduction
<1>4. PICK f : Upto(f, N)
  BY <1>3 DEF S
<1>5. DOMAIN f = 0 .. N /\ f = [n \in 0 .. N |-> f[n]] /\ IsChain(f, G, P, N)
  BY <1>4 DEF IsChain
<1> QED
  BY <1>5

\* Whatever is defined by that recursion is that function.
LEMMA ChainOf ==
  ASSUME NEW N \in Nat, NEW G \in [Positions(N) -> Positions(N)], NEW P \in Positions(N),
         NEW f, NEW h, f[0] = P,
         \A n \in 1 .. N : f[n] = f[n - 1] \cup h[n],
         \A n \in 1 .. N : f[n - 1] \in Positions(N) => h[n] = G[f[n - 1]]
  PROVE  IsChain(f, G, P, N)
<1> DEFINE S == {n \in Nat : n <= N => f[n] \in Positions(N)}
<1>1. 0 \in S
  OBVIOUS
<1>2. ASSUME NEW n \in Nat, n \in S
      PROVE  n + 1 \in S
  <2> SUFFICES ASSUME n + 1 <= N PROVE f[n + 1] \in Positions(N)
    OBVIOUS
  <2>1. f[n] \in Positions(N)
    BY <1>2
  <2>2. n + 1 \in 1 .. N /\ (n + 1) - 1 = n
    OBVIOUS
  <2>3. f[n + 1] = f[n] \cup G[f[n]]
    BY <2>1, <2>2
  <2>4. G[f[n]] \in Positions(N)
    BY <2>1
  <2> QED
    BY <2>1, <2>3, <2>4 DEF Positions
<1> HIDE DEF S
<1>3. \A n \in Nat : n \in S
  BY <1>1, <1>2, NaturalsByInduction
<1>4. \A n \in 0 .. N : f[n] \in Positions(N)
  BY <1>3 DEF S
<1>5. \A n \in 1 .. N : f[n] = f[n - 1] \cup G[f[n - 1]]
  <2> TAKE n \in 1 .. N
  <2>1. n - 1 \in 0 .. N
    OBVIOUS
  <2> QED
    BY <1>4, <2>1
<1> QED
  BY <1>4, <1>5 DEF IsChain

\* It grows.
LEMMA ChainGrows ==
  ASSUME NEW N \in Nat, NEW f, NEW G, NEW P, IsChain(f, G, P, N),
         NEW m \in 0 .. N, NEW n \in 0 .. m
  PROVE  f[n] \subseteq f[m]
<1> DEFINE S == {d \in Nat : n + d <= N => f[n] \subseteq f[n + d]}
<1>1. 0 \in S
  OBVIOUS
<1>2. ASSUME NEW d \in Nat, d \in S
      PROVE  d + 1 \in S
  <2> SUFFICES ASSUME n + (d + 1) <= N PROVE f[n] \subseteq f[n + (d + 1)]
    OBVIOUS
  <2>1. f[n] \subseteq f[n + d]
    BY <1>2
  <2>2. n + (d + 1) \in 1 .. N /\ (n + (d + 1)) - 1 = n + d
    OBVIOUS
  <2>3. f[n + (d + 1)] = f[n + d] \cup G[f[n + d]]
    BY <2>2 DEF IsChain
  <2> QED
    BY <2>1, <2>3
<1> HIDE DEF S
<1>3. m - n \in S
  BY <1>1, <1>2, NaturalsByInduction
<1>4. n + (m - n) = m
  OBVIOUS
<1> QED
  BY <1>3, <1>4 DEF S

\* Position x is reached in x rounds: a function that consumes tokens gets from
\* one position to a greater one.
LEMMA ReachedSoon ==
  ASSUME NEW N \in Nat, NEW G \in [Positions(N) -> Positions(N)], NEW P, NEW f,
         IsChain(f, G, P, N), Moves(G, N, 1),
         NEW x \in 0 .. N, NEW m \in 0 .. N, x \in f[m]
  PROVE  x \in f[x]
<1> DEFINE Late(z) == \E k \in 0 .. N : z \in f[k] /\ z \notin f[z]
           T == {z \in 0 .. N : Late(z)}
<1> SUFFICES ASSUME T # {} PROVE FALSE
  OBVIOUS
<1>1. PICK z \in T : \A w \in T : z <= w
  <2>1. T \subseteq Nat
    OBVIOUS
  <2> HIDE DEF T
  <2> QED
    BY <2>1, LeastNatural, Zenon
<1> DEFINE U == {k \in 0 .. N : z \in f[k]}
<1>2. z \in 0 .. N /\ z \notin f[z] /\ U # {}
  OBVIOUS
<1>3. PICK k \in U : \A j \in U : k <= j
  <2>1. U \subseteq Nat
    OBVIOUS
  <2> HIDE DEF U, T
  <2> QED
    BY <1>2, <2>1, LeastNatural, Zenon
<1>4. k \in 0 .. N /\ z \in f[k]
  OBVIOUS
<1>5. k # 0
  <2> SUFFICES ASSUME k = 0 PROVE FALSE
    OBVIOUS
  <2>1. f[0] \subseteq f[z]
    BY <1>2, ChainGrows
  <2> QED
    BY <1>2, <1>4, <2>1
<1>6. k - 1 \in 0 .. N /\ k \in 1 .. N /\ k - 1 \notin U
  BY <1>3, <1>4, <1>5
<1>7. z \in G[f[k - 1]] /\ f[k - 1] \in Positions(N)
  BY <1>4, <1>6 DEF IsChain
<1>8. PICK y \in f[k - 1] : y + 1 <= z /\ \A Q \in Positions(N) : y \in Q => z \in G[Q]
  BY <1>7 DEF Moves
<1>9. y \in 0 .. N
  BY <1>7 DEF Positions
<1>10. y \in f[y]
  <2>1. y \notin T
    BY <1>1, <1>2, <1>8, <1>9
  <2> QED
    BY <2>1, <1>6, <1>8, <1>9
<1>11. z \in 1 .. N /\ z - 1 \in 0 .. N /\ y \in 0 .. z - 1
  BY <1>2, <1>8, <1>9
<1>12. f[y] \subseteq f[z - 1]
  BY <1>11, ChainGrows
<1>13. f[z - 1] \in Positions(N) /\ f[z] = f[z - 1] \cup G[f[z - 1]]
  BY <1>11 DEF IsChain
<1> QED
  BY <1>2, <1>8, <1>10, <1>12, <1>13

\* So N rounds are enough: the iteration is closed under G.
LEMMA ChainClosed ==
  ASSUME NEW N \in Nat, NEW G \in [Positions(N) -> Positions(N)], NEW P, NEW f,
         IsChain(f, G, P, N), Moves(G, N, 1)
  PROVE  G[f[N]] \subseteq f[N]
<1> SUFFICES ASSUME NEW x \in G[f[N]] PROVE x \in f[N]
  OBVIOUS
<1>1. f[N] \in Positions(N)
  BY DEF IsChain
<1>2. PICK y \in f[N] : y + 1 <= x /\ \A Q \in Positions(N) : y \in Q => x \in G[Q]
  BY <1>1 DEF Moves
<1>3. y \in 0 .. N /\ x \in 0 .. N
  BY <1>1 DEF Positions
<1>4. y \in f[y]
  BY <1>2, <1>3, ReachedSoon
<1>5. x \in 1 .. N /\ x - 1 \in 0 .. N /\ y \in 0 .. x - 1
  BY <1>2, <1>3
<1>6. f[y] \subseteq f[x - 1]
  BY <1>5, ChainGrows
<1>7. f[x - 1] \in Positions(N) /\ f[x] = f[x - 1] \cup G[f[x - 1]]
  BY <1>5 DEF IsChain
<1>8. x \in f[x]
  BY <1>2, <1>4, <1>6, <1>7
<1>9. f[x] \subseteq f[N]
  BY <1>3, ChainGrows
<1> QED
  BY <1>8, <1>9

\* What the iteration reaches it reaches from one position of P.
LEMMA ChainSource ==
  ASSUME NEW N \in Nat, NEW G \in [Positions(N) -> Positions(N)], NEW P, NEW f,
         IsChain(f, G, P, N), Moves(G, N, 1), NEW x \in f[N]
  PROVE  \E y \in P : y <= x /\ \A W \in Positions(N) : y \in W /\ G[W] \subseteq W => x \in W
<1> DEFINE Src(z) == \E y \in P : y <= z /\ \A W \in Positions(N) : y \in W /\ G[W] \subseteq W => z \in W
           S == {n \in Nat : n <= N => \A z \in f[n] : Src(z)}
<1>0. P \in Positions(N) /\ f[0] = P
  BY DEF IsChain
<1>1. 0 \in S
  <2> SUFFICES ASSUME NEW z \in P PROVE Src(z)
    BY <1>0
  <2>1. z <= z
    BY <1>0 DEF Positions
  <2> QED
    BY <2>1
<1>2. ASSUME NEW n \in Nat, n \in S
      PROVE  n + 1 \in S
  <2> SUFFICES ASSUME n + 1 <= N, NEW z \in f[n + 1] PROVE Src(z)
    OBVIOUS
  <2>1. n + 1 \in 1 .. N /\ (n + 1) - 1 = n /\ n \in 0 .. N
    OBVIOUS
  <2>2. f[n + 1] = f[n] \cup G[f[n]] /\ f[n] \in Positions(N)
    BY <2>1 DEF IsChain
  <2>3. \A w \in f[n] : Src(w)
    BY <1>2
  <2>4. CASE z \in f[n]
    <3> HIDE DEF Src
    <3> QED
      BY <2>3, <2>4
  <2>5. CASE z \in G[f[n]]
    <3>1. PICK w \in f[n] : w + 1 <= z /\ \A Q \in Positions(N) : w \in Q => z \in G[Q]
      BY <2>2, <2>5 DEF Moves
    <3>2. PICK y \in P : y <= w /\ \A W \in Positions(N) : y \in W /\ G[W] \subseteq W => w \in W
      BY <2>3, <3>1
    <3>3. w \in Nat /\ z \in Nat /\ y \in Nat
      BY <1>0, <2>2, <2>5 DEF Positions
    <3>4. y <= z
      BY <3>1, <3>2, <3>3
    <3>5. ASSUME NEW W \in Positions(N), y \in W, G[W] \subseteq W
          PROVE  z \in W
      BY <3>1, <3>2, <3>5
    <3> QED
      BY <3>4, <3>5
  <2> QED
    BY <2>2, <2>4, <2>5
<1> HIDE DEF S
<1>3. N \in S
  BY <1>1, <1>2, NaturalsByInduction
<1> QED
  BY <1>3 DEF S
-----------------------------------------------------------------------------
(* Star as a function: base B, then G any number of times. *)

IsStar(H, B, G, N) ==
  \A P \in Positions(N) : \E f : IsChain(f, G, B[P], N) /\ H[P] = f[N]

\* It holds its base, is closed under G, and consumes as much as the base.
LEMMA StarMoves ==
  ASSUME NEW N \in Nat, NEW G \in [Positions(N) -> Positions(N)],
         NEW B \in [Positions(N) -> Positions(N)], NEW H,
         H = [P \in Positions(N) |-> H[P]],
         NEW d \in {0, 1}, Moves(G, N, 1), Moves(B, N, d), IsStar(H, B, G, N)
  PROVE  /\ H \in [Positions(N) -> Positions(N)] /\ Moves(H, N, d)
         /\ \A P \in Positions(N) : B[P] \subseteq H[P] /\ G[H[P]] \subseteq H[P]
<1>1. ASSUME NEW P \in Positions(N)
      PROVE  H[P] \in Positions(N) /\ B[P] \subseteq H[P] /\ G[H[P]] \subseteq H[P]
  <2>1. PICK f : IsChain(f, G, B[P], N) /\ H[P] = f[N]
    BY DEF IsStar
  <2>2. f[N] \in Positions(N) /\ f[0] = B[P]
    BY <2>1 DEF IsChain
  <2>3. f[0] \subseteq f[N]
    <3>1. N \in 0 .. N /\ 0 \in 0 .. N
      OBVIOUS
    <3> QED
      BY <2>1, <3>1, ChainGrows
  <2>4. G[f[N]] \subseteq f[N]
    BY <2>1, ChainClosed
  <2> QED
    BY <2>1, <2>2, <2>3, <2>4
<1>2. H \in [Positions(N) -> Positions(N)]
  BY <1>1
<1>3. ASSUME NEW P \in Positions(N), NEW x \in H[P]
      PROVE  \E y \in P : y + d <= x /\ \A Q \in Positions(N) : y \in Q => x \in H[Q]
  <2>1. PICK f : IsChain(f, G, B[P], N) /\ H[P] = f[N]
    BY DEF IsStar
  <2>2. PICK z \in B[P] : /\ z <= x
                          /\ \A W \in Positions(N) : z \in W /\ G[W] \subseteq W => x \in W
    BY <2>1, <1>3, ChainSource
  <2>3. PICK y \in P : y + d <= z /\ \A Q \in Positions(N) : y \in Q => z \in B[Q]
    BY <2>2 DEF Moves
  <2>4. x \in Nat /\ y \in Nat /\ z \in Nat
    <3>1. B[P] \in Positions(N) /\ H[P] \in Positions(N)
      BY <1>1
    <3> QED
      BY <3>1, <1>3 DEF Positions
  <2>5. y + d <= x
    BY <2>2, <2>3, <2>4
  <2>6. ASSUME NEW Q \in Positions(N), y \in Q
        PROVE  x \in H[Q]
    BY <1>1, <2>2, <2>3, <2>6
  <2> QED
    BY <2>5, <2>6
<1> QED
  BY <1>1, <1>2, <1>3 DEF Moves

\* What is defined by the recursion of Star is a chain.
LEMMA ChainOfRecursion ==
  ASSUME NEW N \in Nat, NEW G \in [Positions(N) -> Positions(N)], NEW P \in Positions(N),
         NEW f, NEW h, f = [n \in 0 .. N |-> IF n = 0 THEN P ELSE f[n - 1] \cup h[n]],
         \A n \in 1 .. N : f[n - 1] \in Positions(N) => h[n] = G[f[n - 1]]
  PROVE  IsChain(f, G, P, N)
<1>1. \A n \in 0 .. N : f[n] = IF n = 0 THEN P ELSE f[n - 1] \cup h[n]
  BY Zenon
<1>2. f[0] = P
  BY <1>1
<1>3. \A n \in 1 .. N : f[n] = f[n - 1] \cup h[n]
  <2> TAKE n \in 1 .. N
  <2>1. n \in 0 .. N /\ n # 0
    OBVIOUS
  <2> QED
    BY <1>1, <2>1, Zenon
<1> QED
  BY <1>2, <1>3, ChainOf

-----------------------------------------------------------------------------
(* The productions as functions that consume at least one token. *)

Spots == Positions(Len(tokens))
Consumes(F) == F \in [Spots -> Spots] /\ Moves(F, Len(tokens), 1)

\* A token of a set is consumed.
LEMMA OneConsumes ==
  ASSUME NEW S, NEW H, H = [P \in Spots |-> One(S, P)], Len(tokens) \in Nat
  PROVE  Consumes(H)
<1>1. ASSUME NEW P \in Spots
      PROVE  One(S, P) \in Spots
  BY DEF One, Spots, Positions
<1>2. ASSUME NEW P \in Spots, NEW x \in One(S, P)
      PROVE  \E y \in P : y + 1 <= x /\ \A Q \in Spots : y \in Q => x \in One(S, Q)
  BY DEF One, Spots, Positions
<1> QED
  BY <1>1, <1>2 DEF Consumes, Moves, Spots

\* One production after another.
LEMMA ThenConsumes ==
  ASSUME NEW F, NEW G, NEW H, Consumes(F), Consumes(G), Len(tokens) \in Nat,
         H = [P \in Spots |-> H[P]], \A P \in Spots : H[P] = G[F[P]]
  PROVE  Consumes(H)
<1> DEFINE N == Len(tokens)
<1>1. F \in [Positions(N) -> Positions(N)] /\ G \in [Positions(N) -> Positions(N)]
  BY DEF Consumes, Spots
<1>2. Moves(F, N, 0) /\ Moves(G, N, 1)
  BY <1>1, MovesAtLeast DEF Consumes
<1>3. H = [P \in Positions(N) |-> G[F[P]]]
  BY DEF Spots
<1> HIDE DEF N
<1>4. H \in [Positions(N) -> Positions(N)] /\ Moves(H, N, 1)
  <2>1. N \in Nat
    BY DEF N
  <2> QED
    BY <1>1, <1>2, <1>3, <2>1, MovesThen
<1> QED
  BY <1>4 DEF Consumes, Spots, N

\* A production, then a token.
LEMMA ThenOneConsumes ==
  ASSUME NEW F, NEW S, NEW H, Consumes(F), Len(tokens) \in Nat,
         H = [P \in Spots |-> H[P]], \A P \in Spots : H[P] = One(S, F[P])
  PROVE  Consumes(H)
<1> DEFINE G == [P \in Spots |-> One(S, P)]
<1>1. Consumes(G)
  BY OneConsumes
<1>2. \A P \in Spots : H[P] = G[F[P]]
  BY DEF Consumes
<1> HIDE DEF G
<1> QED
  BY <1>1, <1>2, ThenConsumes

\* A choice of two productions.
LEMMA EitherConsumes ==
  ASSUME NEW F, NEW G, NEW H, Consumes(F), Consumes(G), Len(tokens) \in Nat,
         H = [P \in Spots |-> H[P]], \A P \in Spots : H[P] = F[P] \cup G[P]
  PROVE  Consumes(H)
<1> DEFINE N == Len(tokens)
<1>1. F \in [Positions(N) -> Positions(N)] /\ G \in [Positions(N) -> Positions(N)]
  BY DEF Consumes, Spots
<1>2. Moves(F, N, 1) /\ Moves(G, N, 1)
  BY DEF Consumes
<1>3. H = [P \in Positions(N) |-> F[P] \cup G[P]]
  BY DEF Spots
<1> HIDE DEF N
<1>4. H \in [Positions(N) -> Positions(N)] /\ Moves(H, N, 1)
  <2>1. N \in Nat /\ 1 \in {0, 1}
    BY DEF N
  <2> QED
    BY <1>1, <1>2, <1>3, <2>1, MovesEither
<1> QED
  BY <1>4 DEF Consumes, Spots, N

\* A production and a repetition of another one.
LEMMA StarConsumes ==
  ASSUME NEW H, NEW B, NEW G, Consumes(B), Consumes(G), Len(tokens) \in Nat,
         H = [P \in Spots |-> H[P]], IsStar(H, B, G, Len(tokens))
  PROVE  /\ Consumes(H)
         /\ \A P \in Spots : B[P] \subseteq H[P] /\ G[H[P]] \subseteq H[P]
<1> DEFINE N == Len(tokens)
<1>1. B \in [Positions(N) -> Positions(N)] /\ G \in [Positions(N) -> Positions(N)]
  BY DEF Consumes, Spots
<1>2. Moves(B, N, 1) /\ Moves(G, N, 1) /\ IsStar(H, B, G, N)
  BY DEF Consumes
<1>3. H = [P \in Positions(N) |-> H[P]]
  BY DEF Spots
<1> HIDE DEF N
<1>4. /\ H \in [Positions(N) -> Positions(N)] /\ Moves(H, N, 1)
      /\ \A P \in Positions(N) : B[P] \subseteq H[P] /\ G[H[P]] \subseteq H[P]
  <2>1. N \in Nat /\ 1 \in {0, 1}
    BY DEF N
  <2> QED
    BY <1>1, <1>2, <1>3, <2>1, StarMoves
<1> QED
  BY <1>4 DEF Consumes, Spots, N

-----------------------------------------------------------------------------
(* The productions of the grammar. *)

NameFn == [P \in Spots |-> One(Names, P)]
DottedFn == [P \in Spots |-> DottedId(P)]
DottedTail == [P \in Spots |-> One(Names, One({"Dot"}, P))]
BaseFn == [P \in Spots |-> BaseType(P)]
TypeFn == [P \in Spots |-> FieldType(P)]
TypeTail == [P \in Spots |-> One({"RBracket"}, One({"LBracket"}, P))]
FieldFn == [P \in Spots |-> Field(P)]
FieldsFn == [P \in Spots |-> ListOf(Field, P)]
FieldsTail == [P \in Spots |-> Field(One({"Comma"}, P))]
ItemFn == [P \in Spots |-> Item(P)]
ItemsFn == [P \in Spots |-> ListOf(Item, P)]
ItemsTail == [P \in Spots |-> Item(One({"Comma"}, P))]
StartFn == [P \in Spots |-> P]
DeclFn == [P \in Spots |-> Decl(P)]
DeclsFn == [P \in Spots |-> Star(Decl, P)]

\* A dotted name is a name and any number of names after a dot.
LEMMA DottedIsStar ==
  ASSUME Len(tokens) \in Nat, DottedTail \in [Spots -> Spots], NameFn \in [Spots -> Spots]
  PROVE  IsStar(DottedFn, NameFn, DottedTail, Len(tokens))
<1> DEFINE N == Len(tokens)
<1> SUFFICES ASSUME NEW P \in Spots
             PROVE  \E f : IsChain(f, DottedTail, NameFn[P], N) /\ DottedFn[P] = f[N]
  BY DEF IsStar, Spots
<1> DEFINE B == One(Names, P)
           E(f) == f = [n \in 0 .. N |->
                          IF n = 0 THEN B ELSE f[n - 1] \cup One(Names, One({"Dot"}, f[n - 1]))]
           r == CHOOSE f : E(f)
           h == [n \in 1 .. N |-> One(Names, One({"Dot"}, r[n - 1]))]
<1>1. B \in Spots /\ NameFn[P] = B
  BY DEF NameFn
<1>2. PICK f : f = [n \in 0 .. N |-> f[n]] /\ IsChain(f, DottedTail, B, N)
  <2> HIDE DEF B
  <2> QED
    BY <1>1, ChainExists DEF Spots
<1>3. E(f)
  <2>1. ASSUME NEW n \in 0 .. N
        PROVE  f[n] = IF n = 0 THEN B ELSE f[n - 1] \cup One(Names, One({"Dot"}, f[n - 1]))
    <3>1. CASE n = 0
      BY <1>2, <3>1 DEF IsChain
    <3>2. CASE n # 0
      <4>1. n \in 1 .. N /\ n - 1 \in 0 .. N
        BY <3>2
      <4>2. f[n - 1] \in Spots /\ f[n] = f[n - 1] \cup DottedTail[f[n - 1]]
        BY <1>2, <4>1 DEF IsChain, Spots
      <4> QED
        BY <3>2, <4>2, Zenon DEF DottedTail
    <3> QED
      BY <3>1, <3>2
  <2> HIDE DEF B
  <2> QED
    BY <1>2, <2>1, Zenon
<1>4. E(r)
  <2> HIDE DEF E
  <2> QED
    BY <1>3, Zenon
<1>5. IsChain(r, DottedTail, B, N)
  <2>1. ASSUME NEW n \in 0 .. N
        PROVE  (IF n = 0 THEN B ELSE r[n - 1] \cup One(Names, One({"Dot"}, r[n - 1])))
                 = IF n = 0 THEN B ELSE r[n - 1] \cup h[n]
    <3>1. n # 0 => n \in 1 .. N
      OBVIOUS
    <3> HIDE DEF r, B
    <3> QED
      BY <3>1, Zenon
  <2>2. ASSUME NEW n \in 1 .. N, r[n - 1] \in Spots
        PROVE  h[n] = DottedTail[r[n - 1]]
    <3> HIDE DEF r
    <3> QED
      BY <2>2, Zenon DEF DottedTail
  <2> HIDE DEF r, B, h
  <2>3. r = [n \in 0 .. N |-> IF n = 0 THEN B ELSE r[n - 1] \cup h[n]]
    BY <1>4, <2>1, Zenon
  <2>4. N \in Nat /\ Spots = Positions(N)
    BY DEF Spots
  <2> HIDE DEF N
  <2>5. \A n \in 1 .. N : r[n - 1] \in Positions(N) => h[n] = DottedTail[r[n - 1]]
    BY <2>2, <2>4, Zenon
  <2>6. B \in Positions(N) /\ DottedTail \in [Positions(N) -> Positions(N)]
    BY <1>1, <2>4, Zenon
  <2> QED
    BY <2>3, <2>4, <2>5, <2>6, ChainOfRecursion, Zenon
<1>6. DottedFn[P] = r[N]
  BY Zenon DEF DottedFn, DottedId, Star
<1> HIDE DEF r, B
<1> QED
  BY <1>1, <1>5, <1>6

\* The type of a field is a base type and any number of brackets.
LEMMA TypeIsStar ==
  ASSUME Len(tokens) \in Nat, TypeTail \in [Spots -> Spots], BaseFn \in [Spots -> Spots]
  PROVE  IsStar(TypeFn, BaseFn, TypeTail, Len(tokens))
<1> DEFINE N == Len(tokens)
<1> SUFFICES ASSUME NEW P \in Spots
             PROVE  \E f : IsChain(f, TypeTail, BaseFn[P], N) /\ TypeFn[P] = f[N]
  BY DEF IsStar, Spots
<1> DEFINE B == BaseType(P)
           E(f) == f = [n \in 0 .. N |->
                          IF n = 0 THEN B ELSE f[n - 1] \cup One({"RBracket"}, One({"LBracket"}, f[n - 1]))]
           r == CHOOSE f : E(f)
           h == [n \in 1 .. N |-> One({"RBracket"}, One({"LBracket"}, r[n - 1]))]
<1>1. B \in Spots /\ BaseFn[P] = B
  BY DEF BaseFn
<1>2. PICK f : f = [n \in 0 .. N |-> f[n]] /\ IsChain(f, TypeTail, B, N)
  <2> HIDE DEF B
  <2> QED
    BY <1>1, ChainExists DEF Spots
<1>3. E(f)
  <2>1. ASSUME NEW n \in 0 .. N
        PROVE  f[n] = IF n = 0 THEN B ELSE f[n - 1] \cup One({"RBracket"}, One({"LBracket"}, f[n - 1]))
    <3>1. CASE n = 0
      BY <1>2, <3>1 DEF IsChain
    <3>2. CASE n # 0
      <4>1. n \in 1 .. N /\ n - 1 \in 0 .. N
        BY <3>2
      <4>2. f[n - 1] \in Spots /\ f[n] = f[n - 1] \cup TypeTail[f[n - 1]]
        BY <1>2, <4>1 DEF IsChain, Spots
      <4> QED
        BY <3>2, <4>2, Zenon DEF TypeTail
    <3> QED
      BY <3>1, <3>2
  <2> HIDE DEF B
  <2> QED
    BY <1>2, <2>1, Zenon
<1>4. E(r)
  <2> HIDE DEF E
  <2> QED
    BY <1>3, Zenon
<1>5. IsChain(r, TypeTail, B, N)
  <2>1. ASSUME NEW n \in 0 .. N
        PROVE  (IF n = 0 THEN B ELSE r[n - 1] \cup One({"RBracket"}, One({"LBracket"}, r[n - 1])))
                 = IF n = 0 THEN B ELSE r[n - 1] \cup h[n]
    <3>1. n # 0 => n \in 1 .. N
      OBVIOUS
    <3> HIDE DEF r, B
    <3> QED
      BY <3>1, Zenon
  <2>2. ASSUME NEW n \in 1 .. N, r[n - 1] \in Spots
        PROVE  h[n] = TypeTail[r[n - 1]]
    <3> HIDE DEF r
    <3> QED
      BY <2>2, Zenon DEF TypeTail
  <2> HIDE DEF r, B, h
  <2>3. r = [n \in 0 .. N |-> IF n = 0 THEN B ELSE r[n - 1] \cup h[n]]
    BY <1>4, <2>1, Zenon
  <2>4. N \in Nat /\ Spots = Positions(N)
    BY DEF Spots
  <2> HIDE DEF N
  <2>5. \A n \in 1 .. N : r[n - 1] \in Positions(N) => h[n] = TypeTail[r[n - 1]]
    BY <2>2, <2>4, Zenon
  <2>6. B \in Positions(N) /\ TypeTail \in [Positions(N) -> Positions(N)]
    BY <1>1, <2>4, Zenon
  <2> QED
    BY <2>3, <2>4, <2>5, <2>6, ChainOfRecursion, Zenon
<1>6. TypeFn[P] = r[N]
  BY Zenon DEF TypeFn, FieldType, Star
<1> HIDE DEF r, B
<1> QED
  BY <1>1, <1>5, <1>6

\* The fields are one and any number of them after a comma.
LEMMA FieldsIsStar ==
  ASSUME Len(tokens) \in Nat, FieldsTail \in [Spots -> Spots], FieldFn \in [Spots -> Spots]
  PROVE  IsStar(FieldsFn, FieldFn, FieldsTail, Len(tokens))
<1> DEFINE N == Len(tokens)
<1> SUFFICES ASSUME NEW P \in Spots
             PROVE  \E f : IsChain(f, FieldsTail, FieldFn[P], N) /\ FieldsFn[P] = f[N]
  BY DEF IsStar, Spots
<1> DEFINE B == Field(P)
           E(f) == f = [n \in 0 .. N |->
                          IF n = 0 THEN B ELSE f[n - 1] \cup Field(One({"Comma"}, f[n - 1]))]
           r == CHOOSE f : E(f)
           h == [n \in 1 .. N |-> Field(One({"Comma"}, r[n - 1]))]
<1>1. B \in Spots /\ FieldFn[P] = B
  BY DEF FieldFn
<1>2. PICK f : f = [n \in 0 .. N |-> f[n]] /\ IsChain(f, FieldsTail, B, N)
  <2> HIDE DEF B
  <2> QED
    BY <1>1, ChainExists DEF Spots
<1>3. E(f)
  <2>1. ASSUME NEW n \in 0 .. N
        PROVE  f[n] = IF n = 0 THEN B ELSE f[n - 1] \cup Field(One({"Comma"}, f[n - 1]))
    <3>1. CASE n = 0
      BY <1>2, <3>1 DEF IsChain
    <3>2. CASE n # 0
      <4>1. n \in 1 .. N /\ n - 1 \in 0 .. N
        BY <3>2
      <4>2. f[n - 1] \in Spots /\ f[n] = f[n - 1] \cup FieldsTail[f[n - 1]]
        BY <1>2, <4>1 DEF IsChain, Spots
      <4> QED
        BY <3>2, <4>2, Zenon DEF FieldsTail
    <3> QED
      BY <3>1, <3>2
  <2> HIDE DEF B
  <2> QED
    BY <1>2, <2>1, Zenon
<1>4. E(r)
  <2> HIDE DEF E
  <2> QED
    BY <1>3, Zenon
<1>5. IsChain(r, FieldsTail, B, N)
  <2>1. ASSUME NEW n \in 0 .. N
        PROVE  (IF n = 0 THEN B ELSE r[n - 1] \cup Field(One({"Comma"}, r[n - 1])))
                 = IF n = 0 THEN B ELSE r[n - 1] \cup h[n]
    <3>1. n # 0 => n \in 1 .. N
      OBVIOUS
    <3> HIDE DEF r, B
    <3> QED
      BY <3>1, Zenon
  <2>2. ASSUME NEW n \in 1 .. N, r[n - 1] \in Spots
        PROVE  h[n] = FieldsTail[r[n - 1]]
    <3> HIDE DEF r
    <3> QED
      BY <2>2, Zenon DEF FieldsTail
  <2> HIDE DEF r, B, h
  <2>3. r = [n \in 0 .. N |-> IF n = 0 THEN B ELSE r[n - 1] \cup h[n]]
    BY <1>4, <2>1, Zenon
  <2>4. N \in Nat /\ Spots = Positions(N)
    BY DEF Spots
  <2> HIDE DEF N
  <2>5. \A n \in 1 .. N : r[n - 1] \in Positions(N) => h[n] = FieldsTail[r[n - 1]]
    BY <2>2, <2>4, Zenon
  <2>6. B \in Positions(N) /\ FieldsTail \in [Positions(N) -> Positions(N)]
    BY <1>1, <2>4, Zenon
  <2> QED
    BY <2>3, <2>4, <2>5, <2>6, ChainOfRecursion, Zenon
<1>6. FieldsFn[P] = r[N]
  BY Zenon DEF FieldsFn, ListOf, Star
<1> HIDE DEF r, B
<1> QED
  BY <1>1, <1>5, <1>6

\* The items are one and any number of them after a comma.
LEMMA ItemsIsStar ==
  ASSUME Len(tokens) \in Nat, ItemsTail \in [Spots -> Spots], ItemFn \in [Spots -> Spots]
  PROVE  IsStar(ItemsFn, ItemFn, ItemsTail, Len(tokens))
<1> DEFINE N == Len(tokens)
<1> SUFFICES ASSUME NEW P \in Spots
             PROVE  \E f : IsChain(f, ItemsTail, ItemFn[P], N) /\ ItemsFn[P] = f[N]
  BY DEF IsStar, Spots
<1> DEFINE B == Item(P)
           E(f) == f = [n \in 0 .. N |->
                          IF n = 0 THEN B ELSE f[n - 1] \cup Item(One({"Comma"}, f[n - 1]))]
           r == CHOOSE f : E(f)
           h == [n \in 1 .. N |-> Item(One({"Comma"}, r[n - 1]))]
<1>1. B \in Spots /\ ItemFn[P] = B
  BY DEF ItemFn
<1>2. PICK f : f = [n \in 0 .. N |-> f[n]] /\ IsChain(f, ItemsTail, B, N)
  <2> HIDE DEF B
  <2> QED
    BY <1>1, ChainExists DEF Spots
<1>3. E(f)
  <2>1. ASSUME NEW n \in 0 .. N
        PROVE  f[n] = IF n = 0 THEN B ELSE f[n - 1] \cup Item(One({"Comma"}, f[n - 1]))
    <3>1. CASE n = 0
      BY <1>2, <3>1 DEF IsChain
    <3>2. CASE n # 0
      <4>1. n \in 1 .. N /\ n - 1 \in 0 .. N
        BY <3>2
      <4>2. f[n - 1] \in Spots /\ f[n] = f[n - 1] \cup ItemsTail[f[n - 1]]
        BY <1>2, <4>1 DEF IsChain, Spots
      <4> QED
        BY <3>2, <4>2, Zenon DEF ItemsTail
    <3> QED
      BY <3>1, <3>2
  <2> HIDE DEF B
  <2> QED
    BY <1>2, <2>1, Zenon
<1>4. E(r)
  <2> HIDE DEF E
  <2> QED
    BY <1>3, Zenon
<1>5. IsChain(r, ItemsTail, B, N)
  <2>1. ASSUME NEW n \in 0 .. N
        PROVE  (IF n = 0 THEN B ELSE r[n - 1] \cup Item(One({"Comma"}, r[n - 1])))
                 = IF n = 0 THEN B ELSE r[n - 1] \cup h[n]
    <3>1. n # 0 => n \in 1 .. N
      OBVIOUS
    <3> HIDE DEF r, B
    <3> QED
      BY <3>1, Zenon
  <2>2. ASSUME NEW n \in 1 .. N, r[n - 1] \in Spots
        PROVE  h[n] = ItemsTail[r[n - 1]]
    <3> HIDE DEF r
    <3> QED
      BY <2>2, Zenon DEF ItemsTail
  <2> HIDE DEF r, B, h
  <2>3. r = [n \in 0 .. N |-> IF n = 0 THEN B ELSE r[n - 1] \cup h[n]]
    BY <1>4, <2>1, Zenon
  <2>4. N \in Nat /\ Spots = Positions(N)
    BY DEF Spots
  <2> HIDE DEF N
  <2>5. \A n \in 1 .. N : r[n - 1] \in Positions(N) => h[n] = ItemsTail[r[n - 1]]
    BY <2>2, <2>4, Zenon
  <2>6. B \in Positions(N) /\ ItemsTail \in [Positions(N) -> Positions(N)]
    BY <1>1, <2>4, Zenon
  <2> QED
    BY <2>3, <2>4, <2>5, <2>6, ChainOfRecursion, Zenon
<1>6. ItemsFn[P] = r[N]
  BY Zenon DEF ItemsFn, ListOf, Star
<1> HIDE DEF r, B
<1> QED
  BY <1>1, <1>5, <1>6

\* The declarations are any number of them.
LEMMA DeclsIsStar ==
  ASSUME Len(tokens) \in Nat, DeclFn \in [Spots -> Spots], StartFn \in [Spots -> Spots]
  PROVE  IsStar(DeclsFn, StartFn, DeclFn, Len(tokens))
<1> DEFINE N == Len(tokens)
<1> SUFFICES ASSUME NEW P \in Spots
             PROVE  \E f : IsChain(f, DeclFn, StartFn[P], N) /\ DeclsFn[P] = f[N]
  BY DEF IsStar, Spots
<1> DEFINE B == P
           E(f) == f = [n \in 0 .. N |->
                          IF n = 0 THEN B ELSE f[n - 1] \cup Decl(f[n - 1])]
           r == CHOOSE f : E(f)
           h == [n \in 1 .. N |-> Decl(r[n - 1])]
<1>1. B \in Spots /\ StartFn[P] = B
  BY DEF StartFn
<1>2. PICK f : f = [n \in 0 .. N |-> f[n]] /\ IsChain(f, DeclFn, B, N)
  <2> HIDE DEF B
  <2> QED
    BY <1>1, ChainExists DEF Spots
<1>3. E(f)
  <2>1. ASSUME NEW n \in 0 .. N
        PROVE  f[n] = IF n = 0 THEN B ELSE f[n - 1] \cup Decl(f[n - 1])
    <3>1. CASE n = 0
      BY <1>2, <3>1 DEF IsChain
    <3>2. CASE n # 0
      <4>1. n \in 1 .. N /\ n - 1 \in 0 .. N
        BY <3>2
      <4>2. f[n - 1] \in Spots /\ f[n] = f[n - 1] \cup DeclFn[f[n - 1]]
        BY <1>2, <4>1 DEF IsChain, Spots
      <4> QED
        BY <3>2, <4>2, Zenon DEF DeclFn
    <3> QED
      BY <3>1, <3>2
  <2> HIDE DEF B
  <2> QED
    BY <1>2, <2>1, Zenon
<1>4. E(r)
  <2> HIDE DEF E
  <2> QED
    BY <1>3, Zenon
<1>5. IsChain(r, DeclFn, B, N)
  <2>1. ASSUME NEW n \in 0 .. N
        PROVE  (IF n = 0 THEN B ELSE r[n - 1] \cup Decl(r[n - 1]))
                 = IF n = 0 THEN B ELSE r[n - 1] \cup h[n]
    <3>1. n # 0 => n \in 1 .. N
      OBVIOUS
    <3> HIDE DEF r, B
    <3> QED
      BY <3>1, Zenon
  <2>2. ASSUME NEW n \in 1 .. N, r[n - 1] \in Spots
        PROVE  h[n] = DeclFn[r[n - 1]]
    <3> HIDE DEF r
    <3> QED
      BY <2>2, Zenon DEF DeclFn
  <2> HIDE DEF r, B, h
  <2>3. r = [n \in 0 .. N |-> IF n = 0 THEN B ELSE r[n - 1] \cup h[n]]
    BY <1>4, <2>1, Zenon
  <2>4. N \in Nat /\ Spots = Positions(N)
    BY DEF Spots
  <2> HIDE DEF N
  <2>5. \A n \in 1 .. N : r[n - 1] \in Positions(N) => h[n] = DeclFn[r[n - 1]]
    BY <2>2, <2>4, Zenon
  <2>6. B \in Positions(N) /\ DeclFn \in [Positions(N) -> Positions(N)]
    BY <1>1, <2>4, Zenon
  <2> QED
    BY <2>3, <2>4, <2>5, <2>6, ChainOfRecursion, Zenon
<1>6. DeclsFn[P] = r[N]
  BY Zenon DEF DeclsFn, Star
<1> HIDE DEF r, B
<1> QED
  BY <1>1, <1>5, <1>6

\* A dotted name, and what it holds.
LEMMA DottedConsumes ==
  ASSUME Len(tokens) \in Nat
  PROVE  /\ Consumes(NameFn) /\ Consumes(DottedFn) /\ Consumes(DottedTail)
         /\ \A P \in Spots : /\ One(Names, P) \subseteq DottedId(P)
                             /\ One(Names, One({"Dot"}, DottedId(P))) \subseteq DottedId(P)
<1> DEFINE Dot == [P \in Spots |-> One({"Dot"}, P)]
<1>1. Consumes(NameFn) /\ Consumes(Dot)
  BY OneConsumes DEF NameFn
<1>2. Consumes(DottedTail)
  <2>1. \A P \in Spots : DottedTail[P] = One(Names, Dot[P])
    BY DEF DottedTail
  <2>2. DottedTail = [P \in Spots |-> DottedTail[P]]
    BY DEF DottedTail
  <2> HIDE DEF Dot
  <2> QED
    BY <1>1, <2>1, <2>2, ThenOneConsumes
<1>3. IsStar(DottedFn, NameFn, DottedTail, Len(tokens))
  BY <1>1, <1>2, DottedIsStar DEF Consumes
<1>4. DottedFn = [P \in Spots |-> DottedFn[P]]
  BY DEF DottedFn
<1>5. /\ Consumes(DottedFn)
      /\ \A P \in Spots : NameFn[P] \subseteq DottedFn[P] /\ DottedTail[DottedFn[P]] \subseteq DottedFn[P]
  BY <1>1, <1>2, <1>3, <1>4, StarConsumes
<1>6. \A P \in Spots : /\ NameFn[P] = One(Names, P) /\ DottedFn[P] = DottedId(P) /\ DottedFn[P] \in Spots
                       /\ DottedTail[P] = One(Names, One({"Dot"}, P))
  BY <1>5 DEF NameFn, DottedFn, DottedTail, Consumes
<1>7. \A P \in Spots : DottedTail[DottedFn[P]] = One(Names, One({"Dot"}, DottedId(P)))
  BY <1>6
<1> QED
  BY <1>1, <1>2, <1>5, <1>6, <1>7

\* The type of a field, and what it holds.
LEMMA TypeConsumes ==
  ASSUME Len(tokens) \in Nat
  PROVE  /\ Consumes(BaseFn) /\ Consumes(TypeFn) /\ Consumes(TypeTail)
         /\ \A P \in Spots :
              /\ BaseType(P) \subseteq FieldType(P)
              /\ One({"RBracket"}, One({"LBracket"}, FieldType(P))) \subseteq FieldType(P)
<1> DEFINE Builtin == [P \in Spots |-> One({"type"}, P)]
           Open == [P \in Spots |-> One({"LBracket"}, P)]
<1>1. Consumes(Builtin) /\ Consumes(Open) /\ Consumes(DottedFn)
  BY OneConsumes, DottedConsumes
<1>2. Consumes(BaseFn)
  <2>1. \A P \in Spots : BaseFn[P] = Builtin[P] \cup DottedFn[P]
    BY DEF BaseFn, BaseType, DottedFn
  <2>2. BaseFn = [P \in Spots |-> BaseFn[P]]
    BY DEF BaseFn
  <2> HIDE DEF Builtin
  <2> QED
    BY <1>1, <2>1, <2>2, EitherConsumes
<1>3. Consumes(TypeTail)
  <2>1. \A P \in Spots : TypeTail[P] = One({"RBracket"}, Open[P])
    BY DEF TypeTail
  <2>2. TypeTail = [P \in Spots |-> TypeTail[P]]
    BY DEF TypeTail
  <2> HIDE DEF Open
  <2> QED
    BY <1>1, <2>1, <2>2, ThenOneConsumes
<1>4. IsStar(TypeFn, BaseFn, TypeTail, Len(tokens))
  BY <1>2, <1>3, TypeIsStar DEF Consumes
<1>5. TypeFn = [P \in Spots |-> TypeFn[P]]
  BY DEF TypeFn
<1>6. /\ Consumes(TypeFn)
      /\ \A P \in Spots : BaseFn[P] \subseteq TypeFn[P] /\ TypeTail[TypeFn[P]] \subseteq TypeFn[P]
  BY <1>2, <1>3, <1>4, <1>5, StarConsumes
<1>7. \A P \in Spots : /\ BaseFn[P] = BaseType(P) /\ TypeFn[P] = FieldType(P) /\ TypeFn[P] \in Spots
                       /\ TypeTail[P] = One({"RBracket"}, One({"LBracket"}, P))
  BY <1>6 DEF BaseFn, TypeFn, TypeTail, Consumes
<1>8. \A P \in Spots :
        TypeTail[TypeFn[P]] = One({"RBracket"}, One({"LBracket"}, FieldType(P)))
  BY <1>7
<1> QED
  BY <1>2, <1>3, <1>6, <1>7, <1>8

\* The fields of a class or struct, and what they hold.
LEMMA FieldsConsume ==
  ASSUME Len(tokens) \in Nat
  PROVE  /\ Consumes(FieldFn) /\ Consumes(FieldsFn) /\ Consumes(FieldsTail)
         /\ \A P \in Spots :
              /\ Field(P) \subseteq ListOf(Field, P)
              /\ Field(One({"Comma"}, ListOf(Field, P))) \subseteq ListOf(Field, P)
<1> DEFINE Colon == [P \in Spots |-> One({"Colon"}, One(Names, P))]
           Sep == [P \in Spots |-> One({"Comma"}, P)]
<1>1. Consumes(NameFn) /\ Consumes(TypeFn) /\ Consumes(Sep)
  BY OneConsumes, DottedConsumes, TypeConsumes
<1>2. Consumes(Colon)
  <2>1. \A P \in Spots : Colon[P] = One({"Colon"}, NameFn[P])
    BY DEF NameFn
  <2>2. Colon = [P \in Spots |-> Colon[P]]
    OBVIOUS
  <2> HIDE DEF Colon
  <2> QED
    BY <1>1, <2>1, <2>2, ThenOneConsumes
<1>3. Consumes(FieldFn)
  <2>1. \A P \in Spots : FieldFn[P] = TypeFn[Colon[P]]
    <3>1. \A P \in Spots : Colon[P] \in Spots /\ Colon[P] = One({"Colon"}, One(Names, P))
      BY <1>2 DEF Consumes
    <3> HIDE DEF Colon
    <3> QED
      BY <3>1, Zenon DEF FieldFn, Field, TypeFn
  <2>2. FieldFn = [P \in Spots |-> FieldFn[P]]
    BY DEF FieldFn
  <2> HIDE DEF Colon
  <2> QED
    BY <1>1, <1>2, <2>1, <2>2, ThenConsumes
<1>4. Consumes(FieldsTail)
  <2>1. \A P \in Spots : FieldsTail[P] = FieldFn[Sep[P]]
    <3>1. \A P \in Spots : Sep[P] \in Spots /\ Sep[P] = One({"Comma"}, P)
      BY <1>1 DEF Consumes
    <3> HIDE DEF Sep
    <3> QED
      BY <3>1, Zenon DEF FieldFn, FieldsTail
  <2>2. FieldsTail = [P \in Spots |-> FieldsTail[P]]
    BY DEF FieldsTail
  <2> HIDE DEF Sep
  <2> QED
    BY <1>1, <1>3, <2>1, <2>2, ThenConsumes
<1>5. IsStar(FieldsFn, FieldFn, FieldsTail, Len(tokens))
  BY <1>3, <1>4, FieldsIsStar DEF Consumes
<1>6. FieldsFn = [P \in Spots |-> FieldsFn[P]]
  BY DEF FieldsFn
<1>7. /\ Consumes(FieldsFn)
      /\ \A P \in Spots : FieldFn[P] \subseteq FieldsFn[P] /\ FieldsTail[FieldsFn[P]] \subseteq FieldsFn[P]
  BY <1>3, <1>4, <1>5, <1>6, StarConsumes
<1>8. \A P \in Spots : /\ FieldFn[P] = Field(P) /\ FieldsFn[P] = ListOf(Field, P) /\ FieldsFn[P] \in Spots
                       /\ FieldsTail[P] = Field(One({"Comma"}, P))
  BY <1>7, Zenon DEF FieldFn, FieldsFn, FieldsTail, Consumes
<1>9. \A P \in Spots : FieldsTail[FieldsFn[P]] = Field(One({"Comma"}, ListOf(Field, P)))
  BY <1>8, Zenon
<1> QED
  BY <1>3, <1>4, <1>7, <1>8, <1>9, Zenon

\* The items of an enum, and what they hold.
LEMMA ItemsConsume ==
  ASSUME Len(tokens) \in Nat
  PROVE  /\ Consumes(ItemFn) /\ Consumes(ItemsFn) /\ Consumes(ItemsTail)
         /\ \A P \in Spots :
              /\ Item(P) \subseteq ListOf(Item, P)
              /\ Item(One({"Comma"}, ListOf(Item, P))) \subseteq ListOf(Item, P)
<1> DEFINE Sep == [P \in Spots |-> One({"Comma"}, P)]
           Assign == [P \in Spots |-> One({"AssignOp"}, One(Names, P))]
           Value == [P \in Spots |-> One({"lit"}, One({"AssignOp"}, One(Names, P)))]
<1>1. Consumes(NameFn) /\ Consumes(Sep)
  BY OneConsumes, DottedConsumes
<1>2. Consumes(Assign)
  <2>1. \A P \in Spots : Assign[P] = One({"AssignOp"}, NameFn[P])
    BY DEF NameFn
  <2>2. Assign = [P \in Spots |-> Assign[P]]
    OBVIOUS
  <2> HIDE DEF Assign
  <2> QED
    BY <1>1, <2>1, <2>2, ThenOneConsumes
<1>3. Consumes(Value)
  <2>1. \A P \in Spots : Value[P] = One({"lit"}, Assign[P])
    OBVIOUS
  <2>2. Value = [P \in Spots |-> Value[P]]
    OBVIOUS
  <2> HIDE DEF Assign, Value
  <2> QED
    BY <1>2, <2>1, <2>2, ThenOneConsumes
<1>4. Consumes(ItemFn)
  <2>1. \A P \in Spots : ItemFn[P] = NameFn[P] \cup Value[P]
    BY DEF ItemFn, Item, Opt, NameFn
  <2>2. ItemFn = [P \in Spots |-> ItemFn[P]]
    BY DEF ItemFn
  <2> HIDE DEF Value
  <2> QED
    BY <1>1, <1>3, <2>1, <2>2, EitherConsumes
<1>5. Consumes(ItemsTail)
  <2>1. \A P \in Spots : ItemsTail[P] = ItemFn[Sep[P]]
    <3>1. \A P \in Spots : Sep[P] \in Spots /\ Sep[P] = One({"Comma"}, P)
      BY <1>1 DEF Consumes
    <3> HIDE DEF Sep
    <3> QED
      BY <3>1, Zenon DEF ItemFn, ItemsTail
  <2>2. ItemsTail = [P \in Spots |-> ItemsTail[P]]
    BY DEF ItemsTail
  <2> HIDE DEF Sep
  <2> QED
    BY <1>1, <1>4, <2>1, <2>2, ThenConsumes
<1>6. IsStar(ItemsFn, ItemFn, ItemsTail, Len(tokens))
  BY <1>4, <1>5, ItemsIsStar DEF Consumes
<1>7. ItemsFn = [P \in Spots |-> ItemsFn[P]]
  BY DEF ItemsFn
<1>8. /\ Consumes(ItemsFn)
      /\ \A P \in Spots : ItemFn[P] \subseteq ItemsFn[P] /\ ItemsTail[ItemsFn[P]] \subseteq ItemsFn[P]
  BY <1>4, <1>5, <1>6, <1>7, StarConsumes
<1>9. \A P \in Spots : /\ ItemFn[P] = Item(P) /\ ItemsFn[P] = ListOf(Item, P) /\ ItemsFn[P] \in Spots
                       /\ ItemsTail[P] = Item(One({"Comma"}, P))
  BY <1>8, Zenon DEF ItemFn, ItemsFn, ItemsTail, Consumes
<1>10. \A P \in Spots : ItemsTail[ItemsFn[P]] = Item(One({"Comma"}, ListOf(Item, P)))
  BY <1>9, Zenon
<1> QED
  BY <1>4, <1>5, <1>8, <1>9, <1>10, Zenon

\* A record: from its keyword to its closing brace.
LEMMA RecordConsumes ==
  ASSUME Len(tokens) \in Nat
  PROVE  Consumes([P \in Spots |-> Record(P)])
<1> DEFINE Key == [P \in Spots |-> One({"class", "struct"}, P)]
           Named == [P \in Spots |-> One(Names, One({"class", "struct"}, P))]
           Opened == [P \in Spots |-> One({"LBrace"}, One(Names, One({"class", "struct"}, P)))]
           Filled == [P \in Spots |->
                        ListOf(Field, One({"LBrace"}, One(Names, One({"class", "struct"}, P))))]
           Closed == [P \in Spots |-> Record(P)]
<1>1. Consumes(Key) /\ Consumes(FieldsFn)
  BY OneConsumes, FieldsConsume
<1>2. Consumes(Named)
  <2>1. \A P \in Spots : Named[P] = One(Names, Key[P])
    OBVIOUS
  <2>2. Named = [P \in Spots |-> Named[P]]
    OBVIOUS
  <2> HIDE DEF Key, Named
  <2> QED
    BY <1>1, <2>1, <2>2, ThenOneConsumes
<1>3. Consumes(Opened)
  <2>1. \A P \in Spots : Opened[P] = One({"LBrace"}, Named[P])
    OBVIOUS
  <2>2. Opened = [P \in Spots |-> Opened[P]]
    OBVIOUS
  <2> HIDE DEF Named, Opened
  <2> QED
    BY <1>2, <2>1, <2>2, ThenOneConsumes
<1>4. Consumes(Filled)
  <2>1. \A P \in Spots : Filled[P] = FieldsFn[Opened[P]]
    <3>1. \A P \in Spots : Opened[P] \in Spots /\ Opened[P] = One({"LBrace"}, One(Names, One({"class", "struct"}, P)))
      BY <1>3 DEF Consumes
    <3> HIDE DEF Opened
    <3> QED
      BY <3>1, Zenon DEF FieldsFn
  <2>2. Filled = [P \in Spots |-> Filled[P]]
    OBVIOUS
  <2> HIDE DEF Opened, Filled
  <2> QED
    BY <1>1, <1>3, <2>1, <2>2, ThenConsumes
<1>5. Consumes(Closed)
  <2>1. \A P \in Spots : Closed[P] = One({"RBrace"}, Filled[P])
    BY Zenon DEF Record, Body
  <2>2. Closed = [P \in Spots |-> Closed[P]]
    OBVIOUS
  <2> HIDE DEF Closed, Filled
  <2> QED
    BY <1>4, <2>1, <2>2, ThenOneConsumes
<1> QED
  BY <1>5

\* An enumeration: from its keyword to its closing brace.
LEMMA EnumerationConsumes ==
  ASSUME Len(tokens) \in Nat
  PROVE  Consumes([P \in Spots |-> Enumeration(P)])
<1> DEFINE Key == [P \in Spots |-> One({"enum"}, P)]
           Named == [P \in Spots |-> One(Names, One({"enum"}, P))]
           Colon == [P \in Spots |-> One({"Colon"}, One(Names, One({"enum"}, P)))]
           Typed == [P \in Spots |-> BaseType(One({"Colon"}, One(Names, One({"enum"}, P))))]
           Opened == [P \in Spots |->
                        One({"LBrace"}, BaseType(One({"Colon"}, One(Names, One({"enum"}, P)))))]
           Filled == [P \in Spots |->
                        ListOf(Item, One({"LBrace"},
                                         BaseType(One({"Colon"}, One(Names, One({"enum"}, P))))))]
           Closed == [P \in Spots |-> Enumeration(P)]
<1>1. Consumes(Key) /\ Consumes(ItemsFn) /\ Consumes(BaseFn)
  BY OneConsumes, ItemsConsume, TypeConsumes
<1>2. Consumes(Named)
  <2>1. \A P \in Spots : Named[P] = One(Names, Key[P])
    OBVIOUS
  <2>2. Named = [P \in Spots |-> Named[P]]
    OBVIOUS
  <2> HIDE DEF Key, Named
  <2> QED
    BY <1>1, <2>1, <2>2, ThenOneConsumes
<1>3. Consumes(Colon)
  <2>1. \A P \in Spots : Colon[P] = One({"Colon"}, Named[P])
    OBVIOUS
  <2>2. Colon = [P \in Spots |-> Colon[P]]
    OBVIOUS
  <2> HIDE DEF Named, Colon
  <2> QED
    BY <1>2, <2>1, <2>2, ThenOneConsumes
<1>4. Consumes(Typed)
  <2>1. \A P \in Spots : Typed[P] = BaseFn[Colon[P]]
    <3>1. \A P \in Spots : Colon[P] \in Spots /\ Colon[P] = One({"Colon"}, One(Names, One({"enum"}, P)))
      BY <1>3 DEF Consumes
    <3> HIDE DEF Colon
    <3> QED
      BY <3>1, Zenon DEF BaseFn
  <2>2. Typed = [P \in Spots |-> Typed[P]]
    OBVIOUS
  <2> HIDE DEF Colon, Typed
  <2> QED
    BY <1>1, <1>3, <2>1, <2>2, ThenConsumes
<1>5. Consumes(Opened)
  <2>1. \A P \in Spots : Opened[P] = One({"LBrace"}, Typed[P])
    BY Zenon
  <2>2. Opened = [P \in Spots |-> Opened[P]]
    OBVIOUS
  <2> HIDE DEF Typed, Opened
  <2> QED
    BY <1>4, <2>1, <2>2, ThenOneConsumes
<1>6. Consumes(Filled)
  <2>1. \A P \in Spots : Filled[P] = ItemsFn[Opened[P]]
    <3>1. \A P \in Spots : Opened[P] \in Spots /\ Opened[P] = One({"LBrace"}, BaseType(One({"Colon"}, One(Names, One({"enum"}, P)))))
      BY <1>5 DEF Consumes
    <3> HIDE DEF Opened
    <3> QED
      BY <3>1, Zenon DEF ItemsFn
  <2>2. Filled = [P \in Spots |-> Filled[P]]
    OBVIOUS
  <2> HIDE DEF Opened, Filled
  <2> QED
    BY <1>1, <1>5, <2>1, <2>2, ThenConsumes
<1>7. Consumes(Closed)
  <2>1. \A P \in Spots : Closed[P] = One({"RBrace"}, Filled[P])
    BY Zenon DEF Enumeration, Body
  <2>2. Closed = [P \in Spots |-> Closed[P]]
    OBVIOUS
  <2> HIDE DEF Closed, Filled
  <2> QED
    BY <1>6, <2>1, <2>2, ThenOneConsumes
<1> QED
  BY <1>7

\* A name with an optional scope operator before it.
LEMMA IdRefConsumes ==
  ASSUME Len(tokens) \in Nat
  PROVE  Consumes([P \in Spots |-> IdRef(P)])
<1> DEFINE N == Len(tokens)
           Scope == [P \in Spots |-> One({"ScopeOp"}, P)]
           Opened == [P \in Spots |-> P \cup One({"ScopeOp"}, P)]
           Whole == [P \in Spots |-> IdRef(P)]
<1>1. Consumes(Scope) /\ Consumes(DottedFn)
  BY OneConsumes, DottedConsumes
<1>2. Opened \in [Spots -> Spots]
  <2>1. \A P \in Spots : One({"ScopeOp"}, P) \in Spots
    BY <1>1 DEF Consumes
  <2> QED
    BY <2>1 DEF Spots, Positions
<1>3. Moves(Opened, N, 0)
  <2> SUFFICES ASSUME NEW P \in Spots, NEW x \in Opened[P]
               PROVE  \E y \in P : y + 0 <= x /\ \A Q \in Spots : y \in Q => x \in Opened[Q]
    BY DEF Moves, Spots
  <2>1. \A Q \in Spots : Opened[Q] = Q \cup Scope[Q]
    OBVIOUS
  <2>2. x \in Nat
    <3>1. Opened[P] \in Spots
      BY <1>2
    <3> HIDE DEF Opened
    <3> QED
      BY <3>1 DEF Spots, Positions
  <2> HIDE DEF Opened, Scope
  <2>3. CASE x \in P
    BY <2>1, <2>2, <2>3
  <2>4. CASE x \in Scope[P]
    <3>1. PICK y \in P : y + 1 <= x /\ \A Q \in Spots : y \in Q => x \in Scope[Q]
      BY <1>1, <2>4 DEF Consumes, Moves, Spots
    <3>2. y \in Nat
      BY DEF Spots, Positions
    <3> QED
      BY <2>1, <2>2, <3>1, <3>2
  <2> QED
    BY <2>1, <2>3, <2>4
<1>4. Whole = [P \in Positions(N) |-> DottedFn[Opened[P]]]
  <2>1. \A P \in Spots : IdRef(P) = DottedId(P \cup One({"ScopeOp"}, P))
    BY Zenon DEF IdRef, Opt
  <2>2. \A P \in Spots : Opened[P] \in Spots /\ Opened[P] = P \cup One({"ScopeOp"}, P)
    BY <1>2
  <2> HIDE DEF Opened
  <2> QED
    BY <2>1, <2>2, Zenon DEF DottedFn, Spots
<1> HIDE DEF Whole, Opened
<1>5. /\ DottedFn \in [Positions(N) -> Positions(N)] /\ Opened \in [Positions(N) -> Positions(N)]
      /\ Moves(DottedFn, N, 1)
  BY <1>1, <1>2 DEF Consumes, Spots
<1> HIDE DEF N
<1>6. Whole \in [Positions(N) -> Positions(N)] /\ Moves(Whole, N, 1)
  <2>1. N \in Nat
    BY DEF N
  <2> QED
    BY <1>3, <1>4, <1>5, <2>1, MovesThen
<1>7. Consumes(Whole)
  BY <1>6 DEF Consumes, Spots, N
<1> QED
  BY <1>7 DEF Whole

\* An import.
LEMMA ImportConsumes ==
  ASSUME Len(tokens) \in Nat
  PROVE  Consumes([P \in Spots |-> Import(P)])
<1> DEFINE Key == [P \in Spots |-> One({"import"}, P)]
           Ref == [P \in Spots |-> IdRef(P)]
           Named == [P \in Spots |-> IdRef(One({"import"}, P))]
           Closed == [P \in Spots |-> Import(P)]
<1>1. Consumes(Key) /\ Consumes(Ref)
  BY OneConsumes, IdRefConsumes
<1>2. Consumes(Named)
  <2>1. \A P \in Spots : Named[P] = Ref[Key[P]]
    <3>1. \A P \in Spots : Key[P] \in Spots /\ Key[P] = One({"import"}, P)
      BY <1>1 DEF Consumes
    <3> HIDE DEF Key
    <3> QED
      BY <3>1, Zenon
  <2>2. Named = [P \in Spots |-> Named[P]]
    OBVIOUS
  <2> HIDE DEF Key, Named, Ref
  <2> QED
    BY <1>1, <2>1, <2>2, ThenConsumes
<1>3. Consumes(Closed)
  <2>1. \A P \in Spots : Closed[P] = One({"Semicolon"}, Named[P])
    BY Zenon DEF Import
  <2>2. Closed = [P \in Spots |-> Closed[P]]
    OBVIOUS
  <2> HIDE DEF Closed, Named
  <2> QED
    BY <1>2, <2>1, <2>2, ThenOneConsumes
<1> QED
  BY <1>3

\* The declarations, and what they hold.
LEMMA DeclsConsume ==
  ASSUME Len(tokens) \in Nat
  PROVE  /\ Consumes(DeclFn)
         /\ DeclsFn \in [Spots -> Spots] /\ Moves(DeclsFn, Len(tokens), 0)
         /\ \A P \in Spots : /\ P \subseteq Star(Decl, P)
                             /\ Decl(Star(Decl, P)) \subseteq Star(Decl, P)
<1> DEFINE N == Len(tokens)
           Rec == [P \in Spots |-> Record(P)]
           Enu == [P \in Spots |-> Enumeration(P)]
           Two == [P \in Spots |-> Record(P) \cup Enumeration(P)]
           Imp == [P \in Spots |-> Import(P)]
<1>1. Consumes(Rec) /\ Consumes(Enu) /\ Consumes(Imp)
  BY RecordConsumes, EnumerationConsumes, ImportConsumes
<1>2. Consumes(Two)
  <2>1. \A P \in Spots : Two[P] = Rec[P] \cup Enu[P]
    OBVIOUS
  <2>2. Two = [P \in Spots |-> Two[P]]
    OBVIOUS
  <2> HIDE DEF Rec, Enu, Two
  <2> QED
    BY <1>1, <2>1, <2>2, EitherConsumes
<1>3. Consumes(DeclFn)
  <2>1. \A P \in Spots : DeclFn[P] = Two[P] \cup Imp[P]
    BY DEF DeclFn, Decl
  <2>2. DeclFn = [P \in Spots |-> DeclFn[P]]
    BY DEF DeclFn
  <2> HIDE DEF Two, Imp
  <2> QED
    BY <1>1, <1>2, <2>1, <2>2, EitherConsumes
<1>4. StartFn \in [Spots -> Spots] /\ Moves(StartFn, N, 0)
  <2>1. StartFn \in [Spots -> Spots]
    BY DEF StartFn
  <2>2. ASSUME NEW P \in Spots, NEW x \in StartFn[P]
        PROVE  \E y \in P : y + 0 <= x /\ \A Q \in Spots : y \in Q => x \in StartFn[Q]
    BY DEF StartFn, Spots, Positions
  <2> QED
    BY <2>1, <2>2 DEF Moves, Spots
<1>5. IsStar(DeclsFn, StartFn, DeclFn, N)
  BY <1>3, <1>4, DeclsIsStar DEF Consumes
<1>6. DeclsFn = [P \in Spots |-> DeclsFn[P]]
  BY DEF DeclsFn
<1>7. /\ DeclsFn \in [Spots -> Spots] /\ Moves(DeclsFn, N, 0)
      /\ \A P \in Spots : StartFn[P] \subseteq DeclsFn[P] /\ DeclFn[DeclsFn[P]] \subseteq DeclsFn[P]
  <2>1. N \in Nat /\ 0 \in {0, 1} /\ Spots = Positions(N)
    BY DEF Spots
  <2>2. DeclFn \in [Spots -> Spots] /\ Moves(DeclFn, N, 1)
    BY <1>3 DEF Consumes
  <2> HIDE DEF N
  <2> QED
    BY <1>4, <1>5, <1>6, <2>1, <2>2, StarMoves
<1>8. \A P \in Spots : /\ StartFn[P] = P /\ DeclsFn[P] = Star(Decl, P) /\ DeclsFn[P] \in Spots
                       /\ DeclFn[P] = Decl(P)
  BY <1>7, Zenon DEF StartFn, DeclsFn, DeclFn
<1>9. \A P \in Spots : DeclFn[DeclsFn[P]] = Decl(Star(Decl, P))
  BY <1>8, Zenon
<1> QED
  BY <1>3, <1>7, <1>8, <1>9, Zenon

-----------------------------------------------------------------------------
(* Where the parser is: as long as nothing has gone wrong, what it has       *)
(* consumed is what the grammar allows before the place it is at.            *)

\* Where a declaration may start, and the parts of one.
Started == Star(Decl, Opt(Module, {0}))
RecordName == One(Names, One({"class", "struct"}, Started))
EnumName == One(Names, One({"enum"}, Started))
EnumColon == One({"Colon"}, EnumName)
RecordBody == One({"LBrace"}, RecordName)
EnumBody == One({"LBrace"}, BaseType(EnumColon))
Fields == ListOf(Field, RecordBody)
Items == ListOf(Item, EnumBody)
ModuleKey == One({"module"}, {0})
ImportKey == One({"import"}, Started)

\* Where a field, an item or a type may start: the sets it may start from.
FieldStarts == {RecordBody, One({"Comma"}, Fields)}
ItemStarts == {EnumBody, One({"Comma"}, Items)}
TypeStarts ==
  IF ctx = "base" THEN {EnumColon} ELSE {One({"Colon"}, One(Names, X)) : X \in FieldStarts}
NameStarts ==
  CASE ctx = "module" -> {ModuleKey \cup One({"ScopeOp"}, ModuleKey)}
    [] ctx = "import" -> {ImportKey \cup One({"ScopeOp"}, ImportKey)}
    [] OTHER -> TypeStarts

Inside == IF InEnum THEN Items ELSE Fields

TypePlaces == {"type", "id_ref", "id_ref_name", "custom_type", "suffix"}

\* The places of a member loop belong to the kind of the declaration.
KindsAgree ==
  /\ pc \in {"base_colon", "item", "item_assign", "item_value", "leave_item"} => InEnum
  /\ pc \in {"field", "field_colon", "leave_field"} => ~InEnum
  /\ pc \in TypePlaces /\ ctx = "base" => InEnum
  /\ pc \in TypePlaces /\ ctx = "field" => ~InEnum

AtReference ==
  /\ pc = "begin" => cur = 0
  /\ pc = "id_ref" =>
       /\ ctx = "module" => cur \in ModuleKey
       /\ ctx = "import" => cur \in ImportKey
       /\ ctx \in {"field", "base"} => Tok \in Names /\ \E X \in TypeStarts : cur \in X
  /\ pc = "id_ref_name" =>
       \E X \in NameStarts : cur \in X \/ cur \in One({"Dot"}, DottedId(X))
  /\ pc = "module_semi" => cur \in IdRef(ModuleKey)
  /\ pc = "import_member" => cur \in IdRef(ImportKey)
  /\ pc = "import_semi" /\ ~AliasLeft => cur \in IdRef(ImportKey)

AtType ==
  /\ pc = "type" => \E X \in TypeStarts : cur \in X
  /\ pc = "custom_type" => \E X \in TypeStarts : cur \in DottedId(X)
  /\ pc = "suffix" => IF ctx = "base" THEN cur \in BaseType(EnumColon)
                      ELSE \E X \in TypeStarts : cur \in FieldType(X)

AtDecl ==
  /\ pc = "stmt" => cur \in Started
  /\ pc = "base_colon" => cur \in EnumName
  /\ pc = "body_open" => cur \in (IF InEnum THEN BaseType(EnumColon) ELSE RecordName)
  /\ pc \in {"member", "comma", "body_close"} => cur \in Inside
  /\ pc \in {"leave_body", "decl_index"} => cur \in Decl(Started)

AtMember ==
  /\ pc = "field" => \E X \in FieldStarts : cur \in X
  /\ pc = "field_colon" => \E X \in FieldStarts : cur \in One(Names, X)
  /\ pc = "leave_field" => cur \in Fields
  /\ pc = "item" => \E X \in ItemStarts : cur \in X
  /\ pc = "item_assign" => \E X \in ItemStarts : cur \in One(Names, X)
  /\ pc = "item_value" => \E X \in ItemStarts : cur \in One({"AssignOp"}, One(Names, X))
  /\ pc = "leave_item" => cur \in Items

InGrammar == KindsAgree /\ AtReference /\ AtType /\ AtDecl /\ AtMember

\* What follows about the sets of positions the parser's places stand for.
LEMMA GrammarTypes ==
  ASSUME TypeOK
  PROVE  /\ Len(tokens) \in Nat
         /\ \A P \in Spots : /\ \A S : One(S, P) \in Spots
                             /\ DottedId(P) \in Spots /\ BaseType(P) \in Spots
                             /\ FieldType(P) \in Spots /\ Field(P) \in Spots
                             /\ ListOf(Field, P) \in Spots /\ ListOf(Item, P) \in Spots
                             /\ Star(Decl, P) \in Spots
                             /\ IdRef(P) \in Spots /\ P \cup One({"ScopeOp"}, P) \in Spots
         /\ {0} \in Spots /\ Opt(Module, {0}) \in Spots
<1>1. Len(tokens) \in Nat
  BY DEF TypeOK, EndsOnce
<1>2. ASSUME NEW P \in Spots, NEW S
      PROVE  One(S, P) \in Spots
  <2> DEFINE H == [Q \in Spots |-> One(S, Q)]
  <2>1. Consumes(H)
    BY <1>1, OneConsumes
  <2>2. H[P] \in Spots
    BY <2>1 DEF Consumes
  <2> QED
    BY <2>2
<1>3. ASSUME NEW P \in Spots
      PROVE  DottedId(P) \in Spots /\ BaseType(P) \in Spots
  <2>1. DottedFn[P] \in Spots /\ BaseFn[P] \in Spots
    BY <1>1, DottedConsumes, TypeConsumes DEF Consumes
  <2> QED
    BY <2>1, Zenon DEF DottedFn, BaseFn
<1>4. ASSUME NEW P \in Spots
      PROVE  FieldType(P) \in Spots /\ Field(P) \in Spots
  <2>1. TypeFn[P] \in Spots /\ FieldFn[P] \in Spots
    BY <1>1, TypeConsumes, FieldsConsume DEF Consumes
  <2> QED
    BY <2>1, Zenon DEF TypeFn, FieldFn
<1>5. ASSUME NEW P \in Spots
      PROVE  ListOf(Field, P) \in Spots /\ ListOf(Item, P) \in Spots
  <2>1. FieldsFn[P] \in Spots /\ ItemsFn[P] \in Spots
    BY <1>1, FieldsConsume, ItemsConsume DEF Consumes
  <2> QED
    BY <2>1, Zenon DEF FieldsFn, ItemsFn
<1>6. ASSUME NEW P \in Spots
      PROVE  Star(Decl, P) \in Spots
  <2>1. DeclsFn[P] \in Spots
    BY <1>1, DeclsConsume
  <2> QED
    BY <2>1, Zenon DEF DeclsFn
<1>7. ASSUME NEW P \in Spots
      PROVE  IdRef(P) \in Spots /\ P \cup One({"ScopeOp"}, P) \in Spots
  <2> DEFINE H == [Q \in Spots |-> IdRef(Q)]
  <2>1. Consumes(H)
    BY <1>1, IdRefConsumes
  <2>2. H[P] \in Spots
    BY <2>1 DEF Consumes
  <2>3. One({"ScopeOp"}, P) \in Spots
    BY <1>2
  <2> QED
    BY <2>2, <2>3 DEF Spots, Positions
<1>8. {0} \in Spots
  BY <1>1 DEF Spots, Positions
<1>9. Opt(Module, {0}) \in Spots
  <2>1. One({"Semicolon"}, IdRef(One({"module"}, {0}))) \in Spots
    BY <1>2, <1>7, <1>8
  <2>2. Opt(Module, {0}) = {0} \cup One({"Semicolon"}, IdRef(One({"module"}, {0})))
    BY DEF Opt, Module
  <2> QED
    BY <1>8, <2>1, <2>2 DEF Spots, Positions
<1> QED
  BY <1>1, <1>2, <1>3, <1>4, <1>5, <1>6, <1>7, <1>8, <1>9

\* The sets of positions of the places are sets of positions.
LEMMA StartTypes ==
  ASSUME TypeOK
  PROVE  /\ Started \in Spots /\ RecordName \in Spots /\ EnumName \in Spots
         /\ EnumColon \in Spots /\ RecordBody \in Spots /\ EnumBody \in Spots
         /\ Fields \in Spots /\ Items \in Spots /\ ModuleKey \in Spots /\ ImportKey \in Spots
         /\ \A X \in FieldStarts \cup ItemStarts \cup TypeStarts \cup NameStarts : X \in Spots
<1>1. Started \in Spots
  BY GrammarTypes DEF Started
<1>2. RecordName \in Spots /\ EnumName \in Spots /\ EnumColon \in Spots /\ RecordBody \in Spots
  BY <1>1, GrammarTypes DEF RecordName, EnumName, EnumColon, RecordBody
<1>3. EnumBody \in Spots
  <2>1. BaseType(EnumColon) \in Spots
    BY <1>2, GrammarTypes
  <2> QED
    BY <2>1, GrammarTypes DEF EnumBody
<1>4. Fields \in Spots /\ Items \in Spots
  BY <1>2, <1>3, GrammarTypes DEF Fields, Items
<1>5. ModuleKey \in Spots /\ ImportKey \in Spots
  BY <1>1, GrammarTypes DEF ModuleKey, ImportKey
<1>6. \A X \in FieldStarts \cup ItemStarts : X \in Spots
  BY <1>2, <1>3, <1>4, GrammarTypes DEF FieldStarts, ItemStarts
<1>7. \A X \in TypeStarts : X \in Spots
  <2>1. \A X \in FieldStarts : One({"Colon"}, One(Names, X)) \in Spots
    BY <1>6, GrammarTypes
  <2> QED
    BY <1>2, <2>1 DEF TypeStarts
<1>8. \A X \in NameStarts : X \in Spots
  <2>1. /\ ModuleKey \cup One({"ScopeOp"}, ModuleKey) \in Spots
        /\ ImportKey \cup One({"ScopeOp"}, ImportKey) \in Spots
    BY <1>5, GrammarTypes
  <2> QED
    BY <1>7, <2>1, TypeOK DEF NameStarts, TypeOK
<1> QED
  BY <1>1, <1>2, <1>3, <1>4, <1>5, <1>6, <1>7, <1>8

\* How the parts of a program make up greater parts.
LEMMA GrammarFacts ==
  ASSUME TypeOK
  PROVE  /\ 0 \in Started /\ One({"Semicolon"}, IdRef(ModuleKey)) \subseteq Started
         /\ Decl(Started) \subseteq Started
         /\ One({"RBrace"}, Fields) \subseteq Decl(Started)
         /\ One({"RBrace"}, Items) \subseteq Decl(Started)
         /\ One({"Semicolon"}, IdRef(ImportKey)) \subseteq Decl(Started)
         /\ \A X \in FieldStarts : FieldType(One({"Colon"}, One(Names, X))) \subseteq Fields
         /\ \A X \in ItemStarts : /\ One(Names, X) \subseteq Items
                                  /\ One({"lit"}, One({"AssignOp"}, One(Names, X))) \subseteq Items
<1>0. Len(tokens) \in Nat
  BY GrammarTypes
<1>1. 0 \in Started /\ One({"Semicolon"}, IdRef(ModuleKey)) \subseteq Started
  <2>1. Opt(Module, {0}) \subseteq Started
    BY <1>0, GrammarTypes, DeclsConsume DEF Started
  <2>2. Opt(Module, {0}) = {0} \cup One({"Semicolon"}, IdRef(ModuleKey))
    BY DEF Opt, Module, ModuleKey
  <2> QED
    BY <2>1, <2>2
<1>2. Decl(Started) \subseteq Started
  BY <1>0, GrammarTypes, DeclsConsume DEF Started
<1>3. Decl(Started) = Record(Started) \cup Enumeration(Started) \cup Import(Started)
  BY DEF Decl
<1>4. Record(Started) = One({"RBrace"}, Fields)
  BY Zenon DEF Record, Body, Fields, RecordBody, RecordName
<1>5. Enumeration(Started) = One({"RBrace"}, Items)
  BY Zenon DEF Enumeration, Body, Items, EnumBody, EnumColon, EnumName
<1>6. Import(Started) = One({"Semicolon"}, IdRef(ImportKey))
  BY Zenon DEF Import, ImportKey
<1>7. \A X \in FieldStarts : FieldType(One({"Colon"}, One(Names, X))) \subseteq Fields
  <2>1. /\ Field(RecordBody) \subseteq ListOf(Field, RecordBody)
        /\ Field(One({"Comma"}, ListOf(Field, RecordBody))) \subseteq ListOf(Field, RecordBody)
    BY <1>0, StartTypes, FieldsConsume
  <2>2. \A X \in FieldStarts : Field(X) \subseteq Fields
    BY <2>1 DEF FieldStarts, Fields
  <2>3. \A X : Field(X) = FieldType(One({"Colon"}, One(Names, X)))
    BY Zenon DEF Field
  <2> QED
    BY <2>2, <2>3, Zenon
<1>8. \A X \in ItemStarts : /\ One(Names, X) \subseteq Items
                            /\ One({"lit"}, One({"AssignOp"}, One(Names, X))) \subseteq Items
  <2>1. /\ Item(EnumBody) \subseteq ListOf(Item, EnumBody)
        /\ Item(One({"Comma"}, ListOf(Item, EnumBody))) \subseteq ListOf(Item, EnumBody)
    BY <1>0, StartTypes, ItemsConsume
  <2>2. \A X \in ItemStarts : Item(X) \subseteq Items
    BY <2>1 DEF ItemStarts, Items
  <2>3. \A X : Item(X) = One(Names, X) \cup One({"lit"}, One({"AssignOp"}, One(Names, X)))
    BY Zenon DEF Item, Opt
  <2> QED
    BY <2>2, <2>3
<1> QED
  BY <1>1, <1>2, <1>3, <1>4, <1>5, <1>6, <1>7, <1>8

\* A token that is there is consumed.
LEMMA OneMember ==
  ASSUME NEW P, NEW S, NEW c \in P, c < Len(tokens), tokens[c + 1] \in S
  PROVE  c + 1 \in One(S, P)
BY DEF One

\* The tokens do not change, and so the sets of positions do not either.
LEMMA GrammarFrame ==
  ASSUME UNCHANGED tokens
  PROVE  /\ Started' = Started /\ RecordName' = RecordName /\ EnumName' = EnumName
         /\ EnumColon' = EnumColon /\ Fields' = Fields /\ Items' = Items
         /\ ModuleKey' = ModuleKey /\ ImportKey' = ImportKey
         /\ FieldStarts' = FieldStarts /\ ItemStarts' = ItemStarts
         /\ Program' = Program /\ Decl(Started)' = Decl(Started)
         /\ IdRef(ModuleKey)' = IdRef(ModuleKey) /\ IdRef(ImportKey)' = IdRef(ImportKey)
         /\ BaseType(EnumColon)' = BaseType(EnumColon)
         /\ \A P, S : One(S, P)' = One(S, P)
         /\ \A P : DottedId(P)' = DottedId(P) /\ FieldType(P)' = FieldType(P)
<1> USE DEF DottedId, One, Star, Opt, Decl, Module, Record, Enumeration, Import, IdRef,
            BaseType, FieldType, Field, Item, Body, ListOf
<1>1. Started' = Started
  BY DEF Started
<1>2. RecordName' = RecordName /\ EnumName' = EnumName /\ EnumColon' = EnumColon
  BY DEF Started, RecordName, EnumName, EnumColon
<1>3. RecordBody' = RecordBody
  BY DEF Started, RecordBody, RecordName
<1>4. EnumBody' = EnumBody
  BY DEF Started, EnumName, EnumColon, EnumBody
<1>5. Fields' = Fields
  BY DEF Started, RecordBody, RecordName, Fields
<1>6. Items' = Items
  BY DEF Started, EnumName, EnumColon, EnumBody, Items
<1>7. ModuleKey' = ModuleKey /\ ImportKey' = ImportKey
  BY DEF Started, ModuleKey, ImportKey
<1>8. Program' = Program
  BY DEF Program
<1>9. Decl(Started)' = Decl(Started)
  BY DEF Started
<1>10. IdRef(ModuleKey)' = IdRef(ModuleKey)
  BY DEF ModuleKey
<1>11. IdRef(ImportKey)' = IdRef(ImportKey)
  BY DEF Started, ImportKey
<1>12. BaseType(EnumColon)' = BaseType(EnumColon)
  BY DEF Started, EnumName, EnumColon
<1>13. \A P, S : One(S, P)' = One(S, P)
  OBVIOUS
<1>14. \A P : DottedId(P)' = DottedId(P)
  OBVIOUS
<1>15. \A P : FieldType(P)' = FieldType(P)
  OBVIOUS
<1>16. FieldStarts' = FieldStarts
  BY DEF Started, RecordBody, RecordName, Fields, FieldStarts
<1>17. ItemStarts' = ItemStarts
  BY DEF Started, EnumName, EnumColon, EnumBody, Items, ItemStarts
<1> QED
  BY <1>1, <1>2, <1>5, <1>6, <1>7, <1>8, <1>9, <1>10, <1>11, <1>12, <1>13, <1>14, <1>15, <1>16, <1>17

-----------------------------------------------------------------------------
(* No step changes the name or the kind of a node that is there. *)

KeepsNames(ns, ns2) ==
  /\ ns2 \in Seq(Node) /\ Len(ns2) >= Len(ns)
  /\ \A q \in 1 .. Len(ns) : SameName(ns, ns2, q)

NoAlias(n) == n.kind = "import" => n.name = ""
Nameless(ns) == \A q \in 1 .. Len(ns) : NoAlias(ns[q])

\* A step that keeps the names of a step that keeps them keeps them.
LEMMA KeepsTrans ==
  ASSUME NEW a \in Seq(Node), NEW b, NEW c, KeepsNames(a, b), KeepsNames(b, c)
  PROVE  KeepsNames(a, c)
<1>1. Len(b) >= Len(a) /\ Len(c) >= Len(b) /\ Len(a) \in Nat /\ Len(b) \in Nat /\ Len(c) \in Nat
  BY DEF KeepsNames
<1>2. ASSUME NEW q \in 1 .. Len(a)
      PROVE  SameName(a, c, q)
  <2>1. q \in 1 .. Len(b)
    BY <1>1
  <2>2. SameName(a, b, q) /\ SameName(b, c, q)
    BY <2>1 DEF KeepsNames
  <2> QED
    BY <2>2 DEF SameName
<1> QED
  BY <1>1, <1>2 DEF KeepsNames

\* A new node leaves the others alone.
LEMMA KeepsAppend ==
  ASSUME NEW ns \in Seq(Node), NEW name \in Keys,
         NEW k \in {"root", "class", "struct", "enum", "import", "var", "item"}
  PROVE  LET ns2 == Append(ns, NewNode(k, name)) IN
         /\ KeepsNames(ns, ns2) /\ Len(ns2) = Len(ns) + 1
         /\ ns2[Len(ns) + 1].kind = k /\ ns2[Len(ns) + 1].name = name
<1> DEFINE ns2 == Append(ns, NewNode(k, name))
<1>1. /\ ns2 \in Seq(Node) /\ Len(ns2) = Len(ns) + 1
      /\ ns2[Len(ns) + 1] = NewNode(k, name)
      /\ \A i \in 1 .. Len(ns) : ns2[i] = ns[i]
  BY NewNodeType, AppendType
<1>2. NewNode(k, name).kind = k /\ NewNode(k, name).name = name
  BY DEF NewNode
<1> HIDE DEF ns2
<1>3. KeepsNames(ns, ns2)
  BY <1>1 DEF KeepsNames, SameName
<1> QED
  BY <1>1, <1>2, <1>3 DEF ns2

\* push_member keeps the names.
LEMMA KeepsPush ==
  ASSUME NEW ns \in Seq(Node), NEW p \in 1 .. Len(ns), NEW m \in Nat
  PROVE  KeepsNames(ns, PushMember(ns, p, m)) /\ Len(PushMember(ns, p, m)) = Len(ns)
<1>1. \A q \in 1 .. Len(ns) : SameName(ns, PushMember(ns, p, m), q)
  BY PushMemberEffect
<1> QED
  BY <1>1, PushMemberType DEF KeepsNames

\* index_member keeps the names.
LEMMA KeepsIndex ==
  ASSUME NEW ns \in Seq(Node), NEW p \in 1 .. Len(ns), NEW i \in Nat
  PROVE  KeepsNames(ns, IndexMember(ns, p, i)) /\ Len(IndexMember(ns, p, i)) = Len(ns)
<1>1. \A q \in 1 .. Len(ns) : SameName(ns, IndexMember(ns, p, i), q)
  BY IndexMemberEffect
<1> QED
  BY <1>1, IndexMemberType DEF KeepsNames

\* So does what leaves the links alone.
LEMMA KeepsLinks ==
  ASSUME NEW ns \in Seq(Node), NEW ns2, SameLinks(ns, ns2)
  PROVE  KeepsNames(ns, ns2) /\ Len(ns2) = Len(ns)
BY DEF KeepsNames, SameLinks, SameName

\* The imports stay nameless when the node that is new is no named import.
LEMMA KeepsNameless ==
  ASSUME NEW ns \in Seq(Node), NEW ns2, KeepsNames(ns, ns2), Nameless(ns),
         \/ Len(ns2) = Len(ns)
         \/ Len(ns2) = Len(ns) + 1 /\ NoAlias(ns2[Len(ns) + 1])
  PROVE  Nameless(ns2)
<1> SUFFICES ASSUME NEW q \in 1 .. Len(ns2)
             PROVE  NoAlias(ns2[q])
  BY DEF Nameless
<1>1. CASE q \in 1 .. Len(ns)
  <2>1. ns2[q].kind = ns[q].kind /\ ns2[q].name = ns[q].name
    BY <1>1 DEF KeepsNames, SameName
  <2>2. NoAlias(ns[q])
    BY <1>1 DEF Nameless
  <2> QED
    BY <2>1, <2>2, Zenon DEF NoAlias
<1>2. CASE q \notin 1 .. Len(ns)
  BY <1>2
<1> QED
  BY <1>1, <1>2

\* A new member of the root.
LEMMA KeepsNewMember ==
  ASSUME NEW ns \in Seq(Node), Root \in 1 .. Len(ns), NEW name \in Keys,
         NEW k \in {"root", "class", "struct", "enum", "import", "var", "item"}
  PROVE  LET n == Len(ns) + 1
             i == Len(ns[Root].members) + 1
             ns2 == PushMember(Append(ns, NewNode(k, name)), Root, n)
             ns3 == IndexMember(ns2, Root, i)
         IN  /\ KeepsNames(ns, ns2) /\ Len(ns2) = n /\ ns2[n].kind = k /\ ns2[n].name = name
             /\ KeepsNames(ns, ns3) /\ Len(ns3) = n /\ ns3[n].kind = k /\ ns3[n].name = name
<1> DEFINE n == Len(ns) + 1
           i == Len(ns[Root].members) + 1
           ns1 == Append(ns, NewNode(k, name))
           ns2 == PushMember(ns1, Root, n)
           ns3 == IndexMember(ns2, Root, i)
<1>1. /\ KeepsNames(ns, ns1) /\ Len(ns1) = n
      /\ ns1[n].kind = k /\ ns1[n].name = name
  BY KeepsAppend
<1>2. n \in Nat /\ i \in Nat /\ n \in 1 .. n /\ Root \in 1 .. n
  BY MembersType
<1> HIDE DEF ns1, n, i
<1>3. ns1 \in Seq(Node)
  BY <1>1 DEF KeepsNames
<1>4. KeepsNames(ns1, ns2) /\ Len(ns2) = n
  BY <1>1, <1>2, <1>3, KeepsPush
<1> HIDE DEF ns2
<1>5. ns2 \in Seq(Node)
  BY <1>4 DEF KeepsNames
<1>6. KeepsNames(ns2, ns3) /\ Len(ns3) = n
  BY <1>2, <1>4, <1>5, KeepsIndex
<1> HIDE DEF ns3
<1>7. SameName(ns1, ns2, n) /\ SameName(ns2, ns3, n)
  BY <1>1, <1>2, <1>4, <1>6 DEF KeepsNames
<1>8. KeepsNames(ns, ns2)
  BY <1>1, <1>4, KeepsTrans
<1>9. KeepsNames(ns, ns3)
  BY <1>6, <1>8, KeepsTrans
<1>10. /\ ns2[n].kind = k /\ ns2[n].name = name /\ ns3[n].kind = k /\ ns3[n].name = name
  BY <1>1, <1>7 DEF SameName
<1> QED
  BY <1>4, <1>6, <1>8, <1>9, <1>10 DEF ns1, ns2, ns3, n, i

\* An alias that is accepted without a word is left over.
LEMMA AliasIsLeft ==
  ASSUME TypeOK, pc = "import_member", Tok = "as", Tok2 \in Names, Consume(1),
         UNCHANGED tokens, pc' = "import_semi"
  PROVE  AliasLeft'
<1>1. cur' + 1 = cur + 2
  BY DEF Consume, TypeOK
<1>2. Tok' = Tok2
  BY <1>1 DEF Tok, Tok2
<1>3. "Semicolon" \notin Names
  BY NamesAssumption DEF Kinds
<1> QED
  BY <1>2, <1>3 DEF AliasLeft

\* What a step does to the names: it keeps them, and the imports stay nameless
\* unless one is accepted with an alias.
LEMMA NamesKept ==
  ASSUME TypeOK, EndNotConsumed, Next
  PROVE  /\ KeepsNames(nodes, nodes')
         /\ Nameless(nodes) /\ Silent' /\ ~AliasLeft' => Nameless(nodes')
<1> DEFINE Good == /\ KeepsNames(nodes, nodes')
                   /\ Nameless(nodes) /\ Silent' /\ ~AliasLeft' => Nameless(nodes')
<1>a. /\ nodes \in Seq(Node) /\ Root \in 1 .. Len(nodes)
      /\ decl \in 1 .. Len(nodes) /\ decl \in Nat
      /\ field \in 0 .. Len(nodes) /\ field \in Nat
      /\ slot \in Nat
      /\ TypeOwner \in Nat
  BY AstTypes
<1>b. Names \subseteq Keys /\ "" \in Keys
  BY NamesAreNotKinds
<1>e. ASSUME KeepsNames(nodes, nodes'), Len(nodes') = Len(nodes)
      PROVE  Good
  BY <1>a, <1>e, KeepsNameless
<1>s. ASSUME SameLinks(nodes, nodes')
      PROVE  Good
  BY <1>a, <1>e, <1>s, KeepsLinks
<1>u. ASSUME UNCHANGED nodes
      PROVE  Good
  BY <1>a, <1>u DEF KeepsNames, SameName
<1>t. ASSUME NEW t \in {"null", "builtin", "custom", "array"}, SetType(t)
      PROVE  Good
  <2>1. SameLinks(nodes, nodes')
    BY <1>a, <1>t, SetTypeLinks DEF SetType
  <2> QED
    BY <2>1, <1>s
<1>v. ASSUME NEW q \in Nat, nodes' = [nodes EXCEPT ![q].ranged = TRUE]
      PROVE  Good
  <2>1. SameLinks(nodes, nodes')
    BY <1>a, <1>v, SetRangedLinks
  <2> QED
    BY <2>1, <1>s
<1>w. ASSUME NEW name \in Keys, NEW k \in {"var", "item"},
             nodes' = Append(nodes, NewNode(k, name))
      PROVE  Good
  <2>1. /\ KeepsNames(nodes, nodes') /\ Len(nodes') = Len(nodes) + 1
        /\ nodes'[Len(nodes) + 1].kind = k
    BY <1>a, <1>w, KeepsAppend
  <2>2. NoAlias(nodes'[Len(nodes) + 1])
    BY <2>1 DEF NoAlias
  <2> QED
    BY <2>1, <2>2, <1>a, KeepsNameless
<1> SUFFICES Good
  OBVIOUS
<1> HIDE DEF Good
<1>0. CASE ControlStep
  <2>1. UNCHANGED nodes
    BY <1>0, TypeControl DEF ControlStep
  <2> QED
    BY <2>1, <1>u
<1>1. CASE TypeName
  <2>1. SetType("builtin") \/ UNCHANGED nodes
    BY <1>1 DEF TypeName
  <2> QED
    BY <2>1, <1>t, <1>u
<1>2. CASE CustomType
  <2>1. SetType("custom") \/ UNCHANGED nodes
    BY <1>2 DEF CustomType
  <2> QED
    BY <2>1, <1>t, <1>u
<1>3. CASE TypeSuffix
  <2>1. SetType("array") \/ SetType("null") \/ UNCHANGED nodes
    BY <1>3 DEF TypeSuffix
  <2> QED
    BY <2>1, <1>t, <1>u
<1>4. CASE FieldName
  <2>1. \/ UNCHANGED nodes
        \/ \E name \in Keys : nodes' = Append(nodes, NewNode("var", name))
    BY <1>4, <1>b DEF FieldName
  <2> QED
    BY <2>1, <1>u, <1>w
<1>5. CASE LeaveField
  BY <1>5, <1>a, <1>v DEF LeaveField
<1>6. CASE ItemName
  <2>1. \/ UNCHANGED nodes
        \/ \E name \in Keys : nodes' = Append(nodes, NewNode("item", name))
    BY <1>6, <1>b DEF ItemName
  <2> QED
    BY <2>1, <1>u, <1>w
<1>7. CASE ItemValue
  <2>1. \/ UNCHANGED nodes
        \/ \E v \in {"lit", "bad"} : nodes' = [nodes EXCEPT ![field].value = v]
    BY <1>7 DEF ItemValue
  <2>2. ASSUME NEW v \in {"lit", "bad"}, nodes' = [nodes EXCEPT ![field].value = v]
        PROVE  SameLinks(nodes, nodes')
    <3>1. SameLinks(nodes, [nodes EXCEPT ![field].value = v])
      BY <1>a, SetValueLinks
    <3> QED
      BY <3>1, <2>2
  <2> QED
    BY <2>1, <2>2, <1>s, <1>u
<1>8. CASE LeaveItem
  BY <1>8, <1>a, <1>v DEF LeaveItem
<1>9. CASE LeaveBody
  BY <1>9, <1>a, <1>v DEF LeaveBody
<1>10. CASE LinkMember
  <2> DEFINE pushed == PushMember(nodes, decl, field)
             i == Len(pushed[decl].members)
  <2>1. \/ UNCHANGED nodes
        \/ nodes' = pushed
        \/ nodes' = IndexMember(pushed, decl, i)
    BY <1>10 DEF LinkMember
  <2>2. KeepsNames(nodes, pushed) /\ Len(pushed) = Len(nodes)
    BY <1>a, KeepsPush
  <2> HIDE DEF pushed
  <2>3. pushed \in Seq(Node) /\ i \in Nat
    <3>1. pushed \in Seq(Node)
      BY <2>2 DEF KeepsNames
    <3> QED
      BY <1>a, <2>2, <3>1, MembersType
  <2> HIDE DEF i
  <2>4. KeepsNames(pushed, IndexMember(pushed, decl, i)) /\ Len(IndexMember(pushed, decl, i)) = Len(pushed)
    BY <1>a, <2>2, <2>3, KeepsIndex
  <2>5. KeepsNames(nodes, IndexMember(pushed, decl, i))
    BY <1>a, <2>2, <2>4, KeepsTrans
  <2> QED
    BY <2>1, <2>2, <2>4, <2>5, <1>e, <1>u
<1>11. CASE DeclIndex
  <2>1. UNCHANGED nodes \/ nodes' = IndexMember(nodes, Root, slot)
    BY <1>11 DEF DeclIndex
  <2>2. KeepsNames(nodes, IndexMember(nodes, Root, slot)) /\ Len(IndexMember(nodes, Root, slot)) = Len(nodes)
    BY <1>a, KeepsIndex
  <2> QED
    BY <2>1, <2>2, <1>e, <1>u
<1>12. CASE ImportMember
  <2> DEFINE n == Len(nodes) + 1
             i == Len(nodes[Root].members) + 1
             Pushed(name) == PushMember(Append(nodes, NewNode("import", name)), Root, n)
  <2>1. ASSUME NEW name \in Keys
        PROVE  /\ KeepsNames(nodes, Pushed(name)) /\ Len(Pushed(name)) = n
               /\ Pushed(name)[n].name = name
               /\ KeepsNames(nodes, IndexMember(Pushed(name), Root, i))
    BY <1>a, KeepsNewMember
  <2>2. \/ UNCHANGED nodes
        \/ \E name \in Keys : \/ nodes' = Pushed(name)
                             \/ nodes' = IndexMember(Pushed(name), Root, i)
    BY <1>12, <1>b DEF ImportMember
  <2>3. \/ ~Silent'
        \/ nodes' = Pushed("")
        \/ /\ pc = "import_member" /\ Tok = "as" /\ Tok2 \in Names /\ Consume(1)
           /\ UNCHANGED tokens /\ pc' = "import_semi"
    <3>1. ErrorAt("ExpectingSingleToken") # NoError /\ ErrorAt("OutOfMemory") # NoError
      BY ThrownNotNone DEF ErrorKind
    <3> QED
      BY <1>12, <3>1 DEF ImportMember, Goto, Throw, OutOfMemory, Silent
  <2> HIDE DEF i, Pushed
  <2>4. KeepsNames(nodes, nodes')
    BY <1>u, <2>1, <2>2 DEF Good
  <2>5. ASSUME nodes' = Pushed("")
        PROVE  Len(nodes') = n /\ NoAlias(nodes'[n])
    <3>1. Len(Pushed("")) = n /\ Pushed("")[n].name = ""
      BY <1>b, <2>1, Zenon
    <3>2. NoAlias(Pushed("")[n])
      BY <3>1, Zenon DEF NoAlias
    <3> QED
      BY <2>5, <3>1, <3>2, Zenon
  <2>6. ASSUME nodes' = Pushed("")
        PROVE  Nameless(nodes) => Nameless(nodes')
    BY <1>a, <2>4, <2>5, <2>6, KeepsNameless, Zenon
  <2>7. \/ ~Silent' \/ nodes' = Pushed("") \/ AliasLeft'
    BY <2>3, AliasIsLeft, Zenon
  <2> QED
    BY <2>4, <2>6, <2>7, Zenon DEF Good
<1>13. ASSUME NEW k \in {"class", "struct", "enum"}, BeginDecl(k)
       PROVE  Good
  <2> DEFINE n == Len(nodes) + 1
             Pushed(name) == PushMember(Append(nodes, NewNode(k, name)), Root, n)
  <2>1. ASSUME NEW name \in Keys
        PROVE  /\ KeepsNames(nodes, Pushed(name)) /\ Len(Pushed(name)) = n
               /\ Pushed(name)[n].kind = k
    BY <1>a, KeepsNewMember
  <2>2. \/ UNCHANGED nodes
        \/ \E name \in Keys : nodes' = Pushed(name)
    BY <1>13, <1>b DEF BeginDecl
  <2> HIDE DEF Pushed
  <2>3. ASSUME NEW name \in Keys, nodes' = Pushed(name)
        PROVE  Good
    <3>1. NoAlias(nodes'[n])
      BY <2>1, <2>3 DEF NoAlias
    <3> QED
      BY <1>a, <2>1, <2>3, <3>1, KeepsNameless DEF Good
  <2> QED
    BY <2>2, <2>3, <1>u
<1> QED
  BY <1>0, <1>1, <1>2, <1>3, <1>4, <1>5, <1>6, <1>7, <1>8, <1>9, <1>10, <1>11, <1>12, <1>13
     DEF Next, ControlStep

-----------------------------------------------------------------------------
(* A step of a parser that says nothing goes to a place the grammar allows. *)

\* A name continues a reference.
LEMMA ReferenceFacts ==
  ASSUME TypeOK, NEW X \in Spots, NEW c, c < Len(tokens), tokens[c + 1] \in Names,
         c \in X \/ c \in One({"Dot"}, DottedId(X))
  PROVE  c + 1 \in DottedId(X)
<1>1. /\ One(Names, X) \subseteq DottedId(X)
      /\ One(Names, One({"Dot"}, DottedId(X))) \subseteq DottedId(X)
  BY GrammarTypes, DottedConsumes
<1> QED
  BY <1>1, OneMember

\* What a reference and a type consist of.
LEMMA TypeFacts ==
  ASSUME TypeOK
  PROVE  /\ \A X : /\ One({"type"}, X) \subseteq BaseType(X)
                   /\ DottedId(X) \subseteq BaseType(X)
                   /\ IdRef(X) = DottedId(X \cup One({"ScopeOp"}, X))
         /\ \A X \in Spots :
              /\ BaseType(X) \subseteq FieldType(X)
              /\ One({"RBracket"}, One({"LBracket"}, FieldType(X))) \subseteq FieldType(X)
<1>1. \A X : One({"type"}, X) \subseteq BaseType(X) /\ DottedId(X) \subseteq BaseType(X)
  BY DEF BaseType
<1>2. \A X : IdRef(X) = DottedId(X \cup One({"ScopeOp"}, X))
  BY Zenon DEF IdRef, Opt
<1> QED
  BY <1>1, <1>2, GrammarTypes, TypeConsumes

\* Where names and types may start depends on the caller.
LEMMA StartsFrame ==
  ASSUME UNCHANGED << tokens, ctx >>
  PROVE  TypeStarts' = TypeStarts /\ NameStarts' = NameStarts
<1>1. FieldStarts' = FieldStarts /\ EnumColon' = EnumColon
  BY GrammarFrame
<1>2. TypeStarts' = TypeStarts
  BY <1>1 DEF TypeStarts, One
<1>3. /\ ModuleKey' = ModuleKey /\ ImportKey' = ImportKey
      /\ One({"ScopeOp"}, ModuleKey)' = One({"ScopeOp"}, ModuleKey)
      /\ One({"ScopeOp"}, ImportKey)' = One({"ScopeOp"}, ImportKey)
  <2>1. ModuleKey' = ModuleKey /\ ImportKey' = ImportKey
    BY GrammarFrame
  <2> QED
    BY <2>1 DEF One
<1> QED
  BY <1>2, <1>3 DEF NameStarts

\* A token that is an identifier is not the last one.
LEMMA NameHasNext ==
  ASSUME TypeOK, EndNotConsumed, Tok \in Names
  PROVE  cur + 1 < Len(tokens) /\ (cur + 1) + 1 = cur + 2
<1>1. Tok # "End"
  BY NamesAreNotKinds
<1>2. cur + 1 < Len(tokens)
  BY <1>1, Peek
<1> QED
  BY <1>2 DEF TypeOK

\* The steps at a reference.
LEMMA ReferenceStep ==
  ASSUME TypeOK, EndNotConsumed, Silent, Silent', InGrammar, UNCHANGED tokens,
         \/ ParseProgram \/ ModuleSemi \/ IdRefScope \/ IdRefName
         \/ BeginImport \/ ImportMember \/ ImportSemi
  PROVE  InGrammar'
<1>0. /\ ErrorAt("ExpectingSingleToken") # NoError /\ ErrorAt("OutOfMemory") # NoError
  BY ThrownNotNone DEF ErrorKind
<1>1. CASE ParseProgram
  <2>1. /\ pc = "begin"
        /\ \/ Tok = "module" /\ cur' = cur + 1 /\ ctx' = "module" /\ pc' = "id_ref"
           \/ pc' = "stmt" /\ cur' = cur
    BY <1>1 DEF ParseProgram, Goto, Consume
  <2>2. cur = 0
    BY <2>1 DEF InGrammar, AtReference
  <2>3. 0 \in Started
    BY GrammarFacts
  <2>4. Tok = "module" => cur + 1 \in ModuleKey
    <3>1. cur \in {0}
      BY <2>2
    <3> QED
      BY <3>1, OneMember DEF ModuleKey, Tok, EndNotConsumed
  <2> QED
    BY <2>1, <2>2, <2>3, <2>4, GrammarFrame
       DEF InGrammar, KindsAgree, AtReference, AtType, AtDecl, AtMember, TypePlaces
<1>2. CASE ModuleSemi
  <2>1. /\ pc = "module_semi" /\ Tok = "Semicolon" /\ cur' = cur + 1 /\ pc' = "stmt"
    BY <1>0, <1>2 DEF ModuleSemi, Goto, Throw, Consume, Silent
  <2>2. cur \in IdRef(ModuleKey)
    BY <2>1 DEF InGrammar, AtReference
  <2>3. cur + 1 \in One({"Semicolon"}, IdRef(ModuleKey))
    BY <2>1, <2>2, OneMember DEF Tok, EndNotConsumed
  <2>4. cur + 1 \in Started
    BY <2>3, GrammarFacts
  <2> QED
    BY <2>1, <2>4, GrammarFrame
       DEF InGrammar, KindsAgree, AtReference, AtType, AtDecl, AtMember, TypePlaces
<1>3. CASE IdRefScope
  <2>1. /\ pc = "id_ref" /\ pc' = "id_ref_name" /\ UNCHANGED << ctx, nodes, decl >>
        /\ cur' = IF Tok = "ScopeOp" THEN cur + 1 ELSE cur
    BY <1>0, <1>3 DEF IdRefScope, Goto, OutOfMemory, Silent
  <2>2. /\ ctx = "module" => cur \in ModuleKey
        /\ ctx = "import" => cur \in ImportKey
        /\ ctx \in {"field", "base"} => Tok \in Names /\ \E X \in TypeStarts : cur \in X
    BY <2>1 DEF InGrammar, AtReference
  <2>3. "ScopeOp" \notin Names
    BY NamesAssumption DEF Kinds
  <2>4. /\ ctx = "module" => cur' \in ModuleKey \cup One({"ScopeOp"}, ModuleKey)
        /\ ctx = "import" => cur' \in ImportKey \cup One({"ScopeOp"}, ImportKey)
    BY <2>1, <2>2, OneMember DEF Tok, EndNotConsumed
  <2>5. \E X \in NameStarts : cur' \in X
    BY <2>1, <2>2, <2>3, <2>4 DEF NameStarts, TypeOK
  <2>6. TypeStarts' = TypeStarts /\ NameStarts' = NameStarts /\ InEnum' = InEnum
    BY <2>1, StartsFrame DEF InEnum
  <2> QED
    BY <2>1, <2>5, <2>6, GrammarFrame
       DEF InGrammar, KindsAgree, AtReference, AtType, AtDecl, AtMember, TypePlaces
<1>4. CASE IdRefName
  <2>1. /\ pc = "id_ref_name" /\ Tok \in Names /\ UNCHANGED << ctx, nodes, decl >>
        /\ \/ Tok2 = "Dot" /\ cur' = cur + 2 /\ pc' = "id_ref_name"
           \/ cur' = cur + 1 /\ pc' = Return[ctx]
    BY <1>0, <1>4 DEF IdRefName, Goto, Throw, OutOfMemory, Consume, Silent
  <2>2. PICK X \in NameStarts : cur \in X \/ cur \in One({"Dot"}, DottedId(X))
    BY <2>1 DEF InGrammar, AtReference
  <2>3. X \in Spots
    BY StartTypes
  <2>4. cur + 1 \in DottedId(X)
    BY <2>1, <2>2, <2>3, ReferenceFacts DEF Tok, EndNotConsumed
  <2>5. TypeStarts' = TypeStarts /\ NameStarts' = NameStarts /\ InEnum' = InEnum
    BY <2>1, StartsFrame DEF InEnum
  <2>6. CASE Tok2 = "Dot" /\ cur' = cur + 2 /\ pc' = "id_ref_name"
    <3>1. cur + 1 < Len(tokens) /\ (cur + 1) + 1 = cur + 2
      BY <2>1, NameHasNext
    <3>2. tokens[(cur + 1) + 1] \in {"Dot"}
      BY <2>6, <3>1 DEF Tok2
    <3>3. cur + 2 \in One({"Dot"}, DottedId(X))
      BY <2>4, <3>1, <3>2, OneMember
    <3>4. \E Y \in NameStarts' : cur' \in One({"Dot"}, DottedId(Y))'
      BY <2>2, <2>5, <2>6, <3>3, GrammarFrame
    <3> QED
      BY <2>1, <2>5, <2>6, <3>4
         DEF InGrammar, KindsAgree, AtReference, AtType, AtDecl, AtMember, TypePlaces
  <2>7. CASE cur' = cur + 1 /\ pc' = Return[ctx]
    <3>1. /\ ctx = "module" => cur' \in IdRef(ModuleKey) /\ pc' = "module_semi"
          /\ ctx = "import" => cur' \in IdRef(ImportKey) /\ pc' = "import_member"
          /\ ctx \in {"field", "base"} => X \in TypeStarts /\ pc' = "custom_type"
      <4>1. /\ ctx = "module" => X = ModuleKey \cup One({"ScopeOp"}, ModuleKey)
            /\ ctx = "import" => X = ImportKey \cup One({"ScopeOp"}, ImportKey)
            /\ ctx \in {"field", "base"} => X \in TypeStarts
        BY <2>2 DEF NameStarts
      <4>2. /\ ctx = "module" => pc' = "module_semi"
            /\ ctx = "import" => pc' = "import_member"
            /\ ctx \in {"field", "base"} => pc' = "custom_type"
        BY <2>7 DEF Return
      <4> QED
        BY <2>4, <2>7, <4>1, <4>2, TypeFacts
    <3>2. ctx \in {"module", "import", "field", "base"}
      BY DEF TypeOK
    <3> QED
      BY <2>1, <2>4, <2>5, <2>7, <3>1, <3>2, GrammarFrame
         DEF InGrammar, KindsAgree, AtReference, AtType, AtDecl, AtMember, TypePlaces
  <2> QED
    BY <2>1, <2>6, <2>7
<1>5. CASE BeginImport
  <2>1. /\ pc = "stmt" /\ Tok = "import" /\ cur' = cur + 1
        /\ ctx' = "import" /\ pc' = "id_ref"
    BY <1>0, <1>5 DEF BeginImport, Goto, OutOfMemory, Consume, Silent
  <2>2. cur + 1 \in ImportKey
    BY <2>1, OneMember DEF InGrammar, AtDecl, ImportKey, Tok, EndNotConsumed
  <2> QED
    BY <2>1, <2>2, GrammarFrame
       DEF InGrammar, KindsAgree, AtReference, AtType, AtDecl, AtMember, TypePlaces
<1>6. CASE ImportMember
  <2>1. /\ pc = "import_member" /\ pc' = "import_semi"
        /\ \/ cur' = cur
           \/ Tok = "as" /\ Tok2 \in Names /\ Consume(1)
    BY <1>0, <1>6 DEF ImportMember, Goto, Throw, OutOfMemory, Silent
  <2>2. cur' = cur \/ AliasLeft'
    BY <2>1, AliasIsLeft
  <2>3. cur \in IdRef(ImportKey)
    BY <2>1 DEF InGrammar, AtReference
  <2> QED
    BY <2>1, <2>2, <2>3, GrammarFrame
       DEF InGrammar, KindsAgree, AtReference, AtType, AtDecl, AtMember, TypePlaces
<1>7. CASE ImportSemi
  <2>1. pc = "import_semi" /\ Tok = "Semicolon" /\ cur' = cur + 1 /\ pc' = "stmt"
    BY <1>0, <1>7 DEF ImportSemi, Goto, Throw, Consume, Silent
  <2>2. cur \in IdRef(ImportKey)
    BY <2>1 DEF InGrammar, AtReference, AliasLeft
  <2>3. cur + 1 \in One({"Semicolon"}, IdRef(ImportKey))
    BY <2>1, <2>2, OneMember DEF Tok, EndNotConsumed
  <2>4. cur + 1 \in Started
    BY <2>3, GrammarFacts
  <2> QED
    BY <2>1, <2>4, GrammarFrame
       DEF InGrammar, KindsAgree, AtReference, AtType, AtDecl, AtMember, TypePlaces
<1> QED
  BY <1>1, <1>2, <1>3, <1>4, <1>5, <1>6, <1>7

\* The steps at a type.
LEMMA TypeStep ==
  ASSUME TypeOK, EndNotConsumed, Places, Silent, Silent', InGrammar, UNCHANGED tokens,
         InEnum' = InEnum,
         TypeName \/ CustomType \/ TypeSuffix \/ BaseColon \/ FieldColon
  PROVE  InGrammar'
<1>0. /\ ErrorAt("ExpectingSingleToken") # NoError /\ ErrorAt("OutOfMemory") # NoError
      /\ ErrorAt("UnexpectedToken") # NoError
  BY ThrownNotNone DEF ErrorKind
<1>1. CASE TypeName
  <2>1. /\ pc = "type" /\ UNCHANGED ctx
        /\ \/ Tok = "type" /\ cur' = cur + 1 /\ pc' = "suffix"
           \/ Tok \in Names /\ cur' = cur /\ pc' = "id_ref"
    BY <1>0, <1>1 DEF TypeName, Goto, Throw, OutOfMemory, Consume, Silent
  <2>2. PICK X \in TypeStarts : cur \in X
    BY <2>1 DEF InGrammar, AtType
  <2>3. TypeStarts' = TypeStarts
    BY <2>1, StartsFrame
  <2>4. ctx \in {"field", "base"}
    BY <2>1 DEF Places
  <2>5. X \in Spots /\ (ctx = "base" => X = EnumColon)
    BY StartTypes DEF TypeStarts
  <2>6. CASE Tok = "type" /\ cur' = cur + 1 /\ pc' = "suffix"
    <3>1. tokens[cur + 1] \in {"type"}
      BY <2>6 DEF Tok
    <3>2. cur + 1 \in One({"type"}, X)
      BY <2>2, <3>1, OneMember DEF EndNotConsumed
    <3>3. cur + 1 \in BaseType(X) /\ cur + 1 \in FieldType(X)
      BY <2>5, <3>2, TypeFacts
    <3> QED
      BY <2>1, <2>2, <2>3, <2>4, <2>5, <2>6, <3>3, GrammarFrame
         DEF InGrammar, KindsAgree, AtReference, AtType, AtDecl, AtMember, TypePlaces
  <2>7. CASE Tok \in Names /\ cur' = cur /\ pc' = "id_ref"
    <3>1. Tok' = Tok
      BY <2>7 DEF Tok
    <3> QED
      BY <2>1, <2>2, <2>3, <2>4, <2>7, <3>1
         DEF InGrammar, KindsAgree, AtReference, AtType, AtDecl, AtMember, TypePlaces
  <2> QED
    BY <2>1, <2>6, <2>7
<1>2. CASE CustomType
  <2>1. pc = "custom_type" /\ cur' = cur /\ pc' = "suffix" /\ UNCHANGED ctx
    BY <1>0, <1>2 DEF CustomType, Goto, OutOfMemory, Silent
  <2>2. PICK X \in TypeStarts : cur \in DottedId(X)
    BY <2>1 DEF InGrammar, AtType
  <2>3. TypeStarts' = TypeStarts
    BY <2>1, StartsFrame
  <2>4. ctx \in {"field", "base"}
    BY <2>1 DEF Places
  <2>5. X \in Spots /\ (ctx = "base" => X = EnumColon)
    BY StartTypes DEF TypeStarts
  <2>6. cur \in BaseType(X) /\ cur \in FieldType(X)
    BY <2>2, <2>5, TypeFacts
  <2> QED
    BY <2>1, <2>2, <2>3, <2>4, <2>5, <2>6, GrammarFrame
       DEF InGrammar, KindsAgree, AtReference, AtType, AtDecl, AtMember, TypePlaces
<1>3. CASE TypeSuffix
  <2>1. /\ pc = "suffix" /\ UNCHANGED ctx
        /\ \/ ctx = "base" /\ cur' = cur /\ pc' = "body_open"
           \/ ctx = "field" /\ cur' = cur /\ pc' = "leave_field"
           \/ /\ ctx = "field" /\ Tok = "LBracket" /\ Tok2 = "RBracket"
              /\ cur' = cur + 2 /\ pc' = "suffix"
    BY <1>0, <1>3 DEF TypeSuffix, Goto, Throw, OutOfMemory, Consume, Silent
  <2>2. TypeStarts' = TypeStarts
    BY <2>1, StartsFrame
  <2>3. CASE ctx = "base" /\ cur' = cur /\ pc' = "body_open"
    <3>1. cur \in BaseType(EnumColon) /\ InEnum
      BY <2>1, <2>3 DEF InGrammar, AtType, KindsAgree, TypePlaces
    <3> QED
      BY <2>1, <2>3, <3>1, GrammarFrame
         DEF InGrammar, KindsAgree, AtReference, AtType, AtDecl, AtMember, TypePlaces
  <2>4. CASE ctx = "field" /\ cur' = cur /\ pc' = "leave_field"
    <3>1. ~InEnum /\ \E X \in TypeStarts : cur \in FieldType(X)
      BY <2>1, <2>4 DEF InGrammar, AtType, KindsAgree, TypePlaces
    <3>2. \E X \in FieldStarts : cur \in FieldType(One({"Colon"}, One(Names, X)))
      BY <2>4, <3>1 DEF TypeStarts
    <3>3. cur \in Fields
      BY <3>2, GrammarFacts
    <3> QED
      BY <2>1, <2>4, <3>1, <3>3, GrammarFrame
         DEF InGrammar, KindsAgree, AtReference, AtType, AtDecl, AtMember, TypePlaces
  <2>5. CASE /\ ctx = "field" /\ Tok = "LBracket" /\ Tok2 = "RBracket"
             /\ cur' = cur + 2 /\ pc' = "suffix"
    <3>1. ~InEnum /\ \E X \in TypeStarts : cur \in FieldType(X)
      BY <2>1, <2>5 DEF InGrammar, AtType, KindsAgree, TypePlaces
    <3>2. PICK X \in TypeStarts : cur \in FieldType(X)
      BY <3>1
    <3>3. cur + 1 < Len(tokens) /\ (cur + 1) + 1 = cur + 2
      BY <2>5, Peek DEF TypeOK
    <3>4. tokens[cur + 1] \in {"LBracket"} /\ tokens[(cur + 1) + 1] \in {"RBracket"}
      BY <2>5, <3>3 DEF Tok, Tok2
    <3>5. cur + 1 \in One({"LBracket"}, FieldType(X))
      BY <3>2, <3>4, OneMember DEF EndNotConsumed
    <3>6. cur + 2 \in One({"RBracket"}, One({"LBracket"}, FieldType(X)))
      BY <3>3, <3>4, <3>5, OneMember
    <3>7. cur + 2 \in FieldType(X)
      BY <3>6, StartTypes, TypeFacts
    <3> QED
      BY <2>1, <2>2, <2>5, <3>1, <3>2, <3>7, GrammarFrame
         DEF InGrammar, KindsAgree, AtReference, AtType, AtDecl, AtMember, TypePlaces
  <2> QED
    BY <2>1, <2>3, <2>4, <2>5
<1>4. CASE BaseColon
  <2>1. /\ pc = "base_colon" /\ Tok = "Colon" /\ cur' = cur + 1
        /\ ctx' = "base" /\ pc' = "type"
    BY <1>0, <1>4 DEF BaseColon, Goto, Throw, Consume, Silent
  <2>2. cur \in EnumName /\ InEnum
    BY <2>1 DEF InGrammar, AtDecl, KindsAgree
  <2>3. cur + 1 \in EnumColon
    BY <2>1, <2>2, OneMember DEF EnumColon, Tok, EndNotConsumed
  <2>4. TypeStarts' = {EnumColon}
    BY <2>1, GrammarFrame DEF TypeStarts
  <2> QED
    BY <2>1, <2>2, <2>3, <2>4
       DEF InGrammar, KindsAgree, AtReference, AtType, AtDecl, AtMember, TypePlaces
<1>5. CASE FieldColon
  <2>1. /\ pc = "field_colon" /\ Tok = "Colon" /\ cur' = cur + 1
        /\ ctx' = "field" /\ pc' = "type"
    BY <1>0, <1>5 DEF FieldColon, Goto, Throw, Consume, Silent
  <2>2. ~InEnum /\ \E X \in FieldStarts : cur \in One(Names, X)
    BY <2>1 DEF InGrammar, AtMember, KindsAgree
  <2>3. PICK X \in FieldStarts : cur \in One(Names, X)
    BY <2>2
  <2>4. cur + 1 \in One({"Colon"}, One(Names, X))
    BY <2>1, <2>3, OneMember DEF Tok, EndNotConsumed
  <2>5. One({"Colon"}, One(Names, X)) \in TypeStarts'
    <3>1. TypeStarts' = {One({"Colon"}, One(Names, Y)) : Y \in FieldStarts}
      <4>1. FieldStarts' = FieldStarts
        BY GrammarFrame
      <4> QED
        BY <2>1, <4>1 DEF TypeStarts, One
    <3> QED
      BY <3>1
  <2> QED
    BY <2>1, <2>2, <2>4, <2>5
       DEF InGrammar, KindsAgree, AtReference, AtType, AtDecl, AtMember, TypePlaces
<1> QED
  BY <1>1, <1>2, <1>3, <1>4, <1>5

\* The steps at a field or an item.
LEMMA MemberStep ==
  ASSUME TypeOK, EndNotConsumed, InFlight, Silent, Silent', InGrammar, UNCHANGED tokens,
         InEnum' = InEnum,
         \/ FieldName \/ LeaveField \/ ItemName \/ ItemAssign \/ ItemValue \/ LeaveItem
         \/ LinkMember \/ Comma
  PROVE  InGrammar'
<1>0. /\ ErrorAt("ExpectingSingleToken") # NoError /\ ErrorAt("OutOfMemory") # NoError
      /\ ErrorAt("ExpectingTokens") # NoError /\ ErrorAt("ExpectingExpr") # NoError
      /\ \A n : Conflict(n) # NoError
  BY ThrownNotNone DEF ErrorKind
<1>1. CASE FieldName
  <2>1. pc = "field" /\ Tok \in Names /\ cur' = cur + 1 /\ pc' = "field_colon"
    BY <1>0, <1>1 DEF FieldName, Goto, Throw, OutOfMemory, Consume, Silent
  <2>2. ~InEnum /\ \E X \in FieldStarts : cur \in X
    BY <2>1 DEF InGrammar, AtMember, KindsAgree
  <2>3. \E X \in FieldStarts : cur + 1 \in One(Names, X)
    BY <2>1, <2>2, OneMember DEF Tok, EndNotConsumed
  <2> QED
    BY <2>1, <2>2, <2>3, GrammarFrame
       DEF InGrammar, KindsAgree, AtReference, AtType, AtDecl, AtMember, TypePlaces
<1>2. CASE LeaveField
  <2>1. pc = "leave_field" /\ cur' = cur /\ pc' = "member"
    BY <1>2 DEF LeaveField, Goto, Silent
  <2>2. ~InEnum /\ cur \in Fields
    BY <2>1 DEF InGrammar, AtMember, KindsAgree
  <2>3. Inside' = Fields
    BY <2>2, GrammarFrame DEF Inside
  <2> QED
    BY <2>1, <2>2, <2>3
       DEF InGrammar, KindsAgree, AtReference, AtType, AtDecl, AtMember, TypePlaces
<1>3. CASE ItemName
  <2>1. pc = "item" /\ Tok \in Names /\ cur' = cur + 1 /\ pc' = "item_assign"
    BY <1>0, <1>3 DEF ItemName, Goto, Throw, OutOfMemory, Consume, Silent
  <2>2. InEnum /\ \E X \in ItemStarts : cur \in X
    BY <2>1 DEF InGrammar, AtMember, KindsAgree
  <2>3. \E X \in ItemStarts : cur + 1 \in One(Names, X)
    BY <2>1, <2>2, OneMember DEF Tok, EndNotConsumed
  <2> QED
    BY <2>1, <2>2, <2>3, GrammarFrame
       DEF InGrammar, KindsAgree, AtReference, AtType, AtDecl, AtMember, TypePlaces
<1>4. CASE ItemAssign
  <2>1. /\ pc = "item_assign"
        /\ \/ Tok = "AssignOp" /\ cur' = cur + 1 /\ pc' = "item_value"
           \/ cur' = cur /\ pc' = "leave_item"
    BY <1>4 DEF ItemAssign, Goto, Consume
  <2>2. InEnum /\ \E X \in ItemStarts : cur \in One(Names, X)
    BY <2>1 DEF InGrammar, AtMember, KindsAgree
  <2>3. cur \in Items
    BY <2>2, GrammarFacts
  <2>4. Tok = "AssignOp" => \E X \in ItemStarts : cur + 1 \in One({"AssignOp"}, One(Names, X))
    BY <2>2, OneMember DEF Tok, EndNotConsumed
  <2>5. ItemStarts' = ItemStarts /\ Items' = Items
    BY GrammarFrame
  <2>6. CASE Tok = "AssignOp" /\ cur' = cur + 1 /\ pc' = "item_value"
    BY <2>2, <2>4, <2>5, <2>6, GrammarFrame
       DEF InGrammar, KindsAgree, AtReference, AtType, AtDecl, AtMember, TypePlaces
  <2>7. CASE cur' = cur /\ pc' = "leave_item"
    BY <2>2, <2>3, <2>5, <2>7
       DEF InGrammar, KindsAgree, AtReference, AtType, AtDecl, AtMember, TypePlaces
  <2> QED
    BY <2>1, <2>6, <2>7
<1>5. CASE ItemValue
  <2>1. pc = "item_value" /\ Tok = "lit" /\ cur' = cur + 1 /\ pc' = "leave_item"
    BY <1>0, <1>5 DEF ItemValue, Goto, Throw, OutOfMemory, Consume, Silent
  <2>2. InEnum /\ \E X \in ItemStarts : cur \in One({"AssignOp"}, One(Names, X))
    BY <2>1 DEF InGrammar, AtMember, KindsAgree
  <2>3. \E X \in ItemStarts : cur + 1 \in One({"lit"}, One({"AssignOp"}, One(Names, X)))
    BY <2>1, <2>2, OneMember DEF Tok, EndNotConsumed
  <2>4. cur + 1 \in Items
    BY <2>3, GrammarFacts
  <2> QED
    BY <2>1, <2>2, <2>4, GrammarFrame
       DEF InGrammar, KindsAgree, AtReference, AtType, AtDecl, AtMember, TypePlaces
<1>6. CASE LeaveItem
  <2>1. pc = "leave_item" /\ cur' = cur /\ pc' = "member"
    BY <1>6 DEF LeaveItem, Goto, Silent
  <2>2. InEnum /\ cur \in Items
    BY <2>1 DEF InGrammar, AtMember, KindsAgree
  <2>3. Inside' = Items
    BY <2>2, GrammarFrame DEF Inside
  <2> QED
    BY <2>1, <2>2, <2>3
       DEF InGrammar, KindsAgree, AtReference, AtType, AtDecl, AtMember, TypePlaces
<1>7. CASE LinkMember
  <2>1. pc = "member" /\ cur' = cur /\ pc' \in {"comma", "crashed"}
    BY <1>0, <1>7 DEF LinkMember, Goto, Throw, OutOfMemory, Silent
  <2>2. cur \in Inside
    BY <2>1 DEF InGrammar, AtDecl
  <2>3. Inside' = Inside
    BY GrammarFrame DEF Inside
  <2> QED
    BY <2>1, <2>2, <2>3
       DEF InGrammar, KindsAgree, AtReference, AtType, AtDecl, AtMember, TypePlaces
<1>8. CASE Comma
  <2>1. /\ pc = "comma"
        /\ \/ /\ Tok = "Comma" /\ cur' = cur + 1
              /\ pc' = IF InEnum THEN "item" ELSE "field"
           \/ cur' = cur /\ pc' = "body_close"
    BY <1>8 DEF Comma, Goto, Consume
  <2>2. cur \in Inside
    BY <2>1 DEF InGrammar, AtDecl
  <2>3. Inside' = Inside
    BY GrammarFrame DEF Inside
  <2>4. CASE cur' = cur /\ pc' = "body_close"
    BY <2>2, <2>3, <2>4
       DEF InGrammar, KindsAgree, AtReference, AtType, AtDecl, AtMember, TypePlaces
  <2>5. CASE Tok = "Comma" /\ cur' = cur + 1 /\ pc' = IF InEnum THEN "item" ELSE "field"
    <3>1. /\ InEnum => cur + 1 \in One({"Comma"}, Items)
          /\ ~InEnum => cur + 1 \in One({"Comma"}, Fields)
      BY <2>2, <2>5, OneMember DEF Inside, Tok, EndNotConsumed
    <3>2. /\ InEnum => \E X \in ItemStarts : cur + 1 \in X
          /\ ~InEnum => \E X \in FieldStarts : cur + 1 \in X
      BY <3>1 DEF ItemStarts, FieldStarts
    <3> QED
      BY <2>5, <3>2, GrammarFrame
         DEF InGrammar, KindsAgree, AtReference, AtType, AtDecl, AtMember, TypePlaces
  <2> QED
    BY <2>1, <2>4, <2>5
<1> QED
  BY <1>1, <1>2, <1>3, <1>4, <1>5, <1>6, <1>7, <1>8

\* The steps at a declaration.
LEMMA DeclStep ==
  ASSUME TypeOK, EndNotConsumed, Silent, Silent', InGrammar, UNCHANGED tokens,
         InEnum' = InEnum,
         BodyOpen \/ BodyClose \/ LeaveBody \/ DeclIndex
  PROVE  InGrammar'
<1>0. /\ ErrorAt("ExpectingSingleToken") # NoError /\ ErrorAt("OutOfMemory") # NoError
      /\ \A n : Conflict(n) # NoError
  BY ThrownNotNone DEF ErrorKind
<1>1. CASE BodyOpen
  <2>1. /\ pc = "body_open" /\ Tok = "LBrace" /\ cur' = cur + 1
        /\ pc' = IF InEnum THEN "item" ELSE "field"
    BY <1>0, <1>1 DEF BodyOpen, Goto, Throw, Consume, Silent
  <2>2. cur \in IF InEnum THEN BaseType(EnumColon) ELSE RecordName
    BY <2>1 DEF InGrammar, AtDecl
  <2>3. /\ InEnum => cur + 1 \in EnumBody
        /\ ~InEnum => cur + 1 \in RecordBody
    BY <2>1, <2>2, OneMember DEF EnumBody, RecordBody, Tok, EndNotConsumed
  <2>4. /\ InEnum => \E X \in ItemStarts : cur + 1 \in X
        /\ ~InEnum => \E X \in FieldStarts : cur + 1 \in X
    BY <2>3 DEF ItemStarts, FieldStarts
  <2> QED
    BY <2>1, <2>4, GrammarFrame
       DEF InGrammar, KindsAgree, AtReference, AtType, AtDecl, AtMember, TypePlaces
<1>2. CASE BodyClose
  <2>1. pc = "body_close" /\ Tok = "RBrace" /\ cur' = cur + 1 /\ pc' = "leave_body"
    BY <1>0, <1>2 DEF BodyClose, Goto, Throw, Consume, Silent
  <2>2. cur \in Inside
    BY <2>1 DEF InGrammar, AtDecl
  <2>3. cur + 1 \in One({"RBrace"}, Inside)
    BY <2>1, <2>2, OneMember DEF Tok, EndNotConsumed
  <2>4. cur + 1 \in Decl(Started)
    BY <2>3, GrammarFacts DEF Inside
  <2> QED
    BY <2>1, <2>4, GrammarFrame
       DEF InGrammar, KindsAgree, AtReference, AtType, AtDecl, AtMember, TypePlaces
<1>3. CASE LeaveBody
  <2>1. pc = "leave_body" /\ cur' = cur /\ pc' = "decl_index"
    BY <1>3 DEF LeaveBody, Goto, Silent
  <2>2. cur \in Decl(Started)
    BY <2>1 DEF InGrammar, AtDecl
  <2> QED
    BY <2>1, <2>2, GrammarFrame
       DEF InGrammar, KindsAgree, AtReference, AtType, AtDecl, AtMember, TypePlaces
<1>4. CASE DeclIndex
  <2>1. pc = "decl_index" /\ cur' = cur /\ pc' = "stmt"
    BY <1>0, <1>4 DEF DeclIndex, Goto, Throw, OutOfMemory, Silent
  <2>2. cur \in Started
    BY <2>1, GrammarFacts DEF InGrammar, AtDecl
  <2> QED
    BY <2>1, <2>2, GrammarFrame
       DEF InGrammar, KindsAgree, AtReference, AtType, AtDecl, AtMember, TypePlaces
<1> QED
  BY <1>1, <1>2, <1>3, <1>4

\* The keyword and the name of a declaration.
LEMMA BeginStep ==
  ASSUME TypeOK, EndNotConsumed, Silent, Silent', InGrammar, UNCHANGED tokens,
         NEW k \in {"class", "struct", "enum"}, BeginDecl(k)
  PROVE  InGrammar'
<1>0. /\ ErrorAt("ExpectingSingleToken") # NoError /\ ErrorAt("OutOfMemory") # NoError
  BY ThrownNotNone DEF ErrorKind
<1> DEFINE n == Len(nodes) + 1
           Pushed == PushMember(Append(nodes, NewNode(k, Tok2)), Root, n)
<1>1. /\ pc = "stmt" /\ Tok = k /\ Tok2 \in Names /\ cur' = cur + 2
      /\ pc' = IF k = "enum" THEN "base_colon" ELSE "body_open"
      /\ decl' = n /\ nodes' = Pushed
  BY <1>0 DEF BeginDecl, Goto, Throw, OutOfMemory, Consume, Silent
<1>2. InEnum' <=> k = "enum"
  <2>1. Tok2 \in Keys
    BY <1>1, NamesAreNotKinds
  <2>2. nodes \in Seq(Node) /\ Root \in 1 .. Len(nodes)
    BY AstTypes
  <2>3. Pushed[n].kind = k
    BY <2>1, <2>2, KeepsNewMember
  <2> HIDE DEF Pushed, n
  <2> QED
    BY <1>1, <2>3 DEF InEnum
<1> HIDE DEF Pushed, n
<1>3. cur \in Started
  BY <1>1 DEF InGrammar, AtDecl
<1>4. cur + 1 < Len(tokens) /\ (cur + 1) + 1 = cur + 2
  BY <1>1, Peek DEF TypeOK
<1>5. tokens[cur + 1] = k /\ tokens[(cur + 1) + 1] \in Names
  BY <1>1, <1>4 DEF Tok, Tok2
<1>6. CASE k = "enum"
  <2>1. cur + 1 \in One({"enum"}, Started)
    BY <1>3, <1>5, <1>6, OneMember DEF EndNotConsumed
  <2>2. cur + 2 \in EnumName
    BY <1>4, <1>5, <2>1, OneMember DEF EnumName
  <2> QED
    BY <1>1, <1>2, <1>6, <2>2, GrammarFrame
       DEF InGrammar, KindsAgree, AtReference, AtType, AtDecl, AtMember, TypePlaces
<1>7. CASE k # "enum"
  <2>1. cur + 1 \in One({"class", "struct"}, Started)
    BY <1>3, <1>5, <1>7, OneMember DEF EndNotConsumed
  <2>2. cur + 2 \in RecordName
    BY <1>4, <1>5, <2>1, OneMember DEF RecordName
  <2> QED
    BY <1>1, <1>2, <1>7, <2>2, GrammarFrame
       DEF InGrammar, KindsAgree, AtReference, AtType, AtDecl, AtMember, TypePlaces
<1> QED
  BY <1>6, <1>7

\* The token list is never changed.
LEMMA TokensKept ==
  ASSUME TypeOK, EndNotConsumed, Next
  PROVE  UNCHANGED tokens
<1>1. CASE AstStep
  BY <1>1, AstControl
<1>2. CASE ControlStep
  BY <1>2 DEF ControlStep, ParseProgram, CatchModule, ModuleSemi, IdRefScope, IdRefName,
     BaseColon, BodyOpen, FieldColon, CatchField, ItemAssign, Comma, BodyClose,
     BeginImport, ImportSemi, NotADecl, CatchStmt, Finish, DestroyParser, Terminating, vars
<1> QED
  BY <1>1, <1>2 DEF Next, AstStep, ControlStep

\* An alias that is left over is refused.
LEMMA AliasRefused ==
  ASSUME AliasLeft, Next
  PROVE  ~Silent'
<1>1. ~AstStep
  BY DEF AliasLeft, AstStep, TypeName, CustomType, TypeSuffix, FieldName, LeaveField,
     ItemName, ItemValue, LeaveItem, LinkMember, LeaveBody, DeclIndex, ImportMember, BeginDecl
<1>2. ImportSemi
  BY <1>1 DEF AliasLeft, Next, AstStep, ParseProgram, CatchModule, ModuleSemi, IdRefScope,
     IdRefName, BaseColon, BodyOpen, FieldColon, CatchField, ItemAssign, Comma, BodyClose,
     BeginImport, NotADecl, CatchStmt, Finish, DestroyParser, Terminating, Ended
<1>3. ErrorAt("ExpectingSingleToken") # NoError
  BY ThrownNotNone DEF ErrorKind
<1> QED
  BY <1>2, <1>3 DEF AliasLeft, ImportSemi, Throw, Silent

\* Only Finish makes a parse succeed.
LEMMA ResultKept ==
  ASSUME Next, ~Finish, result' = "ok"
  PROVE  result = "ok"
<1>1. CASE AstStep
  BY <1>1 DEF AstStep, TypeName, CustomType, TypeSuffix, FieldName, LeaveField,
     ItemName, ItemValue, LeaveItem, LinkMember, LeaveBody, DeclIndex, ImportMember, BeginDecl
<1>2. CASE ControlStep
  BY <1>2 DEF ControlStep, ParseProgram, CatchModule, ModuleSemi, IdRefScope, IdRefName,
     BaseColon, BodyOpen, FieldColon, CatchField, ItemAssign, Comma, BodyClose,
     BeginImport, ImportSemi, NotADecl, CatchStmt, Finish, DestroyParser, Terminating, vars
<1> QED
  BY <1>1, <1>2 DEF Next, AstStep, ControlStep

\* Every step that says nothing goes to a place the grammar allows.
LEMMA GrammarStep ==
  ASSUME SilentInv, Silent, Silent', InGrammar, Next
  PROVE  InGrammar'
<1>1. TypeOK /\ EndNotConsumed /\ InFlight /\ Places
  BY DEF SilentInv, IInv
<1>2. UNCHANGED tokens /\ KeepsNames(nodes, nodes')
  BY <1>1, TokensKept, NamesKept
<1>3. ASSUME UNCHANGED decl
      PROVE  InEnum' = InEnum
  <2>1. decl \in 1 .. Len(nodes)
    BY <1>1 DEF TypeOK
  <2>2. nodes'[decl].kind = nodes[decl].kind
    BY <1>2, <2>1 DEF KeepsNames, SameName
  <2> QED
    BY <1>3, <2>2 DEF InEnum
<1>4. CASE \/ ParseProgram \/ ModuleSemi \/ IdRefScope \/ IdRefName
           \/ BeginImport \/ ImportMember \/ ImportSemi
  BY <1>1, <1>2, <1>4, ReferenceStep
<1>5. CASE TypeName \/ CustomType \/ TypeSuffix \/ BaseColon \/ FieldColon
  <2>1. UNCHANGED decl
    BY <1>5 DEF TypeName, CustomType, TypeSuffix, BaseColon, FieldColon
  <2> QED
    BY <1>1, <1>2, <1>3, <1>5, <2>1, TypeStep
<1>6. CASE \/ FieldName \/ LeaveField \/ ItemName \/ ItemAssign \/ ItemValue \/ LeaveItem
           \/ LinkMember \/ Comma
  <2>1. UNCHANGED decl
    BY <1>6 DEF FieldName, LeaveField, ItemName, ItemAssign, ItemValue, LeaveItem,
       LinkMember, Comma
  <2> QED
    BY <1>1, <1>2, <1>3, <1>6, <2>1, MemberStep
<1>7. CASE BodyOpen \/ BodyClose \/ LeaveBody \/ DeclIndex
  <2>1. UNCHANGED decl
    BY <1>7 DEF BodyOpen, BodyClose, LeaveBody, DeclIndex
  <2> QED
    BY <1>1, <1>2, <1>3, <1>7, <2>1, DeclStep
<1>8. ASSUME NEW k \in {"class", "struct", "enum"}, BeginDecl(k)
      PROVE  InGrammar'
  BY <1>1, <1>2, <1>8, BeginStep
<1>9. CASE CatchModule \/ CatchField \/ CatchStmt \/ NotADecl
  <2>1. Append(errors, pending) # << >>
    BY <1>1 DEF TypeOK
  <2>2. ErrorAt("OutOfMemory") # NoError /\ ErrorAt("ExpectingDecl") # NoError
    BY ThrownNotNone DEF ErrorKind
  <2> QED
    BY <1>9, <2>1, <2>2 DEF CatchModule, CatchField, CatchStmt, NotADecl, Throw,
       OutOfMemory, Silent
<1>10. CASE Finish \/ DestroyParser \/ Terminating
  <2>1. pc' \in {"returned", "crashed", "aborted", "destroyed"}
    BY <1>10 DEF Finish, DestroyParser, Terminating, Ended, vars, Goto
  <2> QED
    BY <2>1 DEF InGrammar, KindsAgree, AtReference, AtType, AtDecl, AtMember, TypePlaces
<1> QED
  BY <1>4, <1>5, <1>6, <1>7, <1>8, <1>9, <1>10 DEF Next

\* A parse that succeeds has consumed a program.
LEMMA FinishWellFormed ==
  ASSUME TypeOK, EndNotConsumed, Finish, InGrammar
  PROVE  WellFormed
<1>1. cur \in Started /\ cur < Len(tokens) /\ cur \in Nat
  BY DEF Finish, InGrammar, AtDecl, TypeOK, EndNotConsumed
<1>2. tokens[cur + 1] = "End"
  BY DEF Finish, Tok
<1>3. cur + 1 = Len(tokens)
  BY <1>1, <1>2 DEF TypeOK, EndsOnce
<1>4. cur + 1 \in One({"End"}, Started)
  BY <1>1, <1>2, OneMember
<1> QED
  BY <1>3, <1>4 DEF WellFormed, Program, Started

\* Success without an error is a state of a silent parse.
LEMMA SilentSuccess ==
  ASSUME SilentInv, result = "ok", errors = << >>
  PROVE  Silent /\ ~AliasLeft /\ GoodBut(nodes, {})
<1>1. pending = NoError /\ pc \in {"returned", "aborted", "destroyed"}
  BY DEF SilentInv, Places
<1> QED
  BY <1>1 DEF SilentInv, Silent, NothingMissing, OpenPlace, AliasLeft, InDecl, BodyPCs

-----------------------------------------------------------------------------
(* The inductive invariant. *)

\* An import has a name only while its alias is left over.
ImportsNameless == Nameless(nodes)

GrammarInv ==
  /\ SilentInv
  /\ Silent => InGrammar /\ (~AliasLeft => ImportsNameless)
  /\ result = "ok" /\ errors = << >> => WellFormed

\* The invariant holds at the start,
LEMMA GrammarInit == Init => GrammarInv
<1> SUFFICES ASSUME Init PROVE GrammarInv
  OBVIOUS
<1>1. SilentInv
  BY SilentInit
<1>2. InGrammar
  BY DEF Init, InGrammar, KindsAgree, AtReference, AtType, AtDecl, AtMember, TypePlaces
<1>3. Nameless(nodes)
  <2>1. Len(nodes) = 1
    BY DEF Init
  <2>2. nodes[1].kind = "root"
    <3>1. nodes = << NewNode("root", "") >>
      BY DEF Init
    <3>2. \A x : << x >>[1] = x
      OBVIOUS
    <3>3. \A k, x : NewNode(k, x).kind = k
      BY DEF NewNode
    <3> QED
      BY <3>1, <3>2, <3>3, Zenon
  <2>3. NoAlias(nodes[1])
    BY <2>2 DEF NoAlias
  <2> QED
    BY <2>1, <2>3 DEF Nameless
<1>4. result # "ok"
  BY DEF Init
<1> QED
  BY <1>1, <1>2, <1>3, <1>4 DEF GrammarInv, ImportsNameless

\* and every step keeps it.
LEMMA GrammarNext == GrammarInv /\ [Next]_vars => GrammarInv'
<1> SUFFICES ASSUME GrammarInv, [Next]_vars PROVE GrammarInv'
  OBVIOUS
<1>0. TypeOK /\ EndNotConsumed /\ InFlight /\ Places /\ SilentInv
  BY DEF GrammarInv, SilentInv, IInv
<1>1. SilentInv'
  BY <1>0, SilentStep
<1>2. CASE UNCHANGED vars
  <2> USE <1>2
  <2>1. (Silent => InGrammar)' /\ (Silent /\ ~AliasLeft => ImportsNameless)'
    <3>1. Silent' = Silent /\ AliasLeft' = AliasLeft /\ ImportsNameless' = ImportsNameless
      BY DEF vars, Silent, AliasLeft, ImportsNameless, Nameless, NoAlias, Tok
    <3>2. InGrammar => InGrammar'
      <4>1. UNCHANGED tokens /\ TypeStarts' = TypeStarts /\ NameStarts' = NameStarts
        BY StartsFrame DEF vars
      <4>2. Inside' = Inside /\ InEnum' = InEnum
        BY <4>1, GrammarFrame DEF vars, Inside, InEnum
      <4> QED
        BY <4>1, <4>2, GrammarFrame
           DEF vars, InGrammar, KindsAgree, AtReference, AtType, AtDecl, AtMember, TypePlaces, Tok,
               AliasLeft
    <3> QED
      BY <3>1, <3>2 DEF GrammarInv
  <2>2. (result = "ok" /\ errors = << >> => WellFormed)'
    <3>1. Program' = Program
      BY GrammarFrame DEF vars
    <3> QED
      BY <3>1 DEF vars, GrammarInv, WellFormed
  <2> QED
    BY <1>1, <2>1, <2>2 DEF GrammarInv
<1>3. CASE Next
  <2>1. ASSUME Silent'
        PROVE  Silent /\ ~AliasLeft /\ InGrammar /\ Nameless(nodes)
    <3>1. Silent
      BY <1>0, <1>3, <2>1, SilentBefore
    <3>2. ~AliasLeft
      BY <1>3, <2>1, AliasRefused
    <3> QED
      BY <3>1, <3>2 DEF GrammarInv, ImportsNameless
  <2>2. Silent' => InGrammar'
    BY <1>0, <1>3, <2>1, GrammarStep
  <2>3. Silent' /\ ~AliasLeft' => Nameless(nodes)'
    BY <1>0, <1>3, <2>1, NamesKept
  <2>4. ASSUME result' = "ok", errors' = << >>
        PROVE  WellFormed'
    <3>1. Program' = Program /\ UNCHANGED tokens
      BY <1>0, <1>3, TokensKept, GrammarFrame
    <3>2. CASE Finish
      <4>1. Silent'
        BY <1>1, <2>4 DEF SilentInv, Places, Silent
      <4>2. WellFormed
        BY <1>0, <2>1, <3>2, <4>1, FinishWellFormed
      <4> QED
        BY <3>1, <4>2 DEF WellFormed
    <3>3. CASE ~Finish
      <4>1. result = "ok"
        BY <1>3, <2>4, <3>3, ResultKept
      <4>2. errors = << >>
        <5>1. Append(errors, pending) # << >>
          BY <1>0 DEF TypeOK
        <5> QED
          BY <1>3, <2>4, <5>1, ErrorsGrow
      <4> QED
        BY <3>1, <4>1, <4>2 DEF WellFormed, GrammarInv
    <3> QED
      BY <3>2, <3>3
  <2> QED
    BY <1>1, <2>2, <2>3, <2>4 DEF GrammarInv, ImportsNameless
<1> QED
  BY <1>2, <1>3

\* Where every member is good and no import has a name, two members of a container
\* that have the same name are one.
LEMMA GoodIsUnique ==
  ASSUME NEW ns, GoodBut(ns, {}), Nameless(ns), NEW p \in 1 .. Len(ns),
         NEW i \in 1 .. Len(ns[p].members), NEW j \in 1 .. Len(ns[p].members),
         ns[ns[p].members[i]].name = ns[ns[p].members[j]].name,
         ns[ns[p].members[i]].name # ""
  PROVE  i = j
<1>1. GoodMember(ns, p, i) /\ GoodMember(ns, p, j)
  BY Zenon DEF GoodBut
<1> DEFINE m == ns[p].members[i]
           n == ns[p].members[j]
<1>2. m \in 1 .. Len(ns) /\ n \in 1 .. Len(ns)
  BY <1>1, Zenon DEF GoodMember
<1>3. ns[m].kind # "import" /\ ns[n].kind # "import"
  BY <1>2, Zenon DEF Nameless, NoAlias
<1>4. ns[p].index[ns[m].name] = i /\ ns[p].index[ns[n].name] = j
  BY <1>1, <1>3, Zenon DEF GoodMember
<1> QED
  BY <1>4, Zenon

\* A program the parser accepts without a word is a sentence of the grammar and
\* has no duplicate definition: no recovery, and no allocation that fails, hides
\* an error.
THEOREM AcceptedIsWellFormed == Spec => []AcceptsOnlyWellFormed
<1>1. Spec => []GrammarInv
  BY GrammarInit, GrammarNext, PTL DEF Spec
<1>2. GrammarInv => AcceptsOnlyWellFormed
  <2> SUFFICES ASSUME GrammarInv, result = "ok", errors = << >>
               PROVE  WellFormed /\ ~Duplicates
    BY DEF AcceptsOnlyWellFormed
  <2>1. WellFormed
    BY DEF GrammarInv
  <2>2. GoodBut(nodes, {}) /\ Nameless(nodes)
    BY SilentSuccess DEF GrammarInv, ImportsNameless
  <2>3. ~Duplicates
    BY <2>2, GoodIsUnique, Zenon DEF Duplicates
  <2> QED
    BY <2>1, <2>3
<1> QED
  BY <1>1, <1>2, PTL

-----------------------------------------------------------------------------
(* What a parser that has said nothing has ahead of it on a sentence of the *)
(* grammar: the positions from which the rest can be completed.             *)

Meets(P, R) == \E x \in P : x \in R

\* A token of S, and then a position of R.
Before(S, R) ==
  {c \in 0 .. Len(tokens) : c < Len(tokens) /\ tokens[c + 1] \in S /\ c + 1 \in R}

\* R, or any number of productions G and then R: whatever holds the position and
\* is closed under G meets R.
Leads(G, R) ==
  {c \in 0 .. Len(tokens) : \A W \in Spots : c \in W /\ G[W] \subseteq W => Meets(W, R)}

Rest == Leads(DeclFn, Before({"End"}, {Len(tokens)}))
RestSemi == Before({"Semicolon"}, Rest)
Closing == Before({"RBrace"}, Rest)
AfterField == Leads(FieldsTail, Closing)
AfterItem == Leads(ItemsTail, Closing)
InType == Leads(TypeTail, AfterField)
InItem == AfterItem \cup Before({"AssignOp"}, Before({"lit"}, AfterItem))
ItemAhead == Before(Names, InItem)
EnumBodyAhead == Before({"LBrace"}, ItemAhead)

\* A name, a reference and a type are followed by what their caller expects.
Callers == {"module", "import", "field", "base"}
After == [ module |-> RestSemi, import |-> RestSemi, field |-> InType, base |-> EnumBodyAhead ]
NameAhead == [c \in Callers |-> Before(Names, Leads(DottedTail, After[c]))]
RefAhead == [c \in Callers |-> NameAhead[c] \cup Before({"ScopeOp"}, NameAhead[c])]
TypeAhead == [c \in Callers |-> Before({"type"}, After[c]) \cup NameAhead[c]]

ColonAhead == Before({"Colon"}, TypeAhead["field"])
FieldAhead == Before(Names, ColonAhead)
RecordBodyAhead == Before({"LBrace"}, FieldAhead)
BaseClauseAhead == Before({"Colon"}, TypeAhead["base"])
ModuleAhead == Before({"module"}, RefAhead["module"])

\* A position before a token.
LEMMA MeetsOne ==
  ASSUME NEW P \in Spots, NEW S, NEW R, Len(tokens) \in Nat, Meets(One(S, P), R)
  PROVE  Meets(P, Before(S, R))
<1>1. PICK x \in One(S, P) : x \in R
  BY DEF Meets
<1>2. PICK j \in P : j < Len(tokens) /\ tokens[j + 1] \in S /\ x = j + 1
  BY DEF One
<1>3. j \in 0 .. Len(tokens)
  BY DEF Spots, Positions
<1>4. j \in Before(S, R)
  BY <1>1, <1>2, <1>3 DEF Before
<1> QED
  BY <1>4 DEF Meets

\* What is met after a repetition can be met from its base.
LEMMA MeetsStar ==
  ASSUME NEW H, NEW B \in [Spots -> Spots], NEW G, NEW R, Len(tokens) \in Nat, Consumes(G),
         IsStar(H, B, G, Len(tokens)), NEW P \in Spots, Meets(H[P], R)
  PROVE  Meets(B[P], Leads(G, R))
<1> DEFINE N == Len(tokens)
<1>1. PICK x \in H[P] : x \in R
  BY DEF Meets
<1>2. Spots = Positions(N) /\ N \in Nat
  BY DEF Spots
<1>3. PICK f : IsChain(f, G, B[P], N) /\ H[P] = f[N]
  BY <1>2 DEF IsStar
<1>4. G \in [Positions(N) -> Positions(N)] /\ Moves(G, N, 1)
  BY <1>2 DEF Consumes
<1> HIDE DEF N
<1>5. PICK y \in B[P] : /\ y <= x
                        /\ \A W \in Positions(N) : y \in W /\ G[W] \subseteq W => x \in W
  <2> DEFINE b == B[P]
             g == G
  <2>1. x \in f[N] /\ IsChain(f, g, b, N)
    BY <1>1, <1>3
  <2>2. N \in Nat /\ g \in [Positions(N) -> Positions(N)] /\ Moves(g, N, 1)
    BY <1>2, <1>4
  <2> HIDE DEF b, g
  <2>3. \E y \in b : y <= x /\ \A W \in Positions(N) : y \in W /\ g[W] \subseteq W => x \in W
    BY ONLY <2>1, <2>2, ChainSource
  <2> QED
    BY <2>3 DEF b, g
<1>6. y \in 0 .. N
  <2>1. B[P] \in Positions(N)
    BY <1>2
  <2> QED
    BY <2>1 DEF Positions
<1>7. \A W \in Spots : y \in W /\ G[W] \subseteq W => Meets(W, R)
  BY <1>1, <1>2, <1>5 DEF Meets
<1>8. y \in Leads(G, R)
  BY <1>6, <1>7 DEF Leads, N
<1> QED
  BY <1>8 DEF Meets

\* A repetition ends or goes on.
LEMMA LeadsOn ==
  ASSUME NEW G, NEW R, Consumes(G), Len(tokens) \in Nat, NEW c \in Leads(G, R)
  PROVE  c \in R \/ ({c} \in Spots /\ Meets(G[{c}], Leads(G, R)))
<1> SUFFICES ASSUME c \notin R, ~Meets(G[{c}], Leads(G, R)) PROVE FALSE
  BY DEF Leads, Spots, Positions
<1> DEFINE Off == {W \in Spots : G[W] \subseteq W /\ ~Meets(W, R)}
           U == {c} \cup UNION Off
<1>1. c \in 0 .. Len(tokens) /\ {c} \in Spots /\ G \in [Spots -> Spots]
  BY DEF Leads, Spots, Positions, Consumes
<1>2. U \in Spots
  BY <1>1 DEF Spots, Positions
<1>3. ~Meets(U, R)
  BY DEF Meets
<1>4. \A z \in G[{c}] : \E W \in Off : z \in W
  <2> SUFFICES ASSUME NEW z \in G[{c}] PROVE \E W \in Off : z \in W
    OBVIOUS
  <2>1. z \in 0 .. Len(tokens)
    <3>1. G[{c}] \in Spots
      BY <1>1
    <3> QED
      BY <3>1 DEF Spots, Positions
  <2>2. z \notin Leads(G, R)
    BY DEF Meets
  <2> QED
    BY <2>1, <2>2 DEF Leads
<1>5. G[U] \subseteq U
  <2> SUFFICES ASSUME NEW z \in G[U] PROVE z \in U
    OBVIOUS
  <2>1. PICK y \in U : y + 1 <= z /\ \A Q \in Spots : y \in Q => z \in G[Q]
    <3>1. \A P \in Spots : \A x \in G[P] :
            \E y \in P : y + 1 <= x /\ \A Q \in Spots : y \in Q => x \in G[Q]
      BY DEF Consumes, Moves, Spots
    <3> HIDE DEF U
    <3> QED
      BY <1>2, <3>1
  <2>2. CASE y = c
    BY <1>1, <1>4, <2>1, <2>2
  <2>3. CASE y # c
    <3>1. PICK W \in Off : y \in W
      BY <2>3
    <3>2. z \in G[W]
      BY <2>1, <3>1
    <3> QED
      BY <3>1, <3>2
  <2> QED
    BY <2>2, <2>3
<1>6. c \in U
  OBVIOUS
<1> HIDE DEF U
<1> QED
  BY <1>2, <1>3, <1>5, <1>6 DEF Leads

\* What is ahead of a name, a reference or a type that is met before R.
LEMMA MeetsName ==
  ASSUME NEW P \in Spots, NEW R, TypeOK, Meets(DottedId(P), R)
  PROVE  Meets(P, Before(Names, Leads(DottedTail, R)))
<1>1. Len(tokens) \in Nat /\ Consumes(NameFn) /\ Consumes(DottedTail)
  BY GrammarTypes, DottedConsumes
<1>2. IsStar(DottedFn, NameFn, DottedTail, Len(tokens))
  BY <1>1, DottedIsStar DEF Consumes
<1>3. DottedFn[P] = DottedId(P) /\ NameFn[P] = One(Names, P)
  BY Zenon DEF DottedFn, NameFn
<1>4. Meets(NameFn[P], Leads(DottedTail, R))
  BY <1>1, <1>2, <1>3, MeetsStar DEF Consumes
<1> QED
  BY <1>1, <1>3, <1>4, MeetsOne

\* A choice is met by one of its branches.
LEMMA MeetsEither ==
  ASSUME NEW P, NEW Q, NEW R, Meets(P \cup Q, R)
  PROVE  Meets(P, R) \/ Meets(Q, R)
BY DEF Meets

\* A reference of a caller.
LEMMA MeetsRef ==
  ASSUME NEW P \in Spots, NEW c \in Callers, TypeOK, Meets(IdRef(P), After[c])
  PROVE  Meets(P, RefAhead[c])
<1> DEFINE N == NameAhead[c]
<1>1. N = Before(Names, Leads(DottedTail, After[c]))
  BY DEF NameAhead
<1>2. RefAhead[c] = N \cup Before({"ScopeOp"}, N)
  BY DEF RefAhead
<1>3. Len(tokens) \in Nat /\ P \cup One({"ScopeOp"}, P) \in Spots
  BY GrammarTypes
<1>4. IdRef(P) = DottedId(P \cup One({"ScopeOp"}, P))
  BY Zenon DEF IdRef, Opt
<1>5. Meets(P \cup One({"ScopeOp"}, P), N)
  BY <1>1, <1>3, <1>4, MeetsName
<1> HIDE DEF N
<1>6. Meets(P, N) \/ Meets(P, Before({"ScopeOp"}, N))
  BY <1>3, <1>5, MeetsEither, MeetsOne
<1> QED
  BY <1>2, <1>6 DEF Meets

\* A base type of a caller.
LEMMA MeetsBase ==
  ASSUME NEW P \in Spots, NEW c \in Callers, TypeOK, Meets(BaseType(P), After[c])
  PROVE  Meets(P, TypeAhead[c])
<1>1. NameAhead[c] = Before(Names, Leads(DottedTail, After[c]))
  BY DEF NameAhead
<1>2. TypeAhead[c] = Before({"type"}, After[c]) \cup NameAhead[c]
  BY DEF TypeAhead
<1>3. Len(tokens) \in Nat
  BY GrammarTypes
<1>4. Meets(One({"type"}, P), After[c]) \/ Meets(DottedId(P), After[c])
  BY MeetsEither DEF BaseType
<1>5. Meets(P, Before({"type"}, After[c])) \/ Meets(P, NameAhead[c])
  BY <1>1, <1>3, <1>4, MeetsOne, MeetsName
<1> QED
  BY <1>2, <1>5 DEF Meets

\* What follows a reference or a type, by caller.
LEMMA AfterFacts ==
  /\ After["module"] = RestSemi /\ After["import"] = RestSemi
  /\ After["field"] = InType /\ After["base"] = EnumBodyAhead
  /\ "module" \in Callers /\ "import" \in Callers /\ "field" \in Callers /\ "base" \in Callers
BY DEF After, Callers

\* A field.
LEMMA MeetsField ==
  ASSUME NEW P \in Spots, TypeOK, Meets(Field(P), AfterField)
  PROVE  Meets(P, FieldAhead)
<1> DEFINE Q == One({"Colon"}, One(Names, P))
<1>1. Len(tokens) \in Nat /\ One(Names, P) \in Spots /\ Q \in Spots
  BY GrammarTypes
<1>2. Consumes(BaseFn) /\ Consumes(TypeTail)
  BY <1>1, TypeConsumes
<1>3. IsStar(TypeFn, BaseFn, TypeTail, Len(tokens))
  BY <1>1, <1>2, TypeIsStar DEF Consumes
<1>4. Field(P) = FieldType(Q)
  BY Zenon DEF Field
<1> HIDE DEF Q
<1>5. TypeFn[Q] = FieldType(Q) /\ BaseFn[Q] = BaseType(Q)
  BY <1>1, Zenon DEF TypeFn, BaseFn
<1>6. Meets(BaseFn[Q], InType)
  BY <1>1, <1>2, <1>3, <1>4, <1>5, MeetsStar DEF Consumes, InType
<1>7. Meets(Q, TypeAhead["field"])
  BY <1>1, <1>5, <1>6, MeetsBase, AfterFacts
<1>8. Meets(One(Names, P), ColonAhead)
  BY <1>1, <1>7, MeetsOne DEF Q, ColonAhead
<1> QED
  BY <1>1, <1>8, MeetsOne DEF FieldAhead

\* An item.
LEMMA MeetsItem ==
  ASSUME NEW P \in Spots, TypeOK, Meets(Item(P), AfterItem)
  PROVE  Meets(P, ItemAhead)
<1> DEFINE Q == One(Names, P)
<1>1. Len(tokens) \in Nat /\ Q \in Spots /\ One({"AssignOp"}, Q) \in Spots
  BY GrammarTypes
<1>2. Item(P) = Q \cup One({"lit"}, One({"AssignOp"}, Q))
  BY Zenon DEF Item, Opt
<1> HIDE DEF Q
<1>3. Meets(Q, AfterItem) \/ Meets(Q, Before({"AssignOp"}, Before({"lit"}, AfterItem)))
  BY <1>1, <1>2, MeetsEither, MeetsOne
<1>4. Meets(Q, InItem)
  BY <1>3 DEF Meets, InItem
<1> QED
  BY <1>1, <1>4, MeetsOne DEF Q, ItemAhead

\* The members of a declaration.
LEMMA MeetsMembers ==
  ASSUME NEW P \in Spots, TypeOK
  PROVE  /\ Meets(ListOf(Field, P), Closing) => Meets(P, FieldAhead)
         /\ Meets(ListOf(Item, P), Closing) => Meets(P, ItemAhead)
<1>1. Len(tokens) \in Nat
  BY GrammarTypes
<1>2. ASSUME Meets(ListOf(Field, P), Closing)
      PROVE  Meets(P, FieldAhead)
  <2>1. Consumes(FieldFn) /\ Consumes(FieldsTail)
    BY <1>1, FieldsConsume
  <2>2. IsStar(FieldsFn, FieldFn, FieldsTail, Len(tokens))
    BY <1>1, <2>1, FieldsIsStar DEF Consumes
  <2>3. FieldsFn[P] = ListOf(Field, P) /\ FieldFn[P] = Field(P)
    BY Zenon DEF FieldsFn, FieldFn
  <2>4. Meets(Field(P), AfterField)
    BY <1>1, <1>2, <2>1, <2>2, <2>3, MeetsStar DEF Consumes, AfterField
  <2> QED
    BY <2>4, MeetsField
<1>3. ASSUME Meets(ListOf(Item, P), Closing)
      PROVE  Meets(P, ItemAhead)
  <2>1. Consumes(ItemFn) /\ Consumes(ItemsTail)
    BY <1>1, ItemsConsume
  <2>2. IsStar(ItemsFn, ItemFn, ItemsTail, Len(tokens))
    BY <1>1, <2>1, ItemsIsStar DEF Consumes
  <2>3. ItemsFn[P] = ListOf(Item, P) /\ ItemFn[P] = Item(P)
    BY Zenon DEF ItemsFn, ItemFn
  <2>4. Meets(Item(P), AfterItem)
    BY <1>1, <1>3, <2>1, <2>2, <2>3, MeetsStar DEF Consumes, AfterItem
  <2> QED
    BY <2>4, MeetsItem
<1> QED
  BY <1>2, <1>3

\* What a declaration and the rest of a program may start with.
StartAhead ==
  Before({"class", "struct"}, Before(Names, RecordBodyAhead))
    \cup Before({"enum"}, Before(Names, BaseClauseAhead))
    \cup Before({"import"}, RefAhead["import"])

\* A declaration.
LEMMA MeetsDecl ==
  ASSUME NEW P \in Spots, TypeOK, Meets(Decl(P), Rest)
  PROVE  Meets(P, StartAhead)
<1>1. Len(tokens) \in Nat /\ \A Q \in Spots : \A S : One(S, Q) \in Spots
  BY GrammarTypes
<1>2. Meets(Record(P), Rest) \/ Meets(Enumeration(P), Rest) \/ Meets(Import(P), Rest)
  BY MeetsEither DEF Decl
<1>3. CASE Meets(Record(P), Rest)
  <2> DEFINE K == One({"class", "struct"}, P)
             B == One({"LBrace"}, One(Names, K))
  <2>1. Record(P) = One({"RBrace"}, ListOf(Field, B))
    BY Zenon DEF Record, Body
  <2>2. K \in Spots /\ One(Names, K) \in Spots /\ B \in Spots /\ ListOf(Field, B) \in Spots
    BY <1>1, GrammarTypes
  <2> HIDE DEF K
  <2>3. Meets(ListOf(Field, B), Closing)
    BY <1>1, <1>3, <2>1, <2>2, MeetsOne DEF Closing
  <2>4. Meets(B, FieldAhead)
    BY <2>2, <2>3, MeetsMembers
  <2>5. Meets(One(Names, K), RecordBodyAhead)
    BY <1>1, <2>2, <2>4, MeetsOne DEF RecordBodyAhead
  <2>6. Meets(K, Before(Names, RecordBodyAhead))
    BY <1>1, <2>2, <2>5, MeetsOne
  <2>7. Meets(P, Before({"class", "struct"}, Before(Names, RecordBodyAhead)))
    BY <1>1, <2>6, MeetsOne DEF K
  <2> QED
    BY <2>7 DEF Meets, StartAhead
<1>4. CASE Meets(Enumeration(P), Rest)
  <2> DEFINE K == One({"enum"}, P)
             C == One({"Colon"}, One(Names, K))
             B == One({"LBrace"}, BaseType(C))
  <2>1. Enumeration(P) = One({"RBrace"}, ListOf(Item, B))
    BY Zenon DEF Enumeration, Body
  <2>2. /\ K \in Spots /\ One(Names, K) \in Spots /\ C \in Spots /\ BaseType(C) \in Spots
        /\ B \in Spots /\ ListOf(Item, B) \in Spots
    BY <1>1, GrammarTypes
  <2> HIDE DEF K
  <2>3. Meets(ListOf(Item, B), Closing)
    BY <1>1, <1>4, <2>1, <2>2, MeetsOne DEF Closing
  <2>4. Meets(B, ItemAhead)
    BY <2>2, <2>3, MeetsMembers
  <2>5. Meets(BaseType(C), EnumBodyAhead)
    BY <1>1, <2>2, <2>4, MeetsOne DEF EnumBodyAhead
  <2>6. Meets(C, TypeAhead["base"])
    BY <2>2, <2>5, MeetsBase, AfterFacts
  <2>7. Meets(One(Names, K), BaseClauseAhead)
    BY <1>1, <2>2, <2>6, MeetsOne DEF BaseClauseAhead
  <2>8. Meets(K, Before(Names, BaseClauseAhead))
    BY <1>1, <2>2, <2>7, MeetsOne
  <2>9. Meets(P, Before({"enum"}, Before(Names, BaseClauseAhead)))
    BY <1>1, <2>8, MeetsOne DEF K
  <2> QED
    BY <2>9 DEF Meets, StartAhead
<1>5. CASE Meets(Import(P), Rest)
  <2> DEFINE K == One({"import"}, P)
  <2>1. Import(P) = One({"Semicolon"}, IdRef(K))
    BY Zenon DEF Import
  <2>2. K \in Spots /\ IdRef(K) \in Spots
    BY <1>1, GrammarTypes
  <2> HIDE DEF K
  <2>3. Meets(IdRef(K), RestSemi)
    BY <1>1, <1>5, <2>1, <2>2, MeetsOne DEF RestSemi
  <2>4. Meets(K, RefAhead["import"])
    BY <2>2, <2>3, MeetsRef, AfterFacts
  <2>5. Meets(P, Before({"import"}, RefAhead["import"]))
    BY <1>1, <2>4, MeetsOne DEF K
  <2> QED
    BY <2>5 DEF Meets, StartAhead
<1> QED
  BY <1>2, <1>3, <1>4, <1>5

\* One position that meets R is in R.
LEMMA MeetsPoint ==
  ASSUME NEW c, NEW R, Meets({c}, R)
  PROVE  c \in R
BY DEF Meets

\* How the rest of a program, of a body, of a type and of a name may go on.
LEMMA RestAhead ==
  ASSUME TypeOK, NEW c \in Rest
  PROVE  c \in Before({"End"}, {Len(tokens)}) \/ c \in StartAhead
<1>1. Len(tokens) \in Nat /\ Consumes(DeclFn)
  BY GrammarTypes, DeclsConsume
<1>2. c \in Before({"End"}, {Len(tokens)}) \/ ({c} \in Spots /\ Meets(DeclFn[{c}], Rest))
  BY <1>1, LeadsOn DEF Rest
<1>3. {c} \in Spots => DeclFn[{c}] = Decl({c})
  BY Zenon DEF DeclFn
<1> QED
  BY <1>2, <1>3, MeetsDecl, MeetsPoint

\* After a field the body is closed or another field follows.
LEMMA FieldsAhead ==
  ASSUME TypeOK, NEW c \in AfterField
  PROVE  c \in Closing \/ c \in Before({"Comma"}, FieldAhead)
<1>1. Len(tokens) \in Nat /\ Consumes(FieldsTail)
  BY GrammarTypes, FieldsConsume
<1>2. c \in Closing \/ ({c} \in Spots /\ Meets(FieldsTail[{c}], AfterField))
  BY <1>1, LeadsOn DEF AfterField
<1>3. CASE {c} \in Spots /\ Meets(FieldsTail[{c}], AfterField)
  <2>1. FieldsTail[{c}] = Field(One({"Comma"}, {c}))
    BY <1>3, Zenon DEF FieldsTail
  <2>2. One({"Comma"}, {c}) \in Spots
    BY <1>3, GrammarTypes
  <2>3. Meets(One({"Comma"}, {c}), FieldAhead)
    BY <1>3, <2>1, <2>2, MeetsField
  <2> QED
    BY <1>1, <1>3, <2>3, MeetsOne, MeetsPoint
<1> QED
  BY <1>2, <1>3

\* After an item the body is closed or another item follows.
LEMMA ItemsAhead ==
  ASSUME TypeOK, NEW c \in AfterItem
  PROVE  c \in Closing \/ c \in Before({"Comma"}, ItemAhead)
<1>1. Len(tokens) \in Nat /\ Consumes(ItemsTail)
  BY GrammarTypes, ItemsConsume
<1>2. c \in Closing \/ ({c} \in Spots /\ Meets(ItemsTail[{c}], AfterItem))
  BY <1>1, LeadsOn DEF AfterItem
<1>3. CASE {c} \in Spots /\ Meets(ItemsTail[{c}], AfterItem)
  <2>1. ItemsTail[{c}] = Item(One({"Comma"}, {c}))
    BY <1>3, Zenon DEF ItemsTail
  <2>2. One({"Comma"}, {c}) \in Spots
    BY <1>3, GrammarTypes
  <2>3. Meets(One({"Comma"}, {c}), ItemAhead)
    BY <1>3, <2>1, <2>2, MeetsItem
  <2> QED
    BY <1>1, <1>3, <2>3, MeetsOne, MeetsPoint
<1> QED
  BY <1>2, <1>3

\* After the type of a field the field ends or brackets follow.
LEMMA TypesAhead ==
  ASSUME TypeOK, NEW c \in InType
  PROVE  c \in AfterField \/ c \in Before({"LBracket"}, Before({"RBracket"}, InType))
<1>1. Len(tokens) \in Nat /\ Consumes(TypeTail)
  BY GrammarTypes, TypeConsumes
<1>2. c \in AfterField \/ ({c} \in Spots /\ Meets(TypeTail[{c}], InType))
  BY <1>1, LeadsOn DEF InType
<1>3. CASE {c} \in Spots /\ Meets(TypeTail[{c}], InType)
  <2>1. TypeTail[{c}] = One({"RBracket"}, One({"LBracket"}, {c}))
    BY <1>3, Zenon DEF TypeTail
  <2>2. One({"LBracket"}, {c}) \in Spots
    BY <1>3, GrammarTypes
  <2>3. Meets(One({"LBracket"}, {c}), Before({"RBracket"}, InType))
    BY <1>1, <1>3, <2>1, <2>2, MeetsOne
  <2> QED
    BY <1>1, <1>3, <2>3, MeetsOne, MeetsPoint
<1> QED
  BY <1>2, <1>3

\* After a name the reference ends or a dot and a name follow.
LEMMA DottedAhead ==
  ASSUME TypeOK, NEW R, NEW c \in Leads(DottedTail, R)
  PROVE  c \in R \/ c \in Before({"Dot"}, Before(Names, Leads(DottedTail, R)))
<1> DEFINE L == Leads(DottedTail, R)
<1>1. Len(tokens) \in Nat /\ Consumes(DottedTail)
  BY GrammarTypes, DottedConsumes
<1>2. c \in R \/ ({c} \in Spots /\ Meets(DottedTail[{c}], L))
  BY <1>1, LeadsOn
<1>3. CASE {c} \in Spots /\ Meets(DottedTail[{c}], L)
  <2>1. DottedTail[{c}] = One(Names, One({"Dot"}, {c}))
    BY <1>3, Zenon DEF DottedTail
  <2>2. One({"Dot"}, {c}) \in Spots
    BY <1>3, GrammarTypes
  <2> HIDE DEF L
  <2>3. Meets(One({"Dot"}, {c}), Before(Names, L))
    BY <1>1, <1>3, <2>1, <2>2, MeetsOne
  <2>4. c \in Before({"Dot"}, Before(Names, L))
    BY <1>1, <1>3, <2>3, MeetsOne, MeetsPoint
  <2> QED
    BY <2>4 DEF L
<1> QED
  BY <1>2, <1>3

\* A sentence of the grammar is ahead of the parser at the start.
LEMMA ProgramAhead ==
  ASSUME TypeOK, WellFormed
  PROVE  0 \in Rest \/ 0 \in ModuleAhead
<1> DEFINE P == Opt(Module, {0})
           E == Before({"End"}, {Len(tokens)})
<1>1. Len(tokens) \in Nat /\ P \in Spots /\ Star(Decl, P) \in Spots /\ {0} \in Spots
  BY GrammarTypes
<1>2. Consumes(DeclFn) /\ StartFn \in [Spots -> Spots]
  BY <1>1, DeclsConsume DEF StartFn
<1>3. IsStar(DeclsFn, StartFn, DeclFn, Len(tokens))
  BY <1>1, <1>2, DeclsIsStar DEF Consumes
<1>4. P = {0} \cup One({"Semicolon"}, IdRef(One({"module"}, {0})))
  BY Zenon DEF Opt, Module
<1>5. Program = One({"End"}, Star(Decl, P))
  BY Zenon DEF Program
<1> HIDE DEF P
<1>6. DeclsFn[P] = Star(Decl, P) /\ StartFn[P] = P
  BY <1>1, Zenon DEF DeclsFn, StartFn
<1>7. Meets(One({"End"}, Star(Decl, P)), {Len(tokens)})
  BY <1>5 DEF Meets, WellFormed
<1>8. Meets(DeclsFn[P], E)
  BY <1>1, <1>6, <1>7, MeetsOne
<1>9. Meets(P, Rest)
  <2> HIDE DEF E
  <2>1. Meets(StartFn[P], Leads(DeclFn, E))
    BY <1>1, <1>2, <1>3, <1>8, MeetsStar
  <2> QED
    BY <1>6, <2>1 DEF Rest, E
<1>10. CASE Meets({0}, Rest)
  BY <1>10, MeetsPoint
<1>11. CASE Meets(One({"Semicolon"}, IdRef(One({"module"}, {0}))), Rest)
  <2> DEFINE K == One({"module"}, {0})
  <2>1. K \in Spots /\ IdRef(K) \in Spots
    BY <1>1, GrammarTypes
  <2>2. Meets(IdRef(K), RestSemi)
    BY <1>1, <1>11, <2>1, MeetsOne DEF RestSemi
  <2> HIDE DEF K
  <2>3. Meets(K, RefAhead["module"])
    BY <2>1, <2>2, MeetsRef, AfterFacts
  <2>4. Meets({0}, ModuleAhead)
    BY <1>1, <2>3, MeetsOne DEF K, ModuleAhead
  <2> QED
    BY <2>4, MeetsPoint
<1> QED
  BY <1>4, <1>9, <1>10, <1>11, MeetsEither

\* The tokens do not change, and so what is ahead does not either.
LEMMA AheadFrame ==
  ASSUME UNCHANGED tokens
  PROVE  /\ Rest' = Rest /\ RestSemi' = RestSemi /\ Closing' = Closing
         /\ AfterField' = AfterField /\ AfterItem' = AfterItem /\ InType' = InType
         /\ InItem' = InItem /\ ItemAhead' = ItemAhead /\ EnumBodyAhead' = EnumBodyAhead
         /\ After' = After /\ NameAhead' = NameAhead /\ RefAhead' = RefAhead
         /\ TypeAhead' = TypeAhead /\ ColonAhead' = ColonAhead /\ FieldAhead' = FieldAhead
         /\ RecordBodyAhead' = RecordBodyAhead /\ BaseClauseAhead' = BaseClauseAhead
         /\ ModuleAhead' = ModuleAhead /\ WellFormed' = WellFormed
         /\ \A S, R : Before(S, R)' = Before(S, R)
<1>1. Rest' = Rest
  BY DEF DottedId, One, Star, Opt, Decl, Record, Enumeration, Import, IdRef, BaseType, FieldType,
     Field, Item, Body, ListOf, Spots, Leads, Before, Meets, DeclFn, Rest
<1>2. RestSemi' = RestSemi /\ Closing' = Closing
  BY <1>1 DEF Before, RestSemi, Closing
<1>3. AfterField' = AfterField
  BY <1>2 DEF DottedId, One, Star, BaseType, FieldType, Field, Spots, Leads, Meets, FieldsTail, AfterField
<1>4. AfterItem' = AfterItem
  BY <1>2 DEF One, Opt, Item, Spots, Leads, Meets, ItemsTail, AfterItem
<1>5. InType' = InType
  BY <1>3 DEF One, Spots, Leads, Meets, TypeTail, InType
<1>6. InItem' = InItem
  BY <1>4 DEF Before, InItem
<1>7. ItemAhead' = ItemAhead
  BY <1>6 DEF Before, ItemAhead
<1>8. EnumBodyAhead' = EnumBodyAhead
  BY <1>7 DEF Before, EnumBodyAhead
<1>9. After' = After
  BY <1>2, <1>5, <1>8 DEF After
<1>10. NameAhead' = NameAhead
  BY <1>9 DEF One, Spots, Leads, Meets, Before, DottedTail, NameAhead
<1>11. RefAhead' = RefAhead
  BY <1>10 DEF Before, RefAhead
<1>12. TypeAhead' = TypeAhead
  BY <1>9, <1>10 DEF Before, TypeAhead
<1>13. ColonAhead' = ColonAhead
  BY <1>12 DEF Before, ColonAhead
<1>14. FieldAhead' = FieldAhead
  BY <1>13 DEF Before, FieldAhead
<1>15. RecordBodyAhead' = RecordBodyAhead
  BY <1>14 DEF Before, RecordBodyAhead
<1>16. BaseClauseAhead' = BaseClauseAhead
  BY <1>12 DEF Before, BaseClauseAhead
<1>17. ModuleAhead' = ModuleAhead
  BY <1>11 DEF Before, ModuleAhead
<1>18. WellFormed' = WellFormed
  BY GrammarFrame DEF WellFormed
<1>19. \A S, R : Before(S, R)' = Before(S, R)
  BY DEF Before
<1> QED
  BY <1>1, <1>2, <1>3, <1>4, <1>5, <1>6, <1>7, <1>8, <1>9, <1>10, <1>11, <1>12, <1>13,
     <1>14, <1>15, <1>16, <1>17, <1>18, <1>19

-----------------------------------------------------------------------------
(* Where the parser is, seen from the end: as long as nothing has gone wrong *)
(* and the tokens are a sentence, the rest of the sentence is what the       *)
(* place the parser is at expects.                                           *)

AheadReference ==
  /\ pc = "begin" => cur \in Rest \/ cur \in ModuleAhead
  /\ pc = "id_ref" => cur \in RefAhead[ctx]
  /\ pc = "id_ref_name" => cur \in NameAhead[ctx]
  /\ pc \in {"module_semi", "import_member", "import_semi"} => cur \in RestSemi
  /\ pc \notin {"catch_module", "catch_field", "catch_stmt"}

AheadType ==
  /\ pc = "type" => cur \in TypeAhead[ctx]
  /\ pc \in {"custom_type", "suffix"} => cur \in After[ctx]

AheadDecl ==
  /\ pc \in {"stmt", "leave_body", "decl_index"} => cur \in Rest
  /\ pc = "base_colon" => cur \in BaseClauseAhead
  /\ pc = "body_open" => cur \in (IF InEnum THEN EnumBodyAhead ELSE RecordBodyAhead)
  /\ pc \in {"member", "comma"} => cur \in (IF InEnum THEN AfterItem ELSE AfterField)
  /\ pc = "body_close" => cur \in Closing

AheadMember ==
  /\ pc = "field" => cur \in FieldAhead
  /\ pc = "field_colon" => cur \in ColonAhead
  /\ pc = "leave_field" => cur \in AfterField
  /\ pc = "item" => cur \in ItemAhead
  /\ pc = "item_assign" => cur \in InItem
  /\ pc = "item_value" => cur \in Before({"lit"}, AfterItem)
  /\ pc = "leave_item" => cur \in AfterItem

Ahead == AheadReference /\ AheadType /\ AheadDecl /\ AheadMember

\* What is before R starts with the token before it.
LEMMA BeforeFacts ==
  ASSUME NEW S, NEW R, NEW x \in Before(S, R)
  PROVE  x \in Nat /\ tokens[x + 1] \in S /\ x + 1 \in R
BY DEF Before

\* Two tokens before R.
LEMMA BeforeTwo ==
  ASSUME NEW S, NEW T, NEW R, NEW x \in Before(S, Before(T, R))
  PROVE  x \in Nat /\ tokens[x + 1] \in S /\ tokens[x + 2] \in T /\ x + 2 \in R
<1>1. x \in Nat /\ tokens[x + 1] \in S /\ x + 1 \in Before(T, R)
  BY BeforeFacts
<1>2. tokens[(x + 1) + 1] \in T /\ (x + 1) + 1 \in R
  BY <1>1, BeforeFacts
<1>3. (x + 1) + 1 = x + 2
  BY <1>1
<1> QED
  BY <1>1, <1>2, <1>3

\* What the next token says about the rest of a program,
LEMMA RestToken ==
  ASSUME TypeOK, NEW x \in Rest
  PROVE  /\ tokens[x + 1] \in {"End", "class", "struct", "enum", "import"}
         /\ tokens[x + 1] \in {"class", "struct"} => tokens[x + 2] \in Names /\ x + 2 \in RecordBodyAhead
         /\ tokens[x + 1] = "enum" => tokens[x + 2] \in Names /\ x + 2 \in BaseClauseAhead
         /\ tokens[x + 1] = "import" => x + 1 \in RefAhead["import"]
<1>1. CASE x \in Before({"End"}, {Len(tokens)})
  <2>1. tokens[x + 1] \in {"End"}
    BY <1>1, BeforeFacts
  <2> QED
    BY <2>1
<1>2. CASE x \in Before({"class", "struct"}, Before(Names, RecordBodyAhead))
  <2>1. tokens[x + 1] \in {"class", "struct"} /\ tokens[x + 2] \in Names /\ x + 2 \in RecordBodyAhead
    BY <1>2, BeforeTwo
  <2> QED
    BY <2>1
<1>3. CASE x \in Before({"enum"}, Before(Names, BaseClauseAhead))
  <2>1. tokens[x + 1] \in {"enum"} /\ tokens[x + 2] \in Names /\ x + 2 \in BaseClauseAhead
    BY <1>3, BeforeTwo
  <2> QED
    BY <2>1
<1>4. CASE x \in Before({"import"}, RefAhead["import"])
  <2>1. tokens[x + 1] \in {"import"} /\ x + 1 \in RefAhead["import"]
    BY <1>4, BeforeFacts
  <2> QED
    BY <2>1
<1> QED
  BY <1>1, <1>2, <1>3, <1>4, RestAhead DEF StartAhead

\* of a body,
LEMMA BodyToken ==
  ASSUME TypeOK, NEW x
  PROVE  /\ x \in AfterField => \/ tokens[x + 1] = "RBrace" /\ x \in Closing
                                \/ tokens[x + 1] = "Comma" /\ x + 1 \in FieldAhead
         /\ x \in AfterItem => \/ tokens[x + 1] = "RBrace" /\ x \in Closing
                               \/ tokens[x + 1] = "Comma" /\ x + 1 \in ItemAhead
<1>1. ASSUME x \in Closing PROVE tokens[x + 1] = "RBrace"
  <2>1. tokens[x + 1] \in {"RBrace"}
    BY <1>1, BeforeFacts DEF Closing
  <2> QED
    BY <2>1
<1>2. ASSUME NEW R, x \in Before({"Comma"}, R) PROVE tokens[x + 1] = "Comma" /\ x + 1 \in R
  <2>1. tokens[x + 1] \in {"Comma"} /\ x + 1 \in R
    BY <1>2, BeforeFacts
  <2> QED
    BY <2>1
<1> QED
  BY <1>1, <1>2, FieldsAhead, ItemsAhead

\* of a type,
LEMMA TypeToken ==
  ASSUME TypeOK, NEW x \in InType
  PROVE  \/ tokens[x + 1] \in {"RBrace", "Comma"} /\ x \in AfterField
         \/ tokens[x + 1] = "LBracket" /\ tokens[x + 2] = "RBracket" /\ x + 2 \in InType
<1>1. CASE x \in AfterField
  BY <1>1, BodyToken
<1>2. CASE x \in Before({"LBracket"}, Before({"RBracket"}, InType))
  <2>1. tokens[x + 1] \in {"LBracket"} /\ tokens[x + 2] \in {"RBracket"} /\ x + 2 \in InType
    BY <1>2, BeforeTwo
  <2> QED
    BY <2>1
<1> QED
  BY <1>1, <1>2, TypesAhead

\* of what follows a reference,
LEMMA AfterToken ==
  ASSUME TypeOK, NEW c \in Callers, NEW x \in After[c]
  PROVE  tokens[x + 1] \in {"Semicolon", "RBrace", "Comma", "LBracket", "LBrace"}
<1>1. CASE c \in {"module", "import"}
  <2>1. tokens[x + 1] \in {"Semicolon"}
    BY <1>1, AfterFacts, BeforeFacts DEF RestSemi
  <2> QED
    BY <2>1
<1>2. CASE c = "field"
  BY <1>2, AfterFacts, TypeToken
<1>3. CASE c = "base"
  <2>1. tokens[x + 1] \in {"LBrace"}
    BY <1>3, AfterFacts, BeforeFacts DEF EnumBodyAhead
  <2> QED
    BY <2>1
<1> QED
  BY <1>1, <1>2, <1>3 DEF Callers

\* and of a name.
LEMMA NameToken ==
  ASSUME TypeOK, NEW c \in Callers, NEW x \in NameAhead[c]
  PROVE  /\ tokens[x + 1] \in Names
         /\ \/ tokens[x + 2] # "Dot" /\ x + 1 \in After[c]
            \/ tokens[x + 2] = "Dot" /\ x + 2 \in NameAhead[c]
<1> DEFINE L == Leads(DottedTail, After[c])
<1>1. NameAhead[c] = Before(Names, L)
  BY DEF NameAhead
<1> HIDE DEF L
<1>2. x \in Nat /\ tokens[x + 1] \in Names /\ x + 1 \in L
  BY <1>1, BeforeFacts
<1>3. (x + 1) + 1 = x + 2
  BY <1>2
<1>4. x + 1 \in After[c] \/ x + 1 \in Before({"Dot"}, NameAhead[c])
  BY <1>1, <1>2, DottedAhead DEF L
<1>5. CASE x + 1 \in After[c]
  <2>1. tokens[(x + 1) + 1] \in {"Semicolon", "RBrace", "Comma", "LBracket", "LBrace"}
    BY <1>5, AfterToken
  <2> QED
    BY <1>2, <1>3, <1>5, <2>1
<1>6. CASE x + 1 \in Before({"Dot"}, NameAhead[c])
  <2>1. tokens[(x + 1) + 1] \in {"Dot"} /\ (x + 1) + 1 \in NameAhead[c]
    BY <1>6, BeforeFacts
  <2> QED
    BY <1>2, <1>3, <2>1
<1> QED
  BY <1>4, <1>5, <1>6

Going == TypeOK /\ EndNotConsumed /\ Silent /\ InGrammar /\ Places /\ Ahead

\* No allocation fails in a step that leaves the number of failures alone.
LEMMA NothingFails ==
  ASSUME TypeOK, oom' = oom
  PROVE  \A to : ~OutOfMemory(to)
BY DEF TypeOK, OutOfMemory

\* The identifiers are none of the tokens the parser asks for by name.
LEMMA NamesApart ==
  /\ {"module", "class", "struct", "enum", "import", "as", "ScopeOp", "type", "End"} \cap Names = {}
  /\ {"Semicolon", "RBrace", "Comma", "LBracket", "LBrace"} \cap Names = {}
BY NamesAssumption DEF Kinds

\* The steps at a reference find what they expect.
LEMMA AheadAtReference ==
  ASSUME Going, UNCHANGED tokens, oom' = oom,
         \/ ParseProgram \/ ModuleSemi \/ IdRefScope \/ IdRefName
         \/ BeginImport \/ ImportMember \/ ImportSemi
  PROVE  Silent' /\ Ahead'
<1>0. TypeOK /\ \A to : ~OutOfMemory(to)
  BY NothingFails DEF Going
<1>s. Silent /\ Ahead
  BY DEF Going
<1>c. ctx \in Callers /\ cur \in Nat
  BY <1>0 DEF TypeOK, Callers
<1>1. CASE ParseProgram
  <2>1. cur \in Rest \/ cur \in ModuleAhead
    BY <1>1, <1>s DEF ParseProgram, Ahead, AheadReference
  <2>2. cur \in Rest => Tok # "module"
    BY <1>0, RestToken DEF Tok
  <2>3. cur \in ModuleAhead => Tok = "module" /\ cur + 1 \in RefAhead["module"]
    <3>1. cur \in ModuleAhead => Tok \in {"module"} /\ cur + 1 \in RefAhead["module"]
      BY BeforeFacts DEF ModuleAhead, Tok
    <3> QED
      BY <3>1
  <2>4. /\ Silent'
        /\ \/ cur \in Rest /\ cur' = cur /\ pc' = "stmt"
           \/ cur' \in RefAhead["module"] /\ pc' = "id_ref" /\ ctx' = "module"
    BY <1>1, <1>s, <2>1, <2>2, <2>3 DEF ParseProgram, Goto, Consume, Silent
  <2> QED
    BY <2>4, AheadFrame DEF Ahead, AheadReference, AheadType, AheadDecl, AheadMember
<1>2. CASE ModuleSemi
  <2>1. cur \in RestSemi
    BY <1>2, <1>s DEF ModuleSemi, Ahead, AheadReference
  <2>2. Tok \in {"Semicolon"} /\ cur + 1 \in Rest
    BY <2>1, BeforeFacts DEF RestSemi, Tok
  <2>3. Silent' /\ cur' \in Rest /\ pc' = "stmt"
    BY <1>2, <1>s, <2>2 DEF ModuleSemi, Goto, Consume, Silent
  <2> QED
    BY <2>3, AheadFrame DEF Ahead, AheadReference, AheadType, AheadDecl, AheadMember
<1>3. CASE IdRefScope
  <2>1. cur \in RefAhead[ctx]
    BY <1>3, <1>s DEF IdRefScope, Ahead, AheadReference
  <2>2. cur \in NameAhead[ctx] \/ cur \in Before({"ScopeOp"}, NameAhead[ctx])
    BY <1>c, <2>1 DEF RefAhead
  <2>3. cur \in NameAhead[ctx] => Tok # "ScopeOp"
    <3>1. cur \in NameAhead[ctx] => Tok \in Names
      BY <1>0, <1>c, NameToken DEF Tok
    <3> QED
      BY <3>1, NamesApart
  <2>4. cur \in Before({"ScopeOp"}, NameAhead[ctx]) => Tok = "ScopeOp" /\ cur + 1 \in NameAhead[ctx]
    <3>1. cur \in Before({"ScopeOp"}, NameAhead[ctx]) => Tok \in {"ScopeOp"} /\ cur + 1 \in NameAhead[ctx]
      BY BeforeFacts DEF Tok
    <3> QED
      BY <3>1
  <2>5. Silent' /\ cur' \in NameAhead[ctx] /\ pc' = "id_ref_name" /\ ctx' = ctx
    BY <1>3, <1>0, <1>s, <2>2, <2>3, <2>4 DEF IdRefScope, Goto, Silent
  <2> QED
    BY <2>5, AheadFrame DEF Ahead, AheadReference, AheadType, AheadDecl, AheadMember
<1>4. CASE IdRefName
  <2>1. cur \in NameAhead[ctx]
    BY <1>4, <1>s DEF IdRefName, Ahead, AheadReference
  <2>2. /\ Tok \in Names
        /\ \/ Tok2 # "Dot" /\ cur + 1 \in After[ctx]
           \/ Tok2 = "Dot" /\ cur + 2 \in NameAhead[ctx]
    BY <1>0, <1>c, <2>1, NameToken DEF Tok, Tok2
  <2>3. /\ Silent' /\ ctx' = ctx
        /\ \/ cur' \in NameAhead[ctx] /\ pc' = "id_ref_name"
           \/ cur' \in After[ctx] /\ pc' = Return[ctx]
    BY <1>4, <1>0, <1>s, <2>2 DEF IdRefName, Goto, Consume, Silent
  <2>4. CASE cur' \in NameAhead[ctx] /\ pc' = "id_ref_name"
    BY <2>3, <2>4, AheadFrame DEF Ahead, AheadReference, AheadType, AheadDecl, AheadMember
  <2>5. CASE cur' \in After[ctx] /\ pc' = Return[ctx]
    <3>1. \/ pc' = "module_semi" /\ cur' \in RestSemi
          \/ pc' = "import_member" /\ cur' \in RestSemi
          \/ pc' = "custom_type"
      BY <1>c, <2>5, AfterFacts DEF Return, Callers
    <3> QED
      BY <2>3, <2>5, <3>1, AheadFrame DEF Ahead, AheadReference, AheadType, AheadDecl, AheadMember
  <2> QED
    BY <2>3, <2>4, <2>5
<1>5. CASE BeginImport
  <2>1. cur \in Rest /\ Tok = "import"
    BY <1>5, <1>s DEF BeginImport, Ahead, AheadDecl
  <2>2. cur + 1 \in RefAhead["import"]
    BY <1>0, <2>1, RestToken DEF Tok
  <2>3. Silent' /\ cur' \in RefAhead["import"] /\ pc' = "id_ref" /\ ctx' = "import"
    BY <1>5, <1>0, <1>s, <2>2 DEF BeginImport, Goto, Consume, Silent
  <2> QED
    BY <2>3, AheadFrame DEF Ahead, AheadReference, AheadType, AheadDecl, AheadMember
<1>6. CASE ImportMember
  <2>1. cur \in RestSemi
    BY <1>6, <1>s DEF ImportMember, Ahead, AheadReference
  <2>2. Tok \in {"Semicolon"}
    BY <2>1, BeforeFacts DEF RestSemi, Tok
  <2>3. Silent' /\ cur' = cur /\ pc' = "import_semi"
    BY <1>6, <1>0, <1>s, <2>2 DEF ImportMember, Goto, Silent
  <2> QED
    BY <2>1, <2>3, AheadFrame DEF Ahead, AheadReference, AheadType, AheadDecl, AheadMember
<1>7. CASE ImportSemi
  <2>1. cur \in RestSemi
    BY <1>7, <1>s DEF ImportSemi, Ahead, AheadReference
  <2>2. Tok \in {"Semicolon"} /\ cur + 1 \in Rest
    BY <2>1, BeforeFacts DEF RestSemi, Tok
  <2>3. Silent' /\ cur' \in Rest /\ pc' = "stmt"
    BY <1>7, <1>s, <2>2 DEF ImportSemi, Goto, Consume, Silent
  <2> QED
    BY <2>3, AheadFrame DEF Ahead, AheadReference, AheadType, AheadDecl, AheadMember
<1> QED
  BY <1>1, <1>2, <1>3, <1>4, <1>5, <1>6, <1>7

\* The steps at a type find what they expect.
LEMMA AheadAtType ==
  ASSUME Going, UNCHANGED tokens, oom' = oom, InEnum' = InEnum,
         TypeName \/ CustomType \/ TypeSuffix \/ BaseColon \/ FieldColon
  PROVE  Silent' /\ Ahead'
<1>0. TypeOK /\ \A to : ~OutOfMemory(to)
  BY NothingFails DEF Going
<1>s. Silent /\ Ahead /\ KindsAgree
  BY DEF Going, InGrammar
<1>c. ctx \in Callers /\ cur \in Nat
  BY <1>0 DEF TypeOK, Callers
<1>1. CASE TypeName
  <2>1. cur \in TypeAhead[ctx]
    BY <1>1, <1>s DEF TypeName, Ahead, AheadType
  <2>2. cur \in Before({"type"}, After[ctx]) \/ cur \in NameAhead[ctx]
    BY <1>c, <2>1 DEF TypeAhead
  <2>3. cur \in NameAhead[ctx] => Tok \in Names /\ cur \in RefAhead[ctx]
    BY <1>0, <1>c, NameToken DEF Tok, RefAhead
  <2>4. cur \in Before({"type"}, After[ctx]) => Tok \in {"type"} /\ cur + 1 \in After[ctx]
    BY BeforeFacts DEF Tok
  <2>5. "type" \notin Names
    BY NamesApart
  <2>6. /\ Silent' /\ ctx' = ctx
        /\ \/ cur' \in After[ctx] /\ pc' = "suffix"
           \/ cur' \in RefAhead[ctx] /\ pc' = "id_ref"
    BY <1>1, <1>0, <1>s, <2>2, <2>3, <2>4, <2>5 DEF TypeName, Goto, Consume, Silent
  <2> QED
    BY <2>6, AheadFrame DEF Ahead, AheadReference, AheadType, AheadDecl, AheadMember
<1>2. CASE CustomType
  <2>1. cur \in After[ctx]
    BY <1>2, <1>s DEF CustomType, Ahead, AheadType
  <2>2. Silent' /\ ctx' = ctx /\ cur' = cur /\ pc' = "suffix"
    BY <1>2, <1>0, <1>s DEF CustomType, Goto, Silent
  <2> QED
    BY <2>1, <2>2, AheadFrame DEF Ahead, AheadReference, AheadType, AheadDecl, AheadMember
<1>3. CASE TypeSuffix
  <2>1. cur \in After[ctx] /\ pc = "suffix"
    BY <1>3, <1>s DEF TypeSuffix, Ahead, AheadType
  <2>2. CASE ctx = "base"
    <3>1. cur \in EnumBodyAhead /\ InEnum
      BY <1>s, <2>1, <2>2, AfterFacts DEF KindsAgree, TypePlaces
    <3>2. Silent' /\ cur' = cur /\ pc' = "body_open"
      BY <1>3, <1>s, <2>2 DEF TypeSuffix, Goto, Silent
    <3> QED
      BY <3>1, <3>2, AheadFrame DEF Ahead, AheadReference, AheadType, AheadDecl, AheadMember
  <2>3. CASE ctx = "field"
    <3>1. cur \in InType
      BY <2>1, <2>3, AfterFacts
    <3>2. \/ Tok \in {"RBrace", "Comma"} /\ cur \in AfterField
          \/ Tok = "LBracket" /\ Tok2 = "RBracket" /\ cur + 2 \in InType
      BY <1>0, <3>1, TypeToken DEF Tok, Tok2
    <3>3. /\ Silent' /\ ctx' = "field"
          /\ \/ cur' \in AfterField /\ pc' = "leave_field"
             \/ cur' \in After["field"] /\ pc' = "suffix"
      BY <1>3, <1>0, <1>s, <2>3, <3>2, AfterFacts DEF TypeSuffix, Goto, Consume, Silent
    <3> QED
      BY <3>3, AheadFrame DEF Ahead, AheadReference, AheadType, AheadDecl, AheadMember
  <2> QED
    BY <1>3, <2>2, <2>3 DEF TypeSuffix
<1>4. CASE BaseColon
  <2>1. cur \in BaseClauseAhead
    BY <1>4, <1>s DEF BaseColon, Ahead, AheadDecl
  <2>2. Tok \in {"Colon"} /\ cur + 1 \in TypeAhead["base"]
    BY <2>1, BeforeFacts DEF BaseClauseAhead, Tok
  <2>3. Silent' /\ cur' \in TypeAhead["base"] /\ pc' = "type" /\ ctx' = "base"
    BY <1>4, <1>s, <2>2 DEF BaseColon, Goto, Consume, Silent
  <2> QED
    BY <2>3, AheadFrame DEF Ahead, AheadReference, AheadType, AheadDecl, AheadMember
<1>5. CASE FieldColon
  <2>1. cur \in ColonAhead
    BY <1>5, <1>s DEF FieldColon, Ahead, AheadMember
  <2>2. Tok \in {"Colon"} /\ cur + 1 \in TypeAhead["field"]
    BY <2>1, BeforeFacts DEF ColonAhead, Tok
  <2>3. Silent' /\ cur' \in TypeAhead["field"] /\ pc' = "type" /\ ctx' = "field"
    BY <1>5, <1>s, <2>2 DEF FieldColon, Goto, Consume, Silent
  <2> QED
    BY <2>3, AheadFrame DEF Ahead, AheadReference, AheadType, AheadDecl, AheadMember
<1> QED
  BY <1>1, <1>2, <1>3, <1>4, <1>5

\* The steps at a field or an item find what they expect.
LEMMA AheadAtMember ==
  ASSUME Going, UNCHANGED tokens, oom' = oom, InEnum' = InEnum,
         FieldName \/ LeaveField \/ ItemName \/ ItemAssign \/ ItemValue \/ LeaveItem \/ Comma
  PROVE  Silent' /\ Ahead'
<1>0. TypeOK /\ \A to : ~OutOfMemory(to)
  BY NothingFails DEF Going
<1>s. Silent /\ Ahead /\ KindsAgree
  BY DEF Going, InGrammar
<1>1. CASE FieldName
  <2>1. cur \in FieldAhead
    BY <1>1, <1>s DEF FieldName, Ahead, AheadMember
  <2>2. Tok \in Names /\ cur + 1 \in ColonAhead
    BY <2>1, BeforeFacts DEF FieldAhead, Tok
  <2>3. Silent' /\ cur' \in ColonAhead /\ pc' = "field_colon"
    BY <1>1, <1>0, <1>s, <2>2 DEF FieldName, Goto, Consume, Silent
  <2> QED
    BY <2>3, AheadFrame DEF Ahead, AheadReference, AheadType, AheadDecl, AheadMember
<1>2. CASE LeaveField
  <2>1. cur \in AfterField /\ ~InEnum
    BY <1>2, <1>s DEF LeaveField, Ahead, AheadMember, KindsAgree
  <2>2. Silent' /\ cur' = cur /\ pc' = "member"
    BY <1>2, <1>s DEF LeaveField, Goto, Silent
  <2> QED
    BY <2>1, <2>2, AheadFrame DEF Ahead, AheadReference, AheadType, AheadDecl, AheadMember
<1>3. CASE ItemName
  <2>1. cur \in ItemAhead
    BY <1>3, <1>s DEF ItemName, Ahead, AheadMember
  <2>2. Tok \in Names /\ cur + 1 \in InItem
    BY <2>1, BeforeFacts DEF ItemAhead, Tok
  <2>3. Silent' /\ cur' \in InItem /\ pc' = "item_assign"
    BY <1>3, <1>0, <1>s, <2>2 DEF ItemName, Goto, Consume, Silent
  <2> QED
    BY <2>3, AheadFrame DEF Ahead, AheadReference, AheadType, AheadDecl, AheadMember
<1>4. CASE ItemAssign
  <2>1. cur \in AfterItem \/ cur \in Before({"AssignOp"}, Before({"lit"}, AfterItem))
    BY <1>4, <1>s DEF ItemAssign, Ahead, AheadMember, InItem
  <2>2. cur \in AfterItem => Tok # "AssignOp"
    BY <1>0, BodyToken DEF Tok
  <2>3. cur \in Before({"AssignOp"}, Before({"lit"}, AfterItem)) =>
          Tok \in {"AssignOp"} /\ cur + 1 \in Before({"lit"}, AfterItem)
    BY BeforeFacts DEF Tok
  <2>4. /\ Silent'
        /\ \/ cur' \in AfterItem /\ pc' = "leave_item"
           \/ cur' \in Before({"lit"}, AfterItem) /\ pc' = "item_value"
    BY <1>4, <1>s, <2>1, <2>2, <2>3 DEF ItemAssign, Goto, Consume, Silent
  <2> QED
    BY <2>4, AheadFrame DEF Ahead, AheadReference, AheadType, AheadDecl, AheadMember
<1>5. CASE ItemValue
  <2>1. cur \in Before({"lit"}, AfterItem)
    BY <1>5, <1>s DEF ItemValue, Ahead, AheadMember
  <2>2. Tok \in {"lit"} /\ cur + 1 \in AfterItem
    BY <2>1, BeforeFacts DEF Tok
  <2>3. Silent' /\ cur' \in AfterItem /\ pc' = "leave_item"
    BY <1>5, <1>0, <1>s, <2>2 DEF ItemValue, Goto, Consume, Silent
  <2> QED
    BY <2>3, AheadFrame DEF Ahead, AheadReference, AheadType, AheadDecl, AheadMember
<1>6. CASE LeaveItem
  <2>1. cur \in AfterItem /\ InEnum
    BY <1>6, <1>s DEF LeaveItem, Ahead, AheadMember, KindsAgree
  <2>2. Silent' /\ cur' = cur /\ pc' = "member"
    BY <1>6, <1>s DEF LeaveItem, Goto, Silent
  <2> QED
    BY <2>1, <2>2, AheadFrame DEF Ahead, AheadReference, AheadType, AheadDecl, AheadMember
<1>7. CASE Comma
  <2>1. cur \in (IF InEnum THEN AfterItem ELSE AfterField)
    BY <1>7, <1>s DEF Comma, Ahead, AheadDecl
  <2>2. \/ Tok = "RBrace" /\ cur \in Closing
        \/ Tok = "Comma" /\ cur + 1 \in (IF InEnum THEN ItemAhead ELSE FieldAhead)
    BY <1>0, <2>1, BodyToken DEF Tok
  <2>3. /\ Silent'
        /\ \/ cur' \in Closing /\ pc' = "body_close"
           \/ InEnum /\ cur' \in ItemAhead /\ pc' = "item"
           \/ ~InEnum /\ cur' \in FieldAhead /\ pc' = "field"
    BY <1>7, <1>s, <2>2 DEF Comma, Goto, Consume, Silent
  <2> QED
    BY <2>3, AheadFrame DEF Ahead, AheadReference, AheadType, AheadDecl, AheadMember
<1> QED
  BY <1>1, <1>2, <1>3, <1>4, <1>5, <1>6, <1>7

\* The steps around the body of a declaration, and the end, find what they expect.
LEMMA AheadAtDecl ==
  ASSUME Going, UNCHANGED tokens, oom' = oom, InEnum' = InEnum,
         BodyOpen \/ BodyClose \/ LeaveBody \/ Finish \/ DestroyParser \/ Terminating
  PROVE  Silent' /\ Ahead'
<1>s. Silent /\ Ahead
  BY DEF Going
<1>1. CASE BodyOpen
  <2>1. cur \in (IF InEnum THEN EnumBodyAhead ELSE RecordBodyAhead)
    BY <1>1, <1>s DEF BodyOpen, Ahead, AheadDecl
  <2>2. Tok \in {"LBrace"} /\ cur + 1 \in (IF InEnum THEN ItemAhead ELSE FieldAhead)
    BY <2>1, BeforeFacts DEF EnumBodyAhead, RecordBodyAhead, Tok
  <2>3. /\ Silent'
        /\ \/ InEnum /\ cur' \in ItemAhead /\ pc' = "item"
           \/ ~InEnum /\ cur' \in FieldAhead /\ pc' = "field"
    BY <1>1, <1>s, <2>2 DEF BodyOpen, Goto, Consume, Silent
  <2> QED
    BY <2>3, AheadFrame DEF Ahead, AheadReference, AheadType, AheadDecl, AheadMember
<1>2. CASE BodyClose
  <2>1. cur \in Closing
    BY <1>2, <1>s DEF BodyClose, Ahead, AheadDecl
  <2>2. Tok \in {"RBrace"} /\ cur + 1 \in Rest
    BY <2>1, BeforeFacts DEF Closing, Tok
  <2>3. Silent' /\ cur' \in Rest /\ pc' = "leave_body"
    BY <1>2, <1>s, <2>2 DEF BodyClose, Goto, Consume, Silent
  <2> QED
    BY <2>3, AheadFrame DEF Ahead, AheadReference, AheadType, AheadDecl, AheadMember
<1>3. CASE LeaveBody
  <2>1. cur \in Rest
    BY <1>3, <1>s DEF LeaveBody, Ahead, AheadDecl
  <2>2. Silent' /\ cur' = cur /\ pc' = "decl_index"
    BY <1>3, <1>s DEF LeaveBody, Goto, Silent
  <2> QED
    BY <2>1, <2>2, AheadFrame DEF Ahead, AheadReference, AheadType, AheadDecl, AheadMember
<1>4. CASE Finish \/ DestroyParser \/ Terminating
  <2>1. Silent' /\ pc' \in {"returned", "crashed", "aborted", "destroyed"}
    BY <1>4, <1>s DEF Finish, DestroyParser, Terminating, Ended, vars, Goto, Silent
  <2> QED
    BY <2>1 DEF Ahead, AheadReference, AheadType, AheadDecl, AheadMember
<1> QED
  BY <1>1, <1>2, <1>3, <1>4

\* The first tokens of a declaration are there.
LEMMA AheadAtStart ==
  ASSUME Going, UNCHANGED tokens, oom' = oom,
         NEW k \in {"class", "struct", "enum"}, BeginDecl(k),
         nodes'[Len(nodes) + 1].kind = k
  PROVE  Silent' /\ Ahead'
<1>0. TypeOK /\ \A to : ~OutOfMemory(to)
  BY NothingFails DEF Going
<1>s. Silent /\ Ahead
  BY DEF Going
<1>1. cur \in Rest /\ Tok = k
  BY <1>s DEF BeginDecl, Ahead, AheadDecl
<1>2. /\ Tok2 \in Names
      /\ cur + 2 \in (IF k = "enum" THEN BaseClauseAhead ELSE RecordBodyAhead)
  BY <1>0, <1>1, RestToken DEF Tok, Tok2
<1>3. /\ Silent' /\ cur' = cur + 2 /\ decl' = Len(nodes) + 1
      /\ pc' = IF k = "enum" THEN "base_colon" ELSE "body_open"
  BY <1>0, <1>s, <1>2 DEF BeginDecl, Goto, Consume, Silent
<1>4. InEnum' <=> k = "enum"
  BY <1>3 DEF InEnum
<1> QED
  BY <1>2, <1>3, <1>4, AheadFrame DEF Ahead, AheadReference, AheadType, AheadDecl, AheadMember

\* Of the steps that are left some cannot be taken.
LEMMA NothingCaught ==
  ASSUME Going
  PROVE  ~CatchModule /\ ~CatchField /\ ~CatchStmt /\ ~NotADecl
<1>1. TypeOK /\ Ahead
  BY DEF Going
<1>2. pc = "stmt" => Tok \in {"End", "class", "struct", "enum", "import"}
  BY <1>1, RestToken DEF Ahead, AheadDecl, Tok
<1> QED
  BY <1>1, <1>2 DEF Ahead, AheadReference, CatchModule, CatchField, CatchStmt, NotADecl

-----------------------------------------------------------------------------
(* A clash of two members stays: no step takes a member away or renames one. *)

KeepsMembers(ns, ns2) ==
  \A p \in 1 .. Len(ns) : \A i \in 1 .. Len(ns[p].members) :
    i \in 1 .. Len(ns2[p].members) /\ ns2[p].members[i] = ns[p].members[i]

Grows(ns, ns2) == KeepsNames(ns, ns2) /\ KeepsMembers(ns, ns2)

\* Two steps that take nothing away take nothing away.
LEMMA GrowsTrans ==
  ASSUME NEW a \in Seq(Node), NEW b, NEW c, Grows(a, b), Grows(b, c)
  PROVE  Grows(a, c)
<1>1. KeepsNames(a, c)
  BY KeepsTrans DEF Grows
<1>2. \A p \in 1 .. Len(a) : p \in 1 .. Len(b)
  BY DEF Grows, KeepsNames
<1>3. KeepsMembers(a, c)
  <2> SUFFICES ASSUME NEW p \in 1 .. Len(a), NEW i \in 1 .. Len(a[p].members)
               PROVE  i \in 1 .. Len(c[p].members) /\ c[p].members[i] = a[p].members[i]
    BY DEF KeepsMembers
  <2>1. i \in 1 .. Len(b[p].members) /\ b[p].members[i] = a[p].members[i]
    BY DEF Grows, KeepsMembers
  <2>2. p \in 1 .. Len(b)
    BY <1>2
  <2>3. i \in 1 .. Len(c[p].members) /\ c[p].members[i] = b[p].members[i]
    BY <2>1, <2>2 DEF Grows, KeepsMembers
  <2> QED
    BY <2>1, <2>3
<1> QED
  BY <1>1, <1>3 DEF Grows

\* A new node.
LEMMA GrowsAppend ==
  ASSUME NEW ns \in Seq(Node), NEW name \in Keys,
         NEW k \in {"root", "class", "struct", "enum", "import", "var", "item"}
  PROVE  Grows(ns, Append(ns, NewNode(k, name)))
<1> DEFINE ns2 == Append(ns, NewNode(k, name))
<1>1. \A q \in 1 .. Len(ns) : ns2[q] = ns[q]
  BY NewNodeType, AppendType
<1>2. KeepsNames(ns, ns2)
  BY KeepsAppend
<1> HIDE DEF ns2
<1>3. KeepsMembers(ns, ns2)
  BY <1>1 DEF KeepsMembers
<1> QED
  BY <1>2, <1>3 DEF Grows, ns2

\* A new member.
LEMMA GrowsPush ==
  ASSUME NEW ns \in Seq(Node), NEW p \in 1 .. Len(ns), NEW m \in Nat
  PROVE  Grows(ns, PushMember(ns, p, m))
<1>1. KeepsMembers(ns, PushMember(ns, p, m))
  <2> SUFFICES ASSUME NEW q \in 1 .. Len(ns), NEW i \in 1 .. Len(ns[q].members)
               PROVE  /\ i \in 1 .. Len(PushMember(ns, p, m)[q].members)
                      /\ PushMember(ns, p, m)[q].members[i] = ns[q].members[i]
    BY DEF KeepsMembers
  <2>1. PushMember(ns, p, m)[q].members
          = IF q = p THEN Append(ns[q].members, m) ELSE ns[q].members
    BY PushMemberEffect
  <2>2. ns[q].members \in Seq(Nat)
    BY MembersType
  <2>3. CASE q = p
    <3>1. PushMember(ns, p, m)[q].members = Append(ns[q].members, m)
      BY <2>1, <2>3
    <3>2. /\ i \in 1 .. Len(Append(ns[q].members, m))
          /\ Append(ns[q].members, m)[i] = ns[q].members[i]
      BY <2>2
    <3> QED
      BY <3>1, <3>2
  <2>4. CASE q # p
    BY <2>1, <2>4
  <2> QED
    BY <2>3, <2>4
<1> QED
  BY <1>1, KeepsPush DEF Grows

\* A new entry of an index.
LEMMA GrowsIndex ==
  ASSUME NEW ns \in Seq(Node), NEW p \in 1 .. Len(ns), NEW i \in Nat
  PROVE  Grows(ns, IndexMember(ns, p, i))
<1>1. ASSUME NEW q \in 1 .. Len(ns)
      PROVE  IndexMember(ns, p, i)[q].members = ns[q].members
  <2> DEFINE ns2 == IndexMember(ns, p, i)
  <2>1. /\ ns2[q].members = ns[q].members
        /\ ns2[q].index = IF q = p THEN [ns[q].index EXCEPT ![ns[ns[p].members[i]].name] = i]
                         ELSE ns[q].index
    BY IndexMemberEffect
  <2> QED
    BY <2>1
<1>2. KeepsMembers(ns, IndexMember(ns, p, i))
  BY <1>1 DEF KeepsMembers
<1> QED
  BY <1>2, KeepsIndex DEF Grows

\* What is written elsewhere.
LEMMA GrowsLinks ==
  ASSUME NEW ns \in Seq(Node), NEW ns2, SameLinks(ns, ns2)
  PROVE  Grows(ns, ns2)
<1>1. KeepsMembers(ns, ns2)
  BY DEF KeepsMembers, SameLinks
<1> QED
  BY <1>1, KeepsLinks DEF Grows

\* A new member of the root.
LEMMA GrowsNewMember ==
  ASSUME NEW ns \in Seq(Node), Root \in 1 .. Len(ns), NEW name \in Keys,
         NEW k \in {"root", "class", "struct", "enum", "import", "var", "item"}
  PROVE  LET n == Len(ns) + 1
             i == Len(ns[Root].members) + 1
             ns2 == PushMember(Append(ns, NewNode(k, name)), Root, n)
         IN  Grows(ns, ns2) /\ Grows(ns, IndexMember(ns2, Root, i))
<1> DEFINE n == Len(ns) + 1
           i == Len(ns[Root].members) + 1
           ns1 == Append(ns, NewNode(k, name))
           ns2 == PushMember(ns1, Root, n)
           ns3 == IndexMember(ns2, Root, i)
<1>1. Grows(ns, ns1)
  BY GrowsAppend
<1>2. ns1 \in Seq(Node) /\ Len(ns1) = n
  BY NewNodeType, AppendType
<1>3. n \in Nat /\ i \in Nat /\ Root \in 1 .. n
  BY MembersType
<1> HIDE DEF ns1, n, i
<1>4. Grows(ns1, ns2)
  BY <1>2, <1>3, GrowsPush
<1>5. ns2 \in Seq(Node) /\ Len(ns2) = n
  BY <1>2, <1>3, PushMemberType
<1> HIDE DEF ns2
<1>6. Grows(ns2, ns3)
  BY <1>3, <1>5, GrowsIndex
<1> HIDE DEF ns3
<1>7. Grows(ns, ns2)
  BY <1>1, <1>4, GrowsTrans
<1>8. Grows(ns, ns3)
  BY <1>6, <1>7, GrowsTrans
<1> QED
  BY <1>7, <1>8 DEF ns1, ns2, ns3, n, i

\* Every step of the parser takes nothing away.
LEMMA NodesGrow ==
  ASSUME TypeOK, Next
  PROVE  Grows(nodes, nodes')
<1>a. /\ nodes \in Seq(Node) /\ Root \in 1 .. Len(nodes)
      /\ decl \in 1 .. Len(nodes) /\ decl \in Nat
      /\ field \in 0 .. Len(nodes) /\ field \in Nat
      /\ slot \in Nat /\ TypeOwner \in Nat
  BY AstTypes
<1>b. Names \subseteq Keys /\ "" \in Keys
  BY NamesAreNotKinds
<1>s. ASSUME SameLinks(nodes, nodes')
      PROVE  Grows(nodes, nodes')
  BY <1>a, <1>s, GrowsLinks
<1>u. ASSUME UNCHANGED nodes
      PROVE  Grows(nodes, nodes')
  BY <1>a, <1>u DEF Grows, KeepsNames, KeepsMembers, SameName
<1>w. ASSUME NEW name \in Keys, NEW k \in {"var", "item"},
             nodes' = Append(nodes, NewNode(k, name))
      PROVE  Grows(nodes, nodes')
  BY <1>a, <1>w, GrowsAppend
<1>0. CASE ControlStep
  BY <1>0, <1>u DEF ControlStep, ParseProgram, CatchModule, ModuleSemi, IdRefScope, IdRefName,
     BaseColon, BodyOpen, FieldColon, CatchField, ItemAssign, Comma, BodyClose,
     BeginImport, ImportSemi, NotADecl, CatchStmt, Finish, DestroyParser, Terminating, vars
<1>1. CASE \/ TypeName \/ CustomType \/ TypeSuffix \/ LeaveField \/ ItemValue \/ LeaveItem
           \/ LeaveBody
  <2>1. \/ UNCHANGED nodes
        \/ \E t \in {"null", "builtin", "custom", "array"} : SetType(t)
        \/ \E v \in {"lit", "bad"} : nodes' = [nodes EXCEPT ![field].value = v]
        \/ \E q \in {field, decl} : nodes' = [nodes EXCEPT ![q].ranged = TRUE]
    BY <1>1 DEF TypeName, CustomType, TypeSuffix, LeaveField, ItemValue, LeaveItem, LeaveBody
  <2>2. ASSUME NEW t \in {"null", "builtin", "custom", "array"}, SetType(t)
        PROVE  SameLinks(nodes, nodes')
    BY <1>a, <2>2, SetTypeLinks DEF SetType
  <2>3. ASSUME NEW v \in {"lit", "bad"}, nodes' = [nodes EXCEPT ![field].value = v]
        PROVE  SameLinks(nodes, nodes')
    <3>1. SameLinks(nodes, [nodes EXCEPT ![field].value = v])
      BY <1>a, SetValueLinks
    <3> QED
      BY <3>1, <2>3
  <2>4. ASSUME NEW q \in {field, decl}, nodes' = [nodes EXCEPT ![q].ranged = TRUE]
        PROVE  SameLinks(nodes, nodes')
    BY <1>a, <2>4, SetRangedLinks
  <2> QED
    BY <1>s, <1>u, <2>1, <2>2, <2>3, <2>4
<1>2. CASE FieldName \/ ItemName
  <2>1. \/ UNCHANGED nodes
        \/ \E name \in Keys, k \in {"var", "item"} : nodes' = Append(nodes, NewNode(k, name))
    BY <1>2, <1>b DEF FieldName, ItemName
  <2> QED
    BY <2>1, <1>u, <1>w
<1>3. CASE LinkMember
  <2> DEFINE pushed == PushMember(nodes, decl, field)
             i == Len(pushed[decl].members)
  <2>1. UNCHANGED nodes \/ nodes' = pushed \/ nodes' = IndexMember(pushed, decl, i)
    BY <1>3 DEF LinkMember
  <2>2. Grows(nodes, pushed)
    BY <1>a, GrowsPush
  <2>3. pushed \in Seq(Node) /\ Len(pushed) = Len(nodes)
    BY <1>a, PushMemberType
  <2> HIDE DEF pushed
  <2>4. i \in Nat
    BY <1>a, <2>3, MembersType
  <2> HIDE DEF i
  <2>5. Grows(pushed, IndexMember(pushed, decl, i))
    BY <1>a, <2>3, <2>4, GrowsIndex
  <2>6. Grows(nodes, IndexMember(pushed, decl, i))
    BY <1>a, <2>2, <2>5, GrowsTrans
  <2> QED
    BY <2>1, <2>2, <2>6, <1>u
<1>4. CASE DeclIndex
  <2>1. UNCHANGED nodes \/ nodes' = IndexMember(nodes, Root, slot)
    BY <1>4 DEF DeclIndex
  <2> QED
    BY <2>1, <1>a, <1>u, GrowsIndex
<1>5. ASSUME NEW k \in {"class", "struct", "enum", "import"}, NEW name \in Keys,
             LET n == Len(nodes) + 1
                 i == Len(nodes[Root].members) + 1
                 ns2 == PushMember(Append(nodes, NewNode(k, name)), Root, n)
             IN  nodes' = ns2 \/ nodes' = IndexMember(ns2, Root, i)
      PROVE  Grows(nodes, nodes')
  <2> DEFINE n == Len(nodes) + 1
             i == Len(nodes[Root].members) + 1
             ns2 == PushMember(Append(nodes, NewNode(k, name)), Root, n)
  <2>1. Grows(nodes, ns2) /\ Grows(nodes, IndexMember(ns2, Root, i))
    BY <1>a, GrowsNewMember
  <2> HIDE DEF ns2, i
  <2> QED
    BY <1>5, <2>1 DEF ns2, i
<1>6. CASE ImportMember
  <2> DEFINE n == Len(nodes) + 1
             i == Len(nodes[Root].members) + 1
             Pushed(name) == PushMember(Append(nodes, NewNode("import", name)), Root, n)
  <2>1. \/ UNCHANGED nodes
        \/ \E name \in Keys : nodes' = Pushed(name) \/ nodes' = IndexMember(Pushed(name), Root, i)
    BY <1>6, <1>b DEF ImportMember
  <2> QED
    BY <2>1, <1>5, <1>u
<1>7. ASSUME NEW k \in {"class", "struct", "enum"}, BeginDecl(k)
      PROVE  Grows(nodes, nodes')
  <2> DEFINE Pushed(name) == PushMember(Append(nodes, NewNode(k, name)), Root, Len(nodes) + 1)
  <2>1. UNCHANGED nodes \/ \E name \in Keys : nodes' = Pushed(name)
    BY <1>7, <1>b DEF BeginDecl
  <2> QED
    BY <2>1, <1>5, <1>u
<1> QED
  BY <1>0, <1>1, <1>2, <1>3, <1>4, <1>6, <1>7 DEF Next, ControlStep

-----------------------------------------------------------------------------
(* What the parser is working on is not linked, or not indexed, yet: so the   *)
(* definition it finds in the way is another one.                             *)

\* The field or item in work is named and is no member of a container yet.
FieldPlaces == {"field_colon", "leave_field", "item_assign", "item_value", "leave_item", "member"}
FieldInWork == pc \in FieldPlaces \/ (pc \in TypePlaces /\ ctx = "field")
Unlinked(ns, m) == \A p \in 1 .. Len(ns) : \A i \in 1 .. Len(ns[p].members) : ns[p].members[i] # m
NamedAs(ns, m) == m \in 1 .. Len(ns) /\ ns[m].name \in Names

FreshField == FieldInWork => NamedAs(nodes, field) /\ Unlinked(nodes, field)

\* The declaration in work is named, is a member of the root only once and has no
\* entry in the root's index yet.
LinkedOnce(ns, i, n) ==
  /\ \A j \in 1 .. Len(ns[Root].members) : ns[Root].members[j] = n => j = i
  /\ \A k \in Keys : ns[Root].index[k] # i
FreshDecl ==
  InDecl => decl # Root /\ NamedAs(nodes, decl) /\ LinkedOnce(nodes, slot, decl)

\* Every member is a node.
MembersExist(ns) ==
  \A p \in 1 .. Len(ns) : \A i \in 1 .. Len(ns[p].members) : ns[p].members[i] \in 1 .. Len(ns)

LEMMA MembersKnown ==
  ASSUME IInv, NothingMissing, pc # "crashed", ~AliasLeft
  PROVE  MembersExist(nodes)
<1>1. GoodBut(nodes, OpenPlace)
  BY DEF NothingMissing
<1>2. InDecl => nodes[Root].members[slot] = decl
  BY DEF IInv, InDecl, SlotLinked, LinkedAt
<1>3. decl \in 1 .. Len(nodes)
  BY DEF IInv, TypeOK
<1> SUFFICES ASSUME NEW p \in 1 .. Len(nodes), NEW i \in 1 .. Len(nodes[p].members)
             PROVE  nodes[p].members[i] \in 1 .. Len(nodes)
  BY DEF MembersExist
<1>4. CASE << p, i >> \in OpenPlace
  <2>1. InDecl /\ p = Root /\ i = slot
    BY <1>4 DEF OpenPlace
  <2> QED
    BY <1>2, <1>3, <2>1
<1>5. CASE << p, i >> \notin OpenPlace
  BY <1>1, <1>5 DEF GoodBut, GoodMember
<1> QED
  BY <1>4, <1>5

\* A node that has just been made is no member.
LEMMA NewIsUnlinked ==
  ASSUME NEW ns \in Seq(Node), MembersExist(ns), NEW name \in Names, NEW k \in {"var", "item"}
  PROVE  LET ns2 == Append(ns, NewNode(k, name))  n == Len(ns) + 1 IN
         NamedAs(ns2, n) /\ Unlinked(ns2, n)
<1> DEFINE ns2 == Append(ns, NewNode(k, name))
           n == Len(ns) + 1
<1>0. name \in Keys
  BY NamesAreNotKinds
<1>1. /\ Len(ns2) = n /\ ns2[n] = NewNode(k, name)
      /\ \A q \in 1 .. Len(ns) : ns2[q] = ns[q]
  BY <1>0, NewNodeType, AppendType
<1>2. NewNode(k, name).members = << >> /\ NewNode(k, name).name = name
  BY DEF NewNode
<1> HIDE DEF ns2
<1>3. NamedAs(ns2, n)
  BY <1>1, <1>2 DEF NamedAs
<1>4. ASSUME NEW p \in 1 .. Len(ns2), NEW i \in 1 .. Len(ns2[p].members)
      PROVE  ns2[p].members[i] # n
  <2>1. p \in 1 .. Len(ns)
    BY <1>1, <1>2, <1>4
  <2>2. ns2[p] = ns[p]
    BY <1>1, <2>1
  <2>3. ns[p].members[i] \in 1 .. Len(ns)
    BY <1>4, <2>1, <2>2 DEF MembersExist
  <2> QED
    BY <2>2, <2>3
<1>5. Unlinked(ns2, n)
  BY <1>4 DEF Unlinked
<1> QED
  BY <1>3, <1>5 DEF ns2

\* The steps that write nodes that are there leave the links alone.
LEMMA WritesKeepLinks ==
  ASSUME TypeOK,
         \/ TypeName \/ CustomType \/ TypeSuffix \/ LeaveField \/ ItemValue \/ LeaveItem
         \/ LeaveBody
  PROVE  SameLinks(nodes, nodes') /\ UNCHANGED << decl, slot, field >>
<1>a. /\ nodes \in Seq(Node) /\ decl \in Nat /\ field \in Nat /\ TypeOwner \in Nat
  BY AstTypes
<1>1. \/ UNCHANGED nodes
      \/ \E t \in {"null", "builtin", "custom", "array"} : SetType(t)
      \/ \E v \in {"lit", "bad"} : nodes' = [nodes EXCEPT ![field].value = v]
      \/ \E q \in {field, decl} : nodes' = [nodes EXCEPT ![q].ranged = TRUE]
  BY DEF TypeName, CustomType, TypeSuffix, LeaveField, ItemValue, LeaveItem, LeaveBody
<1>2. ASSUME NEW t \in {"null", "builtin", "custom", "array"}, SetType(t)
      PROVE  SameLinks(nodes, nodes')
  BY <1>a, <1>2, SetTypeLinks DEF SetType
<1>3. ASSUME NEW v \in {"lit", "bad"}, nodes' = [nodes EXCEPT ![field].value = v]
      PROVE  SameLinks(nodes, nodes')
  <2>1. SameLinks(nodes, [nodes EXCEPT ![field].value = v])
    BY <1>a, SetValueLinks
  <2> QED
    BY <2>1, <1>3
<1>4. ASSUME NEW q \in {field, decl}, nodes' = [nodes EXCEPT ![q].ranged = TRUE]
      PROVE  SameLinks(nodes, nodes')
  BY <1>a, <1>4, SetRangedLinks
<1>5. ASSUME UNCHANGED nodes PROVE SameLinks(nodes, nodes')
  BY <1>a, <1>5 DEF SameLinks
<1>6. UNCHANGED << decl, slot, field >>
  BY DEF TypeName, CustomType, TypeSuffix, LeaveField, ItemValue, LeaveItem, LeaveBody
<1> QED
  BY <1>1, <1>2, <1>3, <1>4, <1>5, <1>6

\* The steps that leave the nodes alone, and some more.
LEMMA ControlKeepsLinks ==
  ASSUME TypeOK, ControlStep
  PROVE  SameLinks(nodes, nodes') /\ UNCHANGED << decl, slot >>
<1>1. nodes \in Seq(Node)
  BY AstTypes
<1>2. UNCHANGED nodes
  BY DEF ControlStep, ParseProgram, CatchModule, ModuleSemi, IdRefScope, IdRefName,
     BaseColon, BodyOpen, FieldColon, CatchField, ItemAssign, Comma, BodyClose,
     BeginImport, ImportSemi, NotADecl, CatchStmt, Finish, DestroyParser, Terminating, vars
<1>3. UNCHANGED << decl, slot >>
  BY DEF ControlStep, ParseProgram, CatchModule, ModuleSemi, IdRefScope, IdRefName,
     BaseColon, BodyOpen, FieldColon, CatchField, ItemAssign, Comma, BodyClose,
     BeginImport, ImportSemi, NotADecl, CatchStmt, Finish, DestroyParser, Terminating, vars
<1> QED
  BY <1>1, <1>2, <1>3 DEF SameLinks

\* The field in work stays fresh until it is linked.
LEMMA FieldStaysFresh ==
  ASSUME IInv, InFlight, NothingMissing, FreshField, Silent, Next, Silent'
  PROVE  FreshField'
<1>0. TypeOK /\ nodes \in Seq(Node) /\ Names \subseteq Keys
  BY AstTypes, NamesAreNotKinds DEF IInv
<1>e. \A e \in ErrorKind : e # "none" => ErrorAt(e) # NoError
  BY ThrownNotNone
<1>f. {"OutOfMemory", "ExpectingSingleToken", "UnexpectedToken"} \subseteq ErrorKind \ {"none"}
  BY DEF ErrorKind
<1>g. /\ ErrorAt("OutOfMemory") # NoError /\ ErrorAt("ExpectingSingleToken") # NoError
      /\ ErrorAt("UnexpectedToken") # NoError
  BY <1>e, <1>f
<1>k. ASSUME SameLinks(nodes, nodes'), UNCHANGED field, FieldInWork' => FieldInWork
      PROVE  FreshField'
  <2> SUFFICES ASSUME FieldInWork PROVE NamedAs(nodes', field) /\ Unlinked(nodes', field)
    BY <1>k DEF FreshField
  <2>1. NamedAs(nodes, field) /\ Unlinked(nodes, field)
    BY DEF FreshField
  <2> QED
    BY <1>k, <2>1 DEF SameLinks, NamedAs, Unlinked
<1>o. ASSUME ~FieldInWork' PROVE FreshField'
  BY <1>o DEF FreshField
<1>n. ASSUME NEW k \in {"var", "item"}, Tok \in Names, MembersExist(nodes),
             nodes' = Append(nodes, NewNode(k, Tok)), field' = Len(nodes) + 1
      PROVE  FreshField'
  BY <1>0, <1>n, NewIsUnlinked DEF FreshField
<1>1. CASE FieldName \/ ItemName
  <2>1. MembersExist(nodes)
    BY <1>1, MembersKnown DEF FieldName, ItemName, AliasLeft
  <2>2. /\ Tok \in Names /\ field' = Len(nodes) + 1
        /\ \E k \in {"var", "item"} : nodes' = Append(nodes, NewNode(k, Tok))
    BY <1>1, <1>g DEF FieldName, ItemName, Throw, OutOfMemory, Silent
  <2> QED
    BY <1>n, <2>1, <2>2
<1>2. CASE TypeName \/ CustomType \/ TypeSuffix \/ LeaveField \/ ItemValue \/ LeaveItem \/ LeaveBody
  <2>1. SameLinks(nodes, nodes') /\ UNCHANGED field
    BY <1>0, <1>2, WritesKeepLinks
  <2>2. FieldInWork' => FieldInWork
    <3>1. CASE TypeName \/ CustomType \/ TypeSuffix
      <4>1. ctx' = ctx /\ pc \in TypePlaces
        BY <3>1 DEF TypeName, CustomType, TypeSuffix, TypePlaces
      <4>2. \/ ctx = "field"
            \/ pc' \in TypePlaces \cup {"body_open"}
        BY <1>g, <3>1 DEF TypeName, CustomType, TypeSuffix, TypePlaces, Goto, Throw, OutOfMemory, Silent
      <4> QED
        BY <4>1, <4>2 DEF FieldInWork, FieldPlaces, TypePlaces
    <3>2. CASE LeaveField \/ ItemValue \/ LeaveItem
      BY <3>2 DEF LeaveField, ItemValue, LeaveItem, FieldInWork, FieldPlaces
    <3>3. CASE LeaveBody
      BY <3>3 DEF LeaveBody, Goto, Silent, FieldInWork, FieldPlaces, TypePlaces
    <3> QED
      BY <1>2, <3>1, <3>2, <3>3
  <2> QED
    BY <1>k, <2>1, <2>2
<1>3. CASE ControlStep /\ ~BodyOpen
  <2>1. SameLinks(nodes, nodes')
    BY <1>0, <1>3, ControlKeepsLinks
  <2>2. UNCHANGED field
    BY <1>3 DEF ControlStep, ParseProgram, CatchModule, ModuleSemi, IdRefScope, IdRefName,
       BaseColon, FieldColon, CatchField, ItemAssign, Comma, BodyClose,
       BeginImport, ImportSemi, NotADecl, CatchStmt, Finish, DestroyParser, Terminating, vars
  <2>3. FieldInWork' => FieldInWork
    <3>1. CASE ParseProgram \/ ModuleSemi \/ BeginImport \/ ImportSemi \/ BaseColon \/ Comma \/ BodyClose
      BY <3>1, <1>g DEF ParseProgram, ModuleSemi, BeginImport, ImportSemi, BaseColon, Comma, BodyClose,
         Goto, Throw, OutOfMemory, Silent, FieldInWork, FieldPlaces, TypePlaces
    <3>2. CASE IdRefScope \/ IdRefName
      <4>1. /\ ctx' = ctx /\ pc \in TypePlaces
            /\ pc' \in {"id_ref", "id_ref_name"} \/ pc' = Return[ctx]
        BY <3>2, <1>g DEF IdRefScope, IdRefName, TypePlaces, Goto, Throw, OutOfMemory, Silent
      <4>2. pc' \notin FieldPlaces
        BY <1>0, <4>1 DEF Return, FieldPlaces, TypeOK
      <4> QED
        BY <4>1, <4>2 DEF FieldInWork
    <3>3. CASE FieldColon \/ ItemAssign
      BY <3>3 DEF FieldColon, ItemAssign, FieldInWork, FieldPlaces
    <3>4. CASE CatchModule \/ CatchField \/ CatchStmt \/ NotADecl
      <4>1. Append(errors, pending) # << >> /\ ErrorAt("ExpectingDecl") # NoError
        BY <1>0, ThrownNotNone DEF TypeOK, ErrorKind
      <4> QED
        BY <1>g, <3>4, <4>1 DEF CatchModule, CatchField, CatchStmt, NotADecl, Throw,
           OutOfMemory, Silent
    <3>5. CASE Finish \/ DestroyParser \/ Terminating
      BY <3>5 DEF Finish, DestroyParser, Terminating, Ended, vars, Goto, FieldInWork, FieldPlaces,
         TypePlaces
    <3> QED
      BY <1>3, <3>1, <3>2, <3>3, <3>4, <3>5 DEF ControlStep
  <2> QED
    BY <1>k, <2>1, <2>2, <2>3
<1>4. CASE BodyOpen \/ LinkMember \/ DeclIndex \/ ImportMember
  <2>1. Conflict(field) # NoError /\ Conflict(decl) # NoError
    BY ThrownNotNone
  <2>2. pc' \in {"item", "field", "crashed", "comma", "stmt", "import_semi"}
    BY <1>4, <1>g, <2>1 DEF BodyOpen, LinkMember, DeclIndex, ImportMember, Goto, Throw, OutOfMemory, Silent
  <2> QED
    BY <1>o, <2>2 DEF FieldInWork, FieldPlaces, TypePlaces
<1>5. ASSUME NEW k \in {"class", "struct", "enum"}, BeginDecl(k)
      PROVE  FreshField'
  <2>1. pc' \in {"base_colon", "body_open"}
    BY <1>5, <1>g DEF BeginDecl, Goto, Throw, OutOfMemory, Silent
  <2> QED
    BY <1>o, <2>1 DEF FieldInWork, FieldPlaces, TypePlaces
<1> QED
  BY <1>1, <1>2, <1>3, <1>4, <1>5 DEF Next, ControlStep

\* A named node stays a named node.
LEMMA NamedStays ==
  ASSUME NEW ns \in Seq(Node), NEW ns2, KeepsNames(ns, ns2), NEW m, NamedAs(ns, m)
  PROVE  NamedAs(ns2, m)
BY DEF KeepsNames, SameName, NamedAs

\* Between two declarations and their bodies' ends the root has the same members
\* and index.
LEMMA RootUntouched ==
  ASSUME TypeOK, InDecl, decl # Root, Next, InDecl'
  PROVE  /\ UNCHANGED << decl, slot >>
         /\ nodes'[Root].members = nodes[Root].members
         /\ nodes'[Root].index = nodes[Root].index
<1>a. /\ nodes \in Seq(Node) /\ Root \in 1 .. Len(nodes)
      /\ decl \in 1 .. Len(nodes) /\ field \in Nat
  BY AstTypes
<1>b. Names \subseteq Keys /\ "" \in Keys
  BY NamesAreNotKinds
<1>p. pc \notin {"stmt", "import_member"}
  BY DEF InDecl, BodyPCs
<1>1. CASE \/ TypeName \/ CustomType \/ TypeSuffix \/ LeaveField \/ ItemValue \/ LeaveItem
           \/ LeaveBody
  BY <1>a, <1>1, WritesKeepLinks DEF SameLinks
<1>2. CASE ControlStep
  BY <1>a, <1>2, ControlKeepsLinks DEF SameLinks
<1>3. CASE FieldName \/ ItemName
  <2>1. UNCHANGED << decl, slot >>
    BY <1>3 DEF FieldName, ItemName
  <2>2. \/ UNCHANGED nodes
        \/ \E name \in Keys, k \in {"var", "item"} : nodes' = Append(nodes, NewNode(k, name))
    BY <1>3, <1>b DEF FieldName, ItemName
  <2>3. ASSUME NEW name \in Keys, NEW k \in {"var", "item"},
               nodes' = Append(nodes, NewNode(k, name))
        PROVE  nodes'[Root] = nodes[Root]
    BY <1>a, <2>3, NewNodeType, AppendType
  <2> QED
    BY <2>1, <2>2, <2>3
<1>4. CASE LinkMember
  <2> DEFINE pushed == PushMember(nodes, decl, field)
             i == Len(pushed[decl].members)
             indexed == IndexMember(pushed, decl, i)
  <2>1. UNCHANGED << decl, slot >> /\ (UNCHANGED nodes \/ nodes' = pushed \/ nodes' = indexed)
    BY <1>4 DEF LinkMember
  <2>2. /\ pushed[Root].members = nodes[Root].members
        /\ pushed[Root].index = nodes[Root].index
    <3>1. /\ pushed[Root].index = nodes[Root].index
          /\ pushed[Root].members = IF Root = decl THEN Append(nodes[Root].members, field)
                                    ELSE nodes[Root].members
      BY <1>a, PushMemberEffect
    <3> QED
      BY <3>1
  <2>3. pushed \in Seq(Node) /\ Len(pushed) = Len(nodes)
    BY <1>a, PushMemberType
  <2> HIDE DEF pushed
  <2>4. i \in Nat
    BY <1>a, <2>3, MembersType
  <2> HIDE DEF i
  <2>5. /\ indexed[Root].members = pushed[Root].members
        /\ indexed[Root].index = pushed[Root].index
    <3>1. /\ indexed[Root].members = pushed[Root].members
          /\ indexed[Root].index =
               IF Root = decl
               THEN [pushed[Root].index EXCEPT ![pushed[pushed[decl].members[i]].name] = i]
               ELSE pushed[Root].index
      BY <1>a, <2>3, <2>4, IndexMemberEffect
    <3> QED
      BY <3>1
  <2> QED
    BY <2>1, <2>2, <2>5
<1>5. CASE DeclIndex
  BY <1>5 DEF DeclIndex, InDecl, BodyPCs, Goto, Throw, OutOfMemory
<1>6. CASE ImportMember
  BY <1>p, <1>6 DEF ImportMember
<1>7. ASSUME NEW k \in {"class", "struct", "enum"}, BeginDecl(k)
      PROVE  FALSE
  BY <1>p, <1>7 DEF BeginDecl
<1> QED
  BY <1>1, <1>2, <1>3, <1>4, <1>5, <1>6, <1>7 DEF Next, ControlStep

\* A new member of the root is there once and is not indexed.
LEMMA NewMemberOnce ==
  ASSUME NEW ns \in Seq(Node), Root \in 1 .. Len(ns), MembersExist(ns), Sound(ns),
         NEW name \in Keys, NEW k \in {"class", "struct", "enum"}
  PROVE  LET n == Len(ns) + 1
             i == Len(ns[Root].members) + 1
         IN  LinkedOnce(PushMember(Append(ns, NewNode(k, name)), Root, n), i, n)
<1> DEFINE n == Len(ns) + 1
           i == Len(ns[Root].members) + 1
           ns1 == Append(ns, NewNode(k, name))
           ns2 == PushMember(ns1, Root, n)
<1>1. ns1 \in Seq(Node) /\ Len(ns1) = n /\ ns1[Root] = ns[Root]
  BY NewNodeType, AppendType
<1>2. n \in Nat /\ Root \in 1 .. n /\ n \notin 1 .. Len(ns)
  OBVIOUS
<1>3. ns[Root].members \in Seq(Nat) /\ ns[Root].index \in [Keys -> Nat]
  BY MembersType
<1> HIDE DEF ns1
<1>4. /\ ns2[Root].index = ns[Root].index
      /\ ns2[Root].members = Append(ns[Root].members, n)
  <2>1. /\ ns2[Root].index = ns1[Root].index
        /\ ns2[Root].members = IF Root = Root THEN Append(ns1[Root].members, n)
                               ELSE ns1[Root].members
    <3> HIDE DEF n
    <3> QED
      BY <1>1, <1>2, PushMemberEffect
  <2> QED
    BY <1>1, <2>1
<1> HIDE DEF ns2
<1>5. ASSUME NEW j \in 1 .. Len(ns2[Root].members), ns2[Root].members[j] = n
      PROVE  j = i
  <2>1. CASE j \in 1 .. Len(ns[Root].members)
    <3>1. ns2[Root].members[j] = ns[Root].members[j]
      BY <1>3, <1>4, <2>1
    <3>2. ns[Root].members[j] \in 1 .. Len(ns)
      BY <2>1 DEF MembersExist
    <3> QED
      BY <1>2, <1>5, <3>1, <3>2
  <2>2. CASE j \notin 1 .. Len(ns[Root].members)
    BY <1>3, <1>4, <2>2
  <2> QED
    BY <2>1, <2>2
<1>6. ASSUME NEW x \in Keys
      PROVE  ns2[Root].index[x] # i
  <2>1. ns[Root].index[x] = 0 \/ ns[Root].index[x] \in 1 .. Len(ns[Root].members)
    BY DEF Sound, Indexed
  <2> QED
    BY <1>3, <1>4, <2>1
<1> HIDE DEF n, i
<1>7. LinkedOnce(ns2, i, n)
  BY <1>5, <1>6 DEF LinkedOnce
<1> QED
  BY <1>7 DEF ns1, ns2, n, i

\* The declaration in work stays fresh until it is indexed.
LEMMA DeclStaysFresh ==
  ASSUME IInv, InFlight, NothingMissing, FreshDecl, Silent, Next, Silent'
  PROVE  FreshDecl'
<1>0. /\ TypeOK /\ IndexSound /\ nodes \in Seq(Node) /\ Root \in 1 .. Len(nodes)
      /\ Names \subseteq Keys
  BY AstTypes, NamesAreNotKinds DEF IInv
<1>1. ASSUME NEW k \in {"class", "struct", "enum"}, BeginDecl(k)
      PROVE  FreshDecl'
  <2> DEFINE n == Len(nodes) + 1
             i == Len(nodes[Root].members) + 1
             Pushed(name) == PushMember(Append(nodes, NewNode(k, name)), Root, n)
  <2>1. ErrorAt("OutOfMemory") # NoError /\ ErrorAt("ExpectingSingleToken") # NoError
    BY ThrownNotNone DEF ErrorKind
  <2>2. /\ pc = "stmt" /\ decl' = n /\ slot' = i /\ Tok2 \in Names /\ nodes' = Pushed(Tok2)
    BY <1>1, <2>1 DEF BeginDecl, Goto, Throw, OutOfMemory, Silent
  <2>3. MembersExist(nodes)
    BY <2>2, MembersKnown DEF AliasLeft
  <2>4. LinkedOnce(Pushed(Tok2), i, n)
    BY <1>0, <2>2, <2>3, NewMemberOnce DEF IndexSound
  <2>5. KeepsNames(nodes, Pushed(Tok2)) /\ Len(Pushed(Tok2)) = n /\ Pushed(Tok2)[n].name = Tok2
    BY <1>0, <2>2, KeepsNewMember
  <2>6. n \in 1 .. n /\ n # Root
    BY <1>0 DEF Root
  <2> HIDE DEF n, i, Pushed
  <2> QED
    BY <2>2, <2>4, <2>5, <2>6 DEF FreshDecl, NamedAs
<1>2. ASSUME \A k \in {"class", "struct", "enum"} : ~BeginDecl(k), InDecl'
      PROVE  InDecl
  <2>1. /\ {"OutOfMemory", "ExpectingDecl", "ExpectingSingleToken"} \subseteq ErrorKind \ {"none"}
        /\ Append(errors, pending) # << >>
    BY <1>0 DEF ErrorKind, TypeOK
  <2>2. /\ ErrorAt("OutOfMemory") # NoError /\ ErrorAt("ExpectingDecl") # NoError
        /\ ErrorAt("ExpectingSingleToken") # NoError
    BY <2>1, ThrownNotNone
  <2>3. CASE ParseProgram \/ ModuleSemi \/ BeginImport \/ ImportMember \/ ImportSemi
    BY <1>2, <2>2, <2>3 DEF ParseProgram, ModuleSemi, BeginImport, ImportMember, ImportSemi, Goto, Throw,
       OutOfMemory, Silent, InDecl, BodyPCs
  <2>4. CASE IdRefScope \/ IdRefName
    <3>1. ctx' = ctx /\ pc \in {"id_ref", "id_ref_name"}
          /\ (pc' \in {"id_ref", "id_ref_name"} \/ pc' = Return[ctx])
      BY <2>2, <2>4 DEF IdRefScope, IdRefName, Goto, Throw, OutOfMemory, Silent
    <3>2. Return[ctx] \in BodyPCs => ctx \in {"field", "base"}
      BY <1>0 DEF Return, BodyPCs, TypeOK
    <3> QED
      BY <1>2, <3>1, <3>2 DEF InDecl, BodyPCs
  <2>5. CASE CatchModule \/ CatchStmt \/ NotADecl
    BY <2>1, <2>2, <2>5 DEF CatchModule, CatchStmt, NotADecl, Throw, OutOfMemory, Silent
  <2>6. CASE Finish \/ DestroyParser \/ Terminating
    BY <1>2, <2>6 DEF Finish, DestroyParser, Terminating, Ended, vars, Goto, InDecl, BodyPCs
  <2>7. CASE \/ TypeName \/ CustomType \/ TypeSuffix \/ BaseColon \/ BodyOpen \/ FieldName
             \/ FieldColon \/ LeaveField \/ CatchField \/ ItemName \/ ItemAssign \/ ItemValue
             \/ LeaveItem \/ LinkMember \/ Comma \/ BodyClose \/ LeaveBody \/ DeclIndex
    BY <2>7 DEF TypeName, CustomType, TypeSuffix, BaseColon, BodyOpen, FieldName, FieldColon,
       LeaveField, CatchField, ItemName, ItemAssign, ItemValue, LeaveItem, LinkMember, Comma,
       BodyClose, LeaveBody, DeclIndex, InDecl, BodyPCs
  <2> QED
    BY <1>2, <2>3, <2>4, <2>5, <2>6, <2>7 DEF Next
<1>3. ASSUME InDecl, InDecl'
      PROVE  FreshDecl'
  <2>1. decl # Root /\ NamedAs(nodes, decl) /\ LinkedOnce(nodes, slot, decl)
    BY <1>3 DEF FreshDecl
  <2>2. /\ UNCHANGED << decl, slot >>
        /\ nodes'[Root].members = nodes[Root].members
        /\ nodes'[Root].index = nodes[Root].index
    BY <1>0, <1>3, <2>1, RootUntouched
  <2>3. KeepsNames(nodes, nodes')
    BY <1>0, NodesGrow DEF Grows
  <2>4. NamedAs(nodes', decl)
    BY <1>0, <2>1, <2>3, NamedStays
  <2>5. LinkedOnce(nodes', slot, decl)
    BY <2>1, <2>2 DEF LinkedOnce
  <2> QED
    BY <2>1, <2>2, <2>4, <2>5 DEF FreshDecl
<1>4. ASSUME ~InDecl'
      PROVE  FreshDecl'
  BY <1>4 DEF FreshDecl
<1> QED
  BY <1>1, <1>2, <1>3, <1>4

-----------------------------------------------------------------------------
(* A conflict that is reported is between two members of one container.       *)

SameNamed(a, b) == a.name = b.name /\ a.name # ""

\* Two members of one container have the same name.
Clash(ns) ==
  \E p \in 1 .. Len(ns) : \E i, j \in 1 .. Len(ns[p].members) :
    LET m == ns[p].members[i]  n == ns[p].members[j] IN
    m \in 1 .. Len(ns) /\ n \in 1 .. Len(ns) /\ m # n /\ SameNamed(ns[m], ns[n])

\* A clash is a duplicate definition,
LEMMA ClashIsDuplicate == Clash(nodes) => Duplicates
<1> SUFFICES ASSUME Clash(nodes) PROVE Duplicates
  OBVIOUS
<1>1. PICK p \in 1 .. Len(nodes) : \E i, j \in 1 .. Len(nodes[p].members) :
        LET m == nodes[p].members[i]  n == nodes[p].members[j] IN
        m \in 1 .. Len(nodes) /\ n \in 1 .. Len(nodes) /\ m # n /\ SameNamed(nodes[m], nodes[n])
  BY DEF Clash
<1>2. PICK i, j \in 1 .. Len(nodes[p].members) :
        LET m == nodes[p].members[i]  n == nodes[p].members[j] IN
        m \in 1 .. Len(nodes) /\ n \in 1 .. Len(nodes) /\ m # n /\ SameNamed(nodes[m], nodes[n])
  BY <1>1
<1> DEFINE m == nodes[p].members[i]
           n == nodes[p].members[j]
<1>3. m \in 1 .. Len(nodes) /\ n \in 1 .. Len(nodes) /\ m # n /\ SameNamed(nodes[m], nodes[n])
  BY <1>2
<1>4. m \notin {0, n} /\ n # 0
  <2> HIDE DEF m, n
  <2> QED
    BY <1>3
<1>5. nodes[m].name = nodes[n].name /\ nodes[m].name # ""
  BY <1>3, Zenon DEF SameNamed
<1> QED
  BY <1>4, <1>5, Zenon DEF Duplicates

\* and stays one.
LEMMA ClashStays ==
  ASSUME NEW ns \in Seq(Node), NEW ns2, Grows(ns, ns2), Clash(ns)
  PROVE  Clash(ns2)
<1>1. PICK p \in 1 .. Len(ns) : \E i, j \in 1 .. Len(ns[p].members) :
        LET m == ns[p].members[i]  n == ns[p].members[j] IN
        m \in 1 .. Len(ns) /\ n \in 1 .. Len(ns) /\ m # n /\ SameNamed(ns[m], ns[n])
  BY DEF Clash
<1>2. PICK i, j \in 1 .. Len(ns[p].members) :
        LET m == ns[p].members[i]  n == ns[p].members[j] IN
        m \in 1 .. Len(ns) /\ n \in 1 .. Len(ns) /\ m # n /\ SameNamed(ns[m], ns[n])
  BY <1>1
<1> DEFINE m == ns[p].members[i]
           n == ns[p].members[j]
<1>3. m \in 1 .. Len(ns) /\ n \in 1 .. Len(ns) /\ m # n /\ SameNamed(ns[m], ns[n])
  BY <1>2
<1>4. /\ i \in 1 .. Len(ns2[p].members) /\ ns2[p].members[i] = m
      /\ j \in 1 .. Len(ns2[p].members) /\ ns2[p].members[j] = n
  BY <1>1, <1>2 DEF Grows, KeepsMembers
<1> HIDE DEF m, n
<1>5. p \in 1 .. Len(ns2) /\ m \in 1 .. Len(ns2) /\ n \in 1 .. Len(ns2)
  BY <1>1, <1>3 DEF Grows, KeepsNames
<1>6. SameName(ns, ns2, m) /\ SameName(ns, ns2, n)
  BY <1>3 DEF Grows, KeepsNames
<1>7. SameNamed(ns2[m], ns2[n])
  BY <1>3, <1>6, Zenon DEF SameName, SameNamed
<1> QED
  BY <1>3, <1>4, <1>5, <1>7, Zenon DEF Clash

\* What the index leads to is a member of that name.
LEMMA IndexLeads ==
  ASSUME NEW ns \in Seq(Node), Sound(ns), NEW p \in 1 .. Len(ns), NEW k \in Keys, Indexed(ns, p, k)
  PROVE  LET i == ns[p].index[k] IN
         /\ i \in 1 .. Len(ns[p].members) /\ ns[p].members[i] \in 1 .. Len(ns)
         /\ ns[ns[p].members[i]].name = k
BY DEF Sound

\* Two named nodes of one name.
LEMMA NamesMatch ==
  ASSUME NEW ns, NEW m, NEW n, NamedAs(ns, n), ns[m].name = ns[n].name
  PROVE  SameNamed(ns[m], ns[n])
<1>1. ns[n].name \in Names /\ "" \notin Names
  BY NamesAreNotKinds DEF NamedAs
<1> QED
  BY <1>1, Zenon DEF SameNamed

\* A fresh member whose name is indexed in the container clashes once it is pushed.
LEMMA PushClashes ==
  ASSUME NEW ns \in Seq(Node), Sound(ns), NEW p \in 1 .. Len(ns), NEW m \in Nat,
         NamedAs(ns, m), Unlinked(ns, m), Indexed(ns, p, ns[m].name)
  PROVE  Clash(PushMember(ns, p, m))
<1> DEFINE ns2 == PushMember(ns, p, m)
           k == ns[m].name
           i == ns[p].index[k]
           n == ns[p].members[i]
           j == Len(ns[p].members) + 1
<1>1. m \in 1 .. Len(ns) /\ k \in Keys
  BY MembersType DEF NamedAs
<1>2. i \in 1 .. Len(ns[p].members) /\ n \in 1 .. Len(ns) /\ ns[n].name = k
  BY <1>1, IndexLeads
<1>3. n # m
  BY <1>2 DEF Unlinked
<1>4. ns[p].members \in Seq(Nat)
  BY MembersType
<1>5. ns2[p].members = Append(ns[p].members, m)
  <2>1. /\ ns2[p].index = ns[p].index
        /\ ns2[p].members = IF p = p THEN Append(ns[p].members, m) ELSE ns[p].members
    BY PushMemberEffect
  <2> QED
    BY <2>1
<1>6. KeepsNames(ns, ns2) /\ Len(ns2) = Len(ns)
  BY KeepsPush
<1> HIDE DEF ns2
<1>7. /\ i \in 1 .. Len(ns2[p].members) /\ ns2[p].members[i] = n
      /\ j \in 1 .. Len(ns2[p].members) /\ ns2[p].members[j] = m
  <2> HIDE DEF n, i
  <2>1. ns[p].members[i] = n
    BY DEF n
  <2> QED
    BY <1>2, <1>4, <1>5, <2>1
<1>8. SameNamed(ns2[n], ns2[m])
  <2>1. SameNamed(ns[n], ns[m])
    BY <1>2, NamesMatch
  <2>2. SameName(ns, ns2, n) /\ SameName(ns, ns2, m)
    BY <1>1, <1>2, <1>6 DEF KeepsNames
  <2> HIDE DEF n
  <2> QED
    BY <2>1, <2>2, Zenon DEF SameName, SameNamed
<1>9. Clash(ns2)
  <2> HIDE DEF n, i, j
  <2>1. p \in 1 .. Len(ns2) /\ m \in 1 .. Len(ns2) /\ n \in 1 .. Len(ns2)
    BY <1>1, <1>2, <1>6
  <2> QED
    BY <1>3, <1>7, <1>8, <2>1, Zenon DEF Clash
<1> QED
  BY <1>9 DEF ns2

\* A member of the root that is there once and is not indexed clashes when its
\* name is.
LEMMA RootClashes ==
  ASSUME NEW ns \in Seq(Node), Sound(ns), Root \in 1 .. Len(ns), NEW n, NEW s,
         NamedAs(ns, n), LinkedAt(ns, s, n), LinkedOnce(ns, s, n), Indexed(ns, Root, ns[n].name)
  PROVE  Clash(ns)
<1> DEFINE k == ns[n].name
           i == ns[Root].index[k]
           m == ns[Root].members[i]
<1>1. n \in 1 .. Len(ns) /\ k \in Keys
  BY MembersType DEF NamedAs
<1>2. i \in 1 .. Len(ns[Root].members) /\ m \in 1 .. Len(ns) /\ ns[m].name = k
  BY <1>1, IndexLeads
<1>3. m # n
  BY <1>1, <1>2 DEF LinkedOnce
<1>4. s \in 1 .. Len(ns[Root].members) /\ ns[Root].members[s] = n
  BY DEF LinkedAt
<1>5. SameNamed(ns[m], ns[n])
  BY <1>2, NamesMatch
<1> HIDE DEF i, k
<1> QED
  BY <1>1, <1>2, <1>3, <1>4, <1>5, Zenon DEF Clash

\* The first thing that is reported, or is about to be.
FirstConflict ==
  (IF errors = << >> THEN pending ELSE errors[1]).kind = "ConflictingDefinitions"

Conflicting == ~Silent /\ FirstConflict /\ Clash(nodes)

\* The link of a member succeeds, or the member really conflicts.
LEMMA LinkOrClash ==
  ASSUME Going, IndexSound, FreshField, oom' = oom, UNCHANGED tokens, InEnum' = InEnum, LinkMember
  PROVE  (Silent' /\ Ahead') \/ Conflicting'
<1>0. /\ TypeOK /\ (\A to : ~OutOfMemory(to)) /\ nodes \in Seq(Node)
      /\ decl \in 1 .. Len(nodes) /\ field \in Nat
  BY AstTypes, NothingFails DEF Going
<1>s. Silent /\ Ahead
  BY DEF Going
<1>1. pc = "member" /\ NamedAs(nodes, field) /\ Unlinked(nodes, field)
  BY DEF LinkMember, FreshField, FieldInWork, FieldPlaces
<1>2. field # 0
  BY <1>1 DEF NamedAs
<1>3. UNCHANGED << cur, errors >>
  BY DEF LinkMember
<1>4. \/ pc' = "comma" /\ UNCHANGED pending
      \/ /\ Indexed(nodes, decl, nodes[field].name)
         /\ nodes' = PushMember(nodes, decl, field) /\ pending' = Conflict(field)
  BY <1>0, <1>2 DEF LinkMember, Goto, Throw
<1>5. CASE pc' = "comma" /\ UNCHANGED pending
  <2>1. cur \in (IF InEnum THEN AfterItem ELSE AfterField)
    BY <1>1, <1>s DEF Ahead, AheadDecl
  <2>2. Silent'
    BY <1>3, <1>5, <1>s DEF Silent
  <2> QED
    BY <1>3, <1>5, <2>1, <2>2, AheadFrame DEF Ahead, AheadReference, AheadType, AheadDecl, AheadMember
<1>6. CASE /\ Indexed(nodes, decl, nodes[field].name)
           /\ nodes' = PushMember(nodes, decl, field) /\ pending' = Conflict(field)
  <2>1. Clash(nodes')
    BY <1>0, <1>1, <1>6, PushClashes DEF IndexSound
  <2>2. ~Silent' /\ FirstConflict'
    BY <1>3, <1>6, <1>s, ThrownNotNone DEF Silent, FirstConflict, Conflict
  <2> QED
    BY <2>1, <2>2 DEF Conflicting
<1> QED
  BY <1>4, <1>5, <1>6

\* So does the entry of a declaration in the index of the root.
LEMMA EntryOrClash ==
  ASSUME Going, IndexSound, SlotLinked, FreshDecl, oom' = oom, UNCHANGED tokens, DeclIndex
  PROVE  (Silent' /\ Ahead') \/ Conflicting'
<1>0. /\ TypeOK /\ (\A to : ~OutOfMemory(to)) /\ nodes \in Seq(Node)
      /\ Root \in 1 .. Len(nodes)
  BY AstTypes, NothingFails DEF Going
<1>s. Silent /\ Ahead
  BY DEF Going
<1>1. /\ pc = "decl_index" /\ NamedAs(nodes, decl) /\ LinkedOnce(nodes, slot, decl)
      /\ LinkedAt(nodes, slot, decl)
  BY DEF DeclIndex, FreshDecl, InDecl, BodyPCs, SlotLinked
<1>2. UNCHANGED << cur, errors >>
  BY DEF DeclIndex
<1>3. \/ pc' = "stmt" /\ UNCHANGED pending
      \/ /\ Indexed(nodes, Root, nodes[decl].name)
         /\ nodes' = nodes /\ pending' = Conflict(decl)
  BY <1>0 DEF DeclIndex, Goto, Throw
<1>4. CASE pc' = "stmt" /\ UNCHANGED pending
  <2>1. cur \in Rest
    BY <1>1, <1>s DEF Ahead, AheadDecl
  <2>2. Silent'
    BY <1>2, <1>4, <1>s DEF Silent
  <2> QED
    BY <1>2, <1>4, <2>1, <2>2, AheadFrame DEF Ahead, AheadReference, AheadType, AheadDecl, AheadMember
<1>5. CASE /\ Indexed(nodes, Root, nodes[decl].name)
           /\ nodes' = nodes /\ pending' = Conflict(decl)
  <2>1. Clash(nodes)
    BY <1>0, <1>1, <1>5, RootClashes DEF IndexSound
  <2>2. Clash(nodes')
    BY <1>5, <2>1
  <2>3. ~Silent' /\ FirstConflict'
    BY <1>2, <1>5, <1>s, ThrownNotNone DEF Silent, FirstConflict, Conflict
  <2> QED
    BY <2>2, <2>3 DEF Conflicting
<1> QED
  BY <1>3, <1>4, <1>5

-----------------------------------------------------------------------------
(* The inductive invariant of what is rejected. *)

Exact == WellFormed /\ NoneFailed

RejectInv ==
  /\ GrammarInv
  /\ Silent => FreshField /\ FreshDecl
  /\ Exact /\ Silent => Ahead
  /\ Exact /\ ~Silent => FirstConflict /\ Clash(nodes)

\* On a sentence of the grammar, when nothing fails, a step from silence goes on
\* or meets a conflict.
LEMMA SilenceOrClash ==
  ASSUME GrammarInv, Silent, FreshField, FreshDecl, Ahead, Next, oom' = oom
  PROVE  (Silent' /\ Ahead') \/ Conflicting'
<1>0. /\ TypeOK /\ EndNotConsumed /\ IndexSound /\ SlotLinked /\ SilentInv /\ InGrammar /\ Places
      /\ nodes \in Seq(Node) /\ Root \in 1 .. Len(nodes) /\ decl \in 1 .. Len(nodes)
      /\ Names \subseteq Keys
  BY AstTypes, NamesAreNotKinds DEF GrammarInv, SilentInv, IInv
<1>1. Going
  BY <1>0 DEF Going
<1>2. UNCHANGED tokens
  BY <1>0, TokensKept
<1>3. UNCHANGED decl => InEnum' = InEnum
  <2>1. KeepsNames(nodes, nodes')
    BY <1>0, NodesGrow DEF Grows
  <2> QED
    BY <1>0, <2>1 DEF KeepsNames, SameName, InEnum
<1>4. CASE \/ ParseProgram \/ ModuleSemi \/ IdRefScope \/ IdRefName
           \/ BeginImport \/ ImportMember \/ ImportSemi
  BY <1>1, <1>2, <1>4, AheadAtReference
<1>5. CASE TypeName \/ CustomType \/ TypeSuffix \/ BaseColon \/ FieldColon
  <2>1. UNCHANGED decl
    BY <1>5 DEF TypeName, CustomType, TypeSuffix, BaseColon, FieldColon
  <2> QED
    BY <1>1, <1>2, <1>3, <1>5, <2>1, AheadAtType
<1>6. CASE FieldName \/ LeaveField \/ ItemName \/ ItemAssign \/ ItemValue \/ LeaveItem \/ Comma
  <2>1. UNCHANGED decl
    BY <1>6 DEF FieldName, LeaveField, ItemName, ItemAssign, ItemValue, LeaveItem, Comma
  <2> QED
    BY <1>1, <1>2, <1>3, <1>6, <2>1, AheadAtMember
<1>7. CASE BodyOpen \/ BodyClose \/ LeaveBody \/ Finish \/ DestroyParser \/ Terminating
  <2>1. UNCHANGED decl
    BY <1>7 DEF BodyOpen, BodyClose, LeaveBody, Finish, DestroyParser, Terminating, vars
  <2> QED
    BY <1>1, <1>2, <1>3, <1>7, <2>1, AheadAtDecl
<1>8. CASE LinkMember
  <2>1. UNCHANGED decl
    BY <1>8 DEF LinkMember
  <2> QED
    BY <1>0, <1>1, <1>2, <1>3, <1>8, <2>1, LinkOrClash
<1>9. CASE DeclIndex
  BY <1>0, <1>1, <1>2, <1>9, EntryOrClash
<1>10. ASSUME NEW k \in {"class", "struct", "enum"}, BeginDecl(k)
       PROVE  Silent' /\ Ahead'
  <2> DEFINE n == Len(nodes) + 1
             Pushed(name) == PushMember(Append(nodes, NewNode(k, name)), Root, n)
  <2>1. /\ cur \in Rest /\ Tok = k
    BY <1>1, <1>10 DEF BeginDecl, Going, Ahead, AheadDecl
  <2>2. Tok2 \in Names
    BY <1>0, <2>1, RestToken DEF Tok, Tok2
  <2>3. nodes' = Pushed(Tok2)
    BY <1>0, <1>10, <2>2, NothingFails DEF BeginDecl
  <2>4. Pushed(Tok2)[n].kind = k
    <3>1. Tok2 \in Keys
      BY <1>0, <2>2
    <3> QED
      BY <1>0, <3>1, KeepsNewMember
  <2> HIDE DEF Pushed
  <2>5. nodes'[Len(nodes) + 1].kind = k
    BY <2>3, <2>4
  <2> QED
    BY <1>1, <1>2, <1>10, <2>5, AheadAtStart
<1>11. ~CatchModule /\ ~CatchField /\ ~CatchStmt /\ ~NotADecl
  BY <1>1, NothingCaught
<1> QED
  BY <1>4, <1>5, <1>6, <1>7, <1>8, <1>9, <1>10, <1>11 DEF Next

\* Once a conflict has come first it stays the first, and the clash stays.
LEMMA ConflictStays ==
  ASSUME GrammarInv, ~Silent, FirstConflict, Clash(nodes), Next, oom' = oom
  PROVE  Conflicting'
<1>0. /\ TypeOK /\ InFlight /\ nodes \in Seq(Node) /\ errors \in Seq(Error) /\ oom \in Nat
  BY AstTypes, MaxOOMAssumption DEF GrammarInv, SilentInv, IInv, TypeOK
<1>1. ~Silent'
  BY <1>0, SilentBefore
<1>2. Clash(nodes')
  BY <1>0, NodesGrow, ClashStays
<1>3. errors' = errors \/ errors' = Append(errors, pending)
  BY ErrorsGrow
<1>4. Kept
  BY <1>0, InFlightStep
<1>5. CASE errors # << >>
  <2>1. errors' # << >> /\ errors'[1] = errors[1]
    BY <1>0, <1>3, <1>5
  <2> QED
    BY <1>1, <1>2, <1>5, <2>1 DEF Conflicting, FirstConflict
<1>6. CASE errors = << >>
  <2>1. pending # NoError /\ pending.kind = "ConflictingDefinitions"
    BY <1>6 DEF Silent, FirstConflict
  <2>2. pending' = pending \/ (pending' = NoError /\ errors' = Append(errors, pending))
    BY <1>0, <1>4, <2>1 DEF Kept
  <2>3. \/ errors' = << >> /\ pending' = pending
        \/ errors' # << >> /\ errors'[1] = pending
    <3>1. Append(errors, pending) # << >> /\ Append(errors, pending)[1] = pending
      BY <1>0, <1>6
    <3>2. CASE errors' = Append(errors, pending)
      BY <3>1, <3>2
    <3>3. CASE errors' # Append(errors, pending)
      BY <1>3, <1>6, <2>2, <3>3
    <3> QED
      BY <3>2, <3>3
  <2>4. FirstConflict'
    BY <2>1, <2>3 DEF FirstConflict
  <2> QED
    BY <1>1, <1>2, <2>4 DEF Conflicting
<1> QED
  BY <1>5, <1>6

\* The invariant holds at the start,
LEMMA RejectInit == Init => RejectInv
<1> SUFFICES ASSUME Init PROVE RejectInv
  OBVIOUS
<1>1. GrammarInv /\ TypeOK
  BY GrammarInit, TypeInit
<1>2. pc = "begin" /\ cur = 0 /\ Silent
  BY DEF Init, Silent
<1>3. FreshField /\ FreshDecl
  BY <1>2 DEF FreshField, FieldInWork, FieldPlaces, TypePlaces, FreshDecl, InDecl, BodyPCs
<1>4. ASSUME WellFormed PROVE Ahead
  <2>1. cur \in Rest \/ cur \in ModuleAhead
    BY <1>1, <1>2, <1>4, ProgramAhead
  <2> QED
    BY <1>2, <2>1 DEF Ahead, AheadReference, AheadType, AheadDecl, AheadMember
<1> QED
  BY <1>1, <1>2, <1>3, <1>4 DEF RejectInv, Exact

\* and every step keeps it.
LEMMA RejectNext == RejectInv /\ [Next]_vars => RejectInv'
<1> SUFFICES ASSUME RejectInv, [Next]_vars PROVE RejectInv'
  OBVIOUS
<1>0. /\ GrammarInv /\ SilentInv /\ TypeOK /\ EndNotConsumed /\ InFlight /\ IInv
  BY DEF RejectInv, GrammarInv, SilentInv, IInv
<1>1. GrammarInv'
  BY <1>0, GrammarNext
<1>2. CASE UNCHANGED vars
  <2> USE <1>2
  <2>1. UNCHANGED tokens
    BY DEF vars
  <2>2. Silent' = Silent /\ Exact' = Exact
    BY <2>1, AheadFrame DEF vars, Silent, Exact, NoneFailed
  <2>3. FreshField' = FreshField /\ FreshDecl' = FreshDecl
    BY DEF vars, FreshField, FieldInWork, FreshDecl, InDecl
  <2>4. FirstConflict' = FirstConflict /\ Clash(nodes') = Clash(nodes)
    BY DEF vars, FirstConflict
  <2>5. InEnum' = InEnum
    BY DEF vars, InEnum
  <2>6. Ahead => Ahead'
    BY <2>1, <2>5, AheadFrame DEF vars, Ahead, AheadReference, AheadType, AheadDecl, AheadMember
  <2> QED
    BY <1>1, <2>2, <2>3, <2>4, <2>6 DEF RejectInv
<1>3. CASE Next
  <2>1. ASSUME Silent'
        PROVE  FreshField' /\ FreshDecl'
    <3>1. Silent /\ FreshField /\ FreshDecl
      BY <1>0, <1>3, <2>1, SilentBefore DEF RejectInv
    <3>2. NothingMissing
      BY <1>0, <3>1 DEF SilentInv
    <3> QED
      BY <1>0, <1>3, <2>1, <3>1, <3>2, FieldStaysFresh, DeclStaysFresh
  <2>2. ASSUME Exact'
        PROVE  (Silent' /\ Ahead') \/ Conflicting'
    <3>1. oom' = oom /\ NoneFailed
      BY <1>0, <1>3, <2>2, NoneFailedBefore DEF Exact
    <3>2. WellFormed
      <4>1. UNCHANGED tokens
        BY <1>0, <1>3, TokensKept
      <4> QED
        BY <2>2, <4>1, AheadFrame DEF Exact
    <3>3. Exact
      BY <3>1, <3>2 DEF Exact
    <3>4. CASE Silent
      BY <1>0, <1>3, <3>1, <3>3, <3>4, SilenceOrClash DEF RejectInv
    <3>5. CASE ~Silent
      BY <1>0, <1>3, <3>1, <3>3, <3>5, ConflictStays DEF RejectInv
    <3> QED
      BY <3>4, <3>5
  <2> QED
    BY <1>1, <2>1, <2>2 DEF RejectInv, Conflicting
<1> QED
  BY <1>2, <1>3

\* On a sentence of the grammar, unless an allocation fails, the first thing the
\* parser reports is a definition that conflicts with another of its container:
\* no production is refused, whatever the parser's order of tests.
THEOREM RejectedIsDuplicate == Spec => []RejectsOnlyDuplicates
<1>1. Spec => []RejectInv
  BY RejectInit, RejectNext, PTL DEF Spec
<1>2. RejectInv => RejectsOnlyDuplicates
  <2> SUFFICES ASSUME RejectInv, NoOOM, errors # << >>, WellFormed
               PROVE  errors[1].kind = "ConflictingDefinitions" /\ Duplicates
    BY DEF RejectsOnlyDuplicates
  <2>1. Exact /\ ~Silent
    BY DEF NoOOM, NoneFailed, Exact, Silent
  <2>2. FirstConflict /\ Clash(nodes)
    BY <2>1 DEF RejectInv
  <2> QED
    BY <2>2, ClashIsDuplicate DEF FirstConflict
<1> QED
  BY <1>1, <1>2, PTL

=============================================================================
