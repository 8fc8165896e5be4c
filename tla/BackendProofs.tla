---------------------------- MODULE BackendProofs ----------------------------
(* Proofs about Backend, for every set of modules, and every number of faults. *)
EXTENDS Backend, DataInduction

LOCAL SQ == INSTANCE SequenceTheorems

-----------------------------------------------------------------------------
(* Sequences: what \o and FlattenSeq hold, and in which order.              *)

\* What a sequence made of two holds.
LEMMA ConcatHolds ==
  ASSUME NEW S, NEW s \in Seq(S), NEW t \in Seq(S)
  PROVE  /\ s \o t \in Seq(S) /\ Len(s \o t) = Len(s) + Len(t)
         /\ \A i \in 1 .. Len(s) : (s \o t)[i] = s[i]
         /\ \A i \in 1 .. Len(t) : (s \o t)[Len(s) + i] = t[i]
         /\ \A i \in 1 .. Len(s) + Len(t) : i > Len(s) => i - Len(s) \in 1 .. Len(t) /\ (s \o t)[i] = t[i - Len(s)]
OBVIOUS

\* The elements of a sequence are what it has at its positions.
LEMMA ElementsAre ==
  ASSUME NEW S, NEW s \in Seq(S)
  PROVE  ToSet(s) = {s[i] : i \in 1 .. Len(s)}
BY DEF ToSet

\* The elements of a sequence made of two are those of both.
LEMMA ConcatElements ==
  ASSUME NEW S, NEW s \in Seq(S), NEW t \in Seq(S)
  PROVE  ToSet(s \o t) = ToSet(s) \cup ToSet(t)
<1> DEFINE u == s \o t
<1>1. u \in Seq(S) /\ Len(u) = Len(s) + Len(t) /\ Len(s) \in Nat /\ Len(t) \in Nat
  BY ConcatHolds
<1>2. /\ \A i \in 1 .. Len(s) : u[i] = s[i] /\ i \in 1 .. Len(u)
      /\ \A i \in 1 .. Len(t) : u[Len(s) + i] = t[i] /\ Len(s) + i \in 1 .. Len(u)
      /\ \A i \in 1 .. Len(u) : i > Len(s) => i - Len(s) \in 1 .. Len(t) /\ u[i] = t[i - Len(s)]
  BY ConcatHolds, <1>1
<1>3. ToSet(u) = {u[i] : i \in 1 .. Len(u)} /\ ToSet(s) = {s[i] : i \in 1 .. Len(s)} /\ ToSet(t) = {t[i] : i \in 1 .. Len(t)}
  BY <1>1, ElementsAre
<1> HIDE DEF u
<1>4. ToSet(u) \subseteq ToSet(s) \cup ToSet(t)
  <2>1. ASSUME NEW i \in 1 .. Len(u)
        PROVE  u[i] \in ToSet(s) \cup ToSet(t)
    <3>1. CASE i > Len(s)
      BY <3>1, <1>2, <1>3
    <3>2. CASE ~(i > Len(s))
      <4>1. i \in 1 .. Len(s)
        BY <3>2, <1>1
      <4> QED
        BY <4>1, <1>2, <1>3
    <3> QED
      BY <3>1, <3>2
  <2> QED
    BY <2>1, <1>3
<1>5. ToSet(s) \subseteq ToSet(u) /\ ToSet(t) \subseteq ToSet(u)
  BY <1>2, <1>3
<1> QED
  BY <1>4, <1>5 DEF u

\* FlattenSeq puts one sequence after the other.
FlattenStep(f, ss, i) == IF i = 1 THEN ss[i] ELSE f[i - 1] \o ss[i]
\* FlattenSeq puts its parts together one by one.
LEMMA FlattenSteps ==
  ASSUME NEW S, NEW ss \in Seq(Seq(S))
  PROVE  \E G \in [0 .. Len(ss) -> Seq(S)] :
           /\ G[0] = << >> /\ G[Len(ss)] = FlattenSeq(ss)
           /\ \A n \in 0 .. Len(ss) - 1 : G[n + 1] = G[n] \o ss[n + 1]
<1>0. Len(ss) \in Nat
  OBVIOUS
<1>1. CASE Len(ss) = 0
  <2> DEFINE G == [n \in 0 .. Len(ss) |-> << >>]
  <2>1. G \in [0 .. Len(ss) -> Seq(S)] /\ G[0] = << >> /\ 0 .. Len(ss) - 1 = {}
    BY <1>1
  <2>2. FlattenSeq(ss) = << >>
    BY <1>1 DEF FlattenSeq
  <2> QED
    BY <1>1, <2>1, <2>2
<1>2. CASE Len(ss) > 0
  <2> DEFINE Rec(f, n) == f = [i \in 1 .. n |-> FlattenStep(f, ss, i)]
  <2> DEFINE T == {n \in Nat : \E f : Rec(f, n)}
  <2>1. 0 \in T
    <3> DEFINE f == [j \in 1 .. 0 |-> << >>]
    <3>1. Rec(f, 0)
      <4>1. 1 .. 0 = {}
        OBVIOUS
      <4> QED
        BY <4>1
    <3> QED
      BY <3>1
  <2>2. ASSUME NEW n \in Nat, n \in T
        PROVE  n + 1 \in T
    <3>1. PICK f : Rec(f, n)
      BY <2>2
    <3> DEFINE g == [j \in 1 .. n + 1 |-> IF j <= n THEN f[j] ELSE FlattenStep(f, ss, n + 1)]
    <3>2. ASSUME NEW j \in 1 .. n + 1
          PROVE  g[j] = FlattenStep(g, ss, j)
      <4>1. j # 1 => g[j - 1] = f[j - 1]
        OBVIOUS
      <4>2. FlattenStep(g, ss, j) = FlattenStep(f, ss, j)
        <5> HIDE DEF g
        <5> QED
          BY <4>1 DEF FlattenStep
      <4>3. CASE j <= n
        <5>1. g[j] = f[j] /\ j \in 1 .. n
          BY <4>3
        <5>2. f[j] = FlattenStep(f, ss, j)
          BY <3>1, <5>1
        <5> QED
          BY <4>2, <5>1, <5>2
      <4>4. CASE j = n + 1
        <5>1. g[j] = FlattenStep(f, ss, n + 1)
          BY <4>4
        <5> QED
          BY <4>2, <4>4, <5>1
      <4> QED
        BY <4>3, <4>4
    <3>3. Rec(g, n + 1)
      <4>1. g = [j \in 1 .. n + 1 |-> g[j]]
        OBVIOUS
      <4> HIDE DEF g
      <4> QED
        BY <3>2, <4>1
    <3> HIDE DEF g, Rec
    <3> QED
      BY <3>3
  <2>3. \A n \in Nat : n \in T
    <3> HIDE DEF T
    <3> QED
      BY <2>1, <2>2, NaturalsByInduction, Zenon
  <2> DEFINE F == CHOOSE f : f = [i \in 1 .. Len(ss) |-> IF i = 1 THEN ss[i] ELSE f[i - 1] \o ss[i]]
  <2>4. F = [i \in 1 .. Len(ss) |-> IF i = 1 THEN ss[i] ELSE F[i - 1] \o ss[i]]
    <3>1. PICK f : f = [i \in 1 .. Len(ss) |-> FlattenStep(f, ss, i)]
      BY <1>0, <2>3
    <3>2. f = [i \in 1 .. Len(ss) |-> IF i = 1 THEN ss[i] ELSE f[i - 1] \o ss[i]]
      BY <3>1, Zenon DEF FlattenStep
    <3> QED
      BY <3>2, Zenon
  <2>5. FlattenSeq(ss) = F[Len(ss)]
    <3>1. Len(ss) # 0
      BY <1>2
    <3> QED
      BY <3>1, Zenon DEF FlattenSeq
  <2>6. \A i \in 1 .. Len(ss) : F[i] = IF i = 1 THEN ss[i] ELSE F[i - 1] \o ss[i]
    <3> HIDE DEF F
    <3> QED
      BY <2>4
  <2> HIDE DEF F, T, Rec
  <2> DEFINE G == [n \in 0 .. Len(ss) |-> IF n = 0 THEN << >> ELSE F[n]]
  <2>7. ASSUME NEW n \in 0 .. Len(ss) - 1
        PROVE  G[n + 1] = G[n] \o ss[n + 1]
    <3>1. n + 1 \in 1 .. Len(ss) /\ n \in Nat /\ ss[n + 1] \in Seq(S)
      BY <1>0
    <3>2. G[n + 1] = F[n + 1]
      BY <3>1, <1>0
    <3>3. CASE n = 0
      <4>1. G[n] = << >> /\ F[n + 1] = ss[n + 1]
        BY <3>3, <3>1, <2>6, <1>0
      <4>2. << >> \o ss[n + 1] = ss[n + 1]
        BY <3>1, SQ!ConcatEmptySeq
      <4> QED
        BY <4>1, <4>2, <3>2
    <3>4. CASE n # 0
      <4>1. G[n] = F[n]
        BY <3>4, <1>0
      <4>2. F[n + 1] = F[n] \o ss[n + 1]
        <5>1. n + 1 # 1 /\ (n + 1) - 1 = n
          BY <3>4, <3>1
        <5> QED
          BY <5>1, <3>1, <2>6
      <4> QED
        BY <4>1, <4>2, <3>2
    <3> QED
      BY <3>3, <3>4
  <2>8. G[0] = << >> /\ G[Len(ss)] = FlattenSeq(ss) /\ DOMAIN G = 0 .. Len(ss)
    BY <1>0, <1>2, <2>5
  <2>9. G = [n \in 0 .. Len(ss) |-> G[n]]
    OBVIOUS
  <2> HIDE DEF G
  <2> DEFINE U == {n \in Nat : n <= Len(ss) => G[n] \in Seq(S)}
  <2>10. 0 \in U
    <3>1. << >> \in Seq(S)
      OBVIOUS
    <3> QED
      BY <2>8, <3>1
  <2>11. ASSUME NEW n \in Nat, n \in U
         PROVE  n + 1 \in U
    <3> SUFFICES ASSUME n + 1 <= Len(ss)
                 PROVE  G[n + 1] \in Seq(S)
      OBVIOUS
    <3>1. n \in 0 .. Len(ss) - 1 /\ G[n] \in Seq(S) /\ ss[n + 1] \in Seq(S)
      BY <1>0, <2>11
    <3>2. G[n + 1] = G[n] \o ss[n + 1]
      BY <3>1, <2>7
    <3> HIDE DEF G
    <3> QED
      BY <3>1, <3>2, SQ!ConcatProperties
  <2>12. \A n \in Nat : n \in U
    <3> HIDE DEF U
    <3> QED
      BY <2>10, <2>11, NaturalsByInduction, Zenon
  <2>13. \A n \in 0 .. Len(ss) : G[n] \in Seq(S)
    BY <2>12, <1>0
  <2>14. G \in [0 .. Len(ss) -> Seq(S)]
    BY <2>9, <2>13
  <2> QED
    BY <2>7, <2>8, <2>14, Zenon
<1>3. Len(ss) = 0 \/ Len(ss) > 0
  BY <1>0
<1> QED
  BY <1>1, <1>2, <1>3, Zenon

\* What holds of the empty sequence and of s \o t whenever it holds of s and of
\* the element t of ss holds of FlattenSeq(ss): the step of that induction.
LEMMA FlattenInduction ==
  ASSUME NEW S, NEW ss \in Seq(Seq(S)), NEW P, P \subseteq Nat \X Seq(S),
         << 0, << >> >> \in P,
         \A n \in 0 .. Len(ss) - 1 : \A s \in Seq(S) : << n, s >> \in P => << n + 1, s \o ss[n + 1] >> \in P
  PROVE  << Len(ss), FlattenSeq(ss) >> \in P
<1>1. PICK G \in [0 .. Len(ss) -> Seq(S)] :
        /\ G[0] = << >> /\ G[Len(ss)] = FlattenSeq(ss)
        /\ \A n \in 0 .. Len(ss) - 1 : G[n + 1] = G[n] \o ss[n + 1]
  BY FlattenSteps
<1>2. Len(ss) \in Nat
  OBVIOUS
<1> DEFINE U == {n \in Nat : n <= Len(ss) => << n, G[n] >> \in P}
<1>3. 0 \in U
  BY <1>1
<1>4. ASSUME NEW n \in Nat, n \in U
      PROVE  n + 1 \in U
  <2> SUFFICES ASSUME n + 1 <= Len(ss)
               PROVE  << n + 1, G[n + 1] >> \in P
    OBVIOUS
  <2>1. n \in 0 .. Len(ss) - 1 /\ n \in 0 .. Len(ss) /\ << n, G[n] >> \in P
    BY <1>2, <1>4
  <2>2. G[n] \in Seq(S) /\ G[n + 1] = G[n] \o ss[n + 1]
    BY <1>1, <2>1
  <2> HIDE DEF U
  <2> QED
    BY <2>1, <2>2, Zenon
<1>5. \A n \in Nat : n \in U
  <2> HIDE DEF U
  <2> QED
    BY <1>3, <1>4, NaturalsByInduction, Zenon
<1>6. Len(ss) \in U /\ Len(ss) <= Len(ss)
  BY <1>2, <1>5
<1> QED
  BY <1>1, <1>6

\* The elements of FlattenSeq(ss) are those of the elements of ss.
LEMMA FlattenElements ==
  ASSUME NEW S, NEW ss \in Seq(Seq(S))
  PROVE  FlattenSeq(ss) \in Seq(S) /\ ToSet(FlattenSeq(ss)) = UNION {ToSet(ss[k]) : k \in 1 .. Len(ss)}
<1> DEFINE P == {p \in Nat \X Seq(S) : ToSet(p[2]) = UNION {ToSet(ss[k]) : k \in 1 .. p[1]}}
<1>1. << 0, << >> >> \in P
  <2>1. ToSet(<< >>) = {} /\ 1 .. 0 = {} /\ << >> \in Seq(S)
    BY DEF ToSet
  <2> QED
    BY <2>1
<1>2. ASSUME NEW n \in 0 .. Len(ss) - 1, NEW s \in Seq(S), << n, s >> \in P
      PROVE  << n + 1, s \o ss[n + 1] >> \in P
  <2>1. n + 1 \in 1 .. Len(ss) /\ n \in Nat /\ n + 1 \in Nat /\ ss[n + 1] \in Seq(S)
    OBVIOUS
  <2>2. ToSet(s \o ss[n + 1]) = ToSet(s) \cup ToSet(ss[n + 1]) /\ s \o ss[n + 1] \in Seq(S)
    BY <2>1, ConcatElements, SQ!ConcatProperties
  <2>3. ToSet(s) = UNION {ToSet(ss[k]) : k \in 1 .. n}
    BY <1>2
  <2>4. 1 .. n + 1 = (1 .. n) \cup {n + 1}
    BY <2>1
  <2>5. UNION {ToSet(ss[k]) : k \in 1 .. n + 1} = (UNION {ToSet(ss[k]) : k \in 1 .. n}) \cup ToSet(ss[n + 1])
    BY <2>4, Zenon
  <2> QED
    BY <2>1, <2>2, <2>3, <2>5
<1>3. P \subseteq Nat \X Seq(S)
  OBVIOUS
<1>4. << Len(ss), FlattenSeq(ss) >> \in P
  <2> HIDE DEF P
  <2> QED
    BY <1>1, <1>2, <1>3, FlattenInduction
<1> QED
  BY <1>4

\* In s, an element of D comes after one that R relates to it.
Led(s, D, R) ==
  \A k \in 1 .. Len(s) : s[k] \in D => \E j \in 1 .. k - 1 : << s[j], s[k] >> \in R

\* Putting two such sequences together makes one.
LEMMA ConcatLed ==
  ASSUME NEW S, NEW s \in Seq(S), NEW t \in Seq(S), NEW D, NEW R, Led(s, D, R), Led(t, D, R)
  PROVE  Led(s \o t, D, R)
<1> DEFINE u == s \o t
<1>1. u \in Seq(S) /\ Len(u) = Len(s) + Len(t) /\ Len(s) \in Nat /\ Len(t) \in Nat
  BY ConcatHolds
<1>2. /\ \A i \in 1 .. Len(s) : u[i] = s[i]
      /\ \A i \in 1 .. Len(t) : u[Len(s) + i] = t[i]
      /\ \A i \in 1 .. Len(u) : i > Len(s) => i - Len(s) \in 1 .. Len(t) /\ u[i] = t[i - Len(s)]
  BY ConcatHolds, <1>1
<1> HIDE DEF u
<1> SUFFICES ASSUME NEW k \in 1 .. Len(u), u[k] \in D
             PROVE  \E j \in 1 .. k - 1 : << u[j], u[k] >> \in R
  BY DEF Led, u
<1>3. CASE k > Len(s)
  <2>1. k - Len(s) \in 1 .. Len(t) /\ u[k] = t[k - Len(s)]
    BY <1>2, <1>3
  <2>2. PICK j \in 1 .. (k - Len(s)) - 1 : << t[j], t[k - Len(s)] >> \in R
    BY <2>1 DEF Led
  <2>3. Len(s) + j \in 1 .. k - 1 /\ j \in 1 .. Len(t)
    BY <1>1, <2>1
  <2> QED
    BY <1>2, <2>1, <2>2, <2>3
<1>4. CASE ~(k > Len(s))
  <2>1. k \in 1 .. Len(s) /\ u[k] = s[k]
    BY <1>1, <1>2, <1>4
  <2>2. PICK j \in 1 .. k - 1 : << s[j], s[k] >> \in R
    BY <2>1 DEF Led
  <2>3. j \in 1 .. Len(s)
    BY <2>1, <1>1
  <2> QED
    BY <1>2, <2>1, <2>2, <2>3
<1> QED
  BY <1>3, <1>4

\* So does putting any number of them together.
LEMMA FlattenLed ==
  ASSUME NEW S, NEW ss \in Seq(Seq(S)), NEW D, NEW R, \A k \in 1 .. Len(ss) : Led(ss[k], D, R)
  PROVE  Led(FlattenSeq(ss), D, R)
<1> DEFINE P == {p \in Nat \X Seq(S) : Led(p[2], D, R)}
<1>1. << 0, << >> >> \in P
  <2>1. Len(<< >>) = 0 /\ << >> \in Seq(S)
    OBVIOUS
  <2>2. Led(<< >>, D, R)
    BY <2>1 DEF Led
  <2> DEFINE e == << >>
  <2>3. e \in Seq(S) /\ Led(e, D, R)
    BY <2>1, <2>2
  <2> HIDE DEF e
  <2>4. << 0, e >> \in P
    BY <2>3
  <2> QED
    BY <2>4 DEF e
<1>2. ASSUME NEW n \in 0 .. Len(ss) - 1, NEW s \in Seq(S), << n, s >> \in P
      PROVE  << n + 1, s \o ss[n + 1] >> \in P
  <2>1. n + 1 \in 1 .. Len(ss) /\ n + 1 \in Nat /\ ss[n + 1] \in Seq(S)
    OBVIOUS
  <2>2. Led(s, D, R)
    BY <1>2
  <2>3. Led(s \o ss[n + 1], D, R) /\ s \o ss[n + 1] \in Seq(S)
    BY <2>1, <2>2, ConcatLed, SQ!ConcatProperties
  <2> QED
    BY <2>1, <2>3
<1>3. P \subseteq Nat \X Seq(S)
  OBVIOUS
<1>4. << Len(ss), FlattenSeq(ss) >> \in P
  <2> HIDE DEF P
  <2> QED
    BY <1>1, <1>2, <1>3, FlattenInduction
<1> QED
  BY <1>4

\* No element of D is twice in s.
Distinct(s, D) ==
  \A j, k \in 1 .. Len(s) : s[j] \in D /\ s[j] = s[k] => j = k

\* Putting two such sequences together makes one if they share none of D.
LEMMA ConcatDistinct ==
  ASSUME NEW S, NEW s \in Seq(S), NEW t \in Seq(S), NEW D, Distinct(s, D), Distinct(t, D),
         ToSet(s) \cap ToSet(t) \cap D = {}
  PROVE  Distinct(s \o t, D)
<1> DEFINE u == s \o t
<1>1. u \in Seq(S) /\ Len(u) = Len(s) + Len(t) /\ Len(s) \in Nat /\ Len(t) \in Nat
  BY ConcatHolds
<1>2. /\ \A i \in 1 .. Len(s) : u[i] = s[i] /\ s[i] \in ToSet(s)
      /\ \A i \in 1 .. Len(u) : i > Len(s) => i - Len(s) \in 1 .. Len(t) /\ u[i] = t[i - Len(s)]
      /\ \A i \in 1 .. Len(t) : t[i] \in ToSet(t)
  BY ConcatHolds, <1>1 DEF ToSet
<1> HIDE DEF u
<1> SUFFICES ASSUME NEW j \in 1 .. Len(u), NEW k \in 1 .. Len(u), u[j] \in D, u[j] = u[k], j < k
             PROVE  FALSE
  <2>1. \A j, k \in 1 .. Len(u) : j = k \/ j < k \/ k < j
    BY <1>1
  <2> QED
    BY <2>1 DEF Distinct, u
<1>3. CASE k > Len(s) /\ j > Len(s)
  <2>1. /\ k - Len(s) \in 1 .. Len(t) /\ u[k] = t[k - Len(s)]
        /\ j - Len(s) \in 1 .. Len(t) /\ u[j] = t[j - Len(s)]
    BY <1>2, <1>3
  <2>2. j - Len(s) = k - Len(s)
    BY <2>1 DEF Distinct
  <2> QED
    BY <2>2, <1>1
<1>4. CASE ~(k > Len(s))
  <2>1. k \in 1 .. Len(s) /\ u[k] = s[k] /\ j \in 1 .. Len(s) /\ u[j] = s[j]
    BY <1>1, <1>2, <1>4
  <2> QED
    BY <2>1 DEF Distinct
<1>5. CASE k > Len(s) /\ ~(j > Len(s))
  <2>1. j \in 1 .. Len(s)
    BY <1>1, <1>5
  <2>2. u[j] \in ToSet(s) /\ u[k] \in ToSet(t)
    BY <1>2, <1>5, <2>1
  <2> QED
    BY <2>2
<1> QED
  BY <1>1, <1>3, <1>4, <1>5

\* Putting any number of them together makes one if no two of them share any.
LEMMA FlattenDistinct ==
  ASSUME NEW S, NEW ss \in Seq(Seq(S)), NEW D,
         \A k \in 1 .. Len(ss) : Distinct(ss[k], D),
         \A j, k \in 1 .. Len(ss) : j # k => ToSet(ss[j]) \cap ToSet(ss[k]) \cap D = {}
  PROVE  Distinct(FlattenSeq(ss), D)
<1> DEFINE P == {p \in Nat \X Seq(S) : Distinct(p[2], D) /\ ToSet(p[2]) = UNION {ToSet(ss[k]) : k \in 1 .. p[1]}}
<1>1. << 0, << >> >> \in P
  <2>1. Len(<< >>) = 0 /\ << >> \in Seq(S) /\ ToSet(<< >>) = {} /\ 1 .. 0 = {}
    BY DEF ToSet
  <2>2. Distinct(<< >>, D)
    BY <2>1 DEF Distinct
  <2> DEFINE e == << >>
  <2>3. e \in Seq(S) /\ ToSet(e) = {} /\ Distinct(e, D)
    BY <2>1, <2>2
  <2> HIDE DEF e
  <2>4. << 0, e >> \in P
    BY <2>1, <2>3
  <2> QED
    BY <2>4 DEF e
<1>2. ASSUME NEW n \in 0 .. Len(ss) - 1, NEW s \in Seq(S), << n, s >> \in P
      PROVE  << n + 1, s \o ss[n + 1] >> \in P
  <2>1. n + 1 \in 1 .. Len(ss) /\ n \in Nat /\ n + 1 \in Nat /\ ss[n + 1] \in Seq(S)
    OBVIOUS
  <2>2. Distinct(s, D) /\ ToSet(s) = UNION {ToSet(ss[k]) : k \in 1 .. n}
    BY <1>2
  <2>3. ToSet(s) \cap ToSet(ss[n + 1]) \cap D = {}
    <3>1. ASSUME NEW k \in 1 .. n
          PROVE  ToSet(ss[k]) \cap ToSet(ss[n + 1]) \cap D = {}
      <4>1. k \in 1 .. Len(ss) /\ k # n + 1
        BY <2>1
      <4> QED
        BY <2>1, <4>1, Zenon
    <3> QED
      BY <2>2, <3>1
  <2>4. Distinct(s \o ss[n + 1], D) /\ s \o ss[n + 1] \in Seq(S)
    BY <2>1, <2>2, <2>3, ConcatDistinct, SQ!ConcatProperties
  <2>5. ToSet(s \o ss[n + 1]) = ToSet(s) \cup ToSet(ss[n + 1])
    BY <2>1, ConcatElements
  <2>6. 1 .. n + 1 = (1 .. n) \cup {n + 1}
    BY <2>1
  <2>7. UNION {ToSet(ss[k]) : k \in 1 .. n + 1} = (UNION {ToSet(ss[k]) : k \in 1 .. n}) \cup ToSet(ss[n + 1])
    BY <2>6, Zenon
  <2> QED
    BY <2>1, <2>2, <2>4, <2>5, <2>7
<1>3. P \subseteq Nat \X Seq(S)
  OBVIOUS
<1>4. << Len(ss), FlattenSeq(ss) >> \in P
  <2> HIDE DEF P
  <2> QED
    BY <1>1, <1>2, <1>3, FlattenInduction
<1> QED
  BY <1>4

\* In s \o t what only s has comes before what only t has.
LEMMA ConcatBefore ==
  ASSUME NEW S, NEW s \in Seq(S), NEW t \in Seq(S), NEW x, x \notin ToSet(t), NEW y, y \notin ToSet(s),
         NEW i \in 1 .. Len(s \o t), (s \o t)[i] = x,
         NEW j \in 1 .. Len(s \o t), (s \o t)[j] = y
  PROVE  i < j
<1> DEFINE u == s \o t
<1>1. u \in Seq(S) /\ Len(u) = Len(s) + Len(t) /\ Len(s) \in Nat /\ Len(t) \in Nat
  BY ConcatHolds
<1>2. /\ \A k \in 1 .. Len(s) : u[k] = s[k] /\ s[k] \in ToSet(s)
      /\ \A k \in 1 .. Len(u) : k > Len(s) => k - Len(s) \in 1 .. Len(t) /\ u[k] = t[k - Len(s)]
      /\ \A k \in 1 .. Len(t) : t[k] \in ToSet(t)
  BY ConcatHolds, <1>1 DEF ToSet
<1> HIDE DEF u
<1>3. i \in 1 .. Len(u) /\ u[i] = x /\ j \in 1 .. Len(u) /\ u[j] = y
  BY DEF u
<1>4. ~(i > Len(s))
  BY <1>2, <1>3
<1>5. j > Len(s)
  <2>1. j \notin 1 .. Len(s)
    BY <1>2, <1>3
  <2> QED
    BY <2>1, <1>1, <1>3
<1> QED
  BY <1>1, <1>3, <1>4, <1>5

-----------------------------------------------------------------------------
(* The module: what the assumption on Programs says of its members.         *)

\* What the assumption on the modules says of the members of one.
LEMMA MembersAre ==
  ASSUME mod \in Programs
  PROVE  /\ Len(Members) \in Nat /\ mod.path \in Nat
         /\ \A m \in 1 .. Len(Members) :
              /\ Members[m].items \in Seq(Value) /\ Len(Members[m].items) \in Nat
              /\ DOMAIN Members[m].items = 1 .. Len(Members[m].items)
              /\ \A i \in 1 .. Len(Members[m].items) : WellKept(Members[m].items[i])
              /\ Len(Members[m].fields) \in Nat
<1>1. mod.path \in Nat /\ Members \in Seq(Range(Members))
  BY ProgramsAssumption DEF Members
<1>2. \A x \in Range(Members) :
        /\ x.items \in Seq(Value) /\ \A i \in 1 .. Len(x.items) : WellKept(x.items[i])
        /\ x.fields \in Seq(Range(x.fields))
  BY ProgramsAssumption DEF Members
<1>3. Len(Members) \in Nat /\ \A m \in 1 .. Len(Members) : Members[m] \in Range(Members)
  BY <1>1
<1> QED
  BY <1>1, <1>2, <1>3

\* Positions are the places of a kind of member, each once.
LEMMA PositionsAre ==
  ASSUME mod \in Programs, NEW kind
  PROVE  /\ Positions(kind) \in Seq(1 .. Len(Members))
         /\ ToSet(Positions(kind)) = {i \in 1 .. Len(Members) : Members[i].kind = kind}
         /\ Distinct(Positions(kind), Nat)
<1> DEFINE N == Len(Members)
           At1(i) == IF Members[i].kind = kind THEN << i >> ELSE << >>
           ss == [i \in 1 .. N |-> At1(i)]
<1>1. N \in Nat
  BY MembersAre
<1>2. ASSUME NEW i \in 1 .. N
      PROVE  /\ At1(i) \in Seq(1 .. N) /\ ToSet(At1(i)) = {j \in {i} : Members[j].kind = kind}
             /\ Distinct(At1(i), Nat)
  <2>1. /\ << i >> \in Seq(1 .. N) /\ Len(<< i >>) = 1 /\ << i >>[1] = i
        /\ << >> \in Seq(1 .. N) /\ Len(<< >>) = 0
    OBVIOUS
  <2>2. ToSet(<< i >>) = {i} /\ ToSet(<< >>) = {}
    BY <2>1 DEF ToSet
  <2>3. Distinct(<< i >>, Nat) /\ Distinct(<< >>, Nat)
    BY <2>1 DEF Distinct
  <2>4. CASE Members[i].kind = kind
    BY <2>1, <2>2, <2>3, <2>4
  <2>5. CASE Members[i].kind # kind
    BY <2>1, <2>2, <2>3, <2>5
  <2> QED
    BY <2>4, <2>5
<1> HIDE DEF N, At1
<1>3. Len(ss) = N /\ ss \in Seq(Seq(1 .. N)) /\ \A i \in 1 .. N : ss[i] = At1(i)
  BY <1>1, <1>2
<1>4. Positions(kind) = FlattenSeq(ss)
  BY DEF Positions, At1, N
<1> HIDE DEF ss
<1>5. /\ FlattenSeq(ss) \in Seq(1 .. N)
      /\ ToSet(FlattenSeq(ss)) = UNION {ToSet(ss[i]) : i \in 1 .. N}
  BY <1>3, FlattenElements
<1>6. UNION {ToSet(ss[i]) : i \in 1 .. N} = {i \in 1 .. N : Members[i].kind = kind}
  BY <1>2, <1>3
<1>7. Distinct(FlattenSeq(ss), Nat)
  <2>1. \A i \in 1 .. N : Distinct(ss[i], Nat)
    BY <1>2, <1>3
  <2>2. \A i, j \in 1 .. N : i # j => ToSet(ss[i]) \cap ToSet(ss[j]) \cap Nat = {}
    BY <1>2, <1>3
  <2> QED
    BY <1>3, <2>1, <2>2, FlattenDistinct
<1> QED
  BY <1>4, <1>5, <1>6, <1>7 DEF N

-----------------------------------------------------------------------------
(* The jobs.                                                                *)

Ops == { "open", "classify", "open_ns", "fill", "enum", "item", "forward", "begin", "field",
         "accessor", "resources", "layout", "declare_create", "close_ns", "close", "create",
         "make_layout", "add_field", "end" }
Files == {"header", "source", "module", "none"}
Jobs == [op : Ops, file : Files, m : Nat, f : Nat]

\* A job has the fields it is made of.
LEMMA JobHas ==
  ASSUME NEW op, NEW file, NEW m, NEW f
  PROVE  /\ Job(op, file, m, f).op = op /\ Job(op, file, m, f).file = file
         /\ Job(op, file, m, f).m = m /\ Job(op, file, m, f).f = f
         /\ op \in Ops /\ file \in Files /\ m \in Nat /\ f \in Nat => Job(op, file, m, f) \in Jobs
BY DEF Job, Jobs

\* A sequence written as a function of its places.
LEMMA Listed ==
  ASSUME NEW S, NEW n \in Nat, NEW s, s = [i \in 1 .. n |-> s[i]], \A i \in 1 .. n : s[i] \in S
  PROVE  s \in Seq(S) /\ Len(s) = n /\ ToSet(s) = {s[i] : i \in 1 .. n}
<1>1. s \in Seq(S) /\ Len(s) = n
  OBVIOUS
<1> QED
  BY <1>1, ElementsAre

\* A step that is no loop is one job.
LEMMA OnceHolds ==
  ASSUME NEW op \in Ops, NEW file \in Files
  PROVE  Once(op, file) \in Seq(Jobs) /\ ToSet(Once(op, file)) = {Job(op, file, 0, 0)}
<1> DEFINE j == Job(op, file, 0, 0)
<1>1. j \in Jobs
  BY JobHas
<1>2. Once(op, file) = << j >>
  BY DEF Once
<1> HIDE DEF j
<1>3. << j >> \in Seq(Jobs) /\ Len(<< j >>) = 1 /\ << j >>[1] = j
  BY <1>1
<1>4. ToSet(<< j >>) = {j}
  BY <1>3 DEF ToSet
<1> QED
  BY <1>2, <1>3, <1>4 DEF j

FieldJobs(op, file, m) == {Job(op, file, m, f) : f \in 1 .. Len(Members[m].fields)}
ItemJobs(op, file, m) == {Job(op, file, m, f) : f \in 1 .. Len(Members[m].items)}

\* What the jobs about fields and items are.
LEMMA FieldJobsAre ==
  ASSUME NEW op, NEW file, NEW m
  PROVE  /\ \A x \in FieldJobs(op, file, m) : x.op = op /\ x.file = file /\ x.m = m /\ x.f \in 1 .. Len(Members[m].fields)
         /\ \A x \in ItemJobs(op, file, m) : x.op = op /\ x.file = file /\ x.m = m /\ x.f \in 1 .. Len(Members[m].items)
BY JobHas DEF FieldJobs, ItemJobs

\* The loops over the fields and over the items of a member.
LEMMA EachFieldHolds ==
  ASSUME mod \in Programs, NEW op \in Ops, NEW file \in Files, NEW m \in 1 .. Len(Members)
  PROVE  /\ EachField(op, file, m) \in Seq(Jobs) /\ Len(EachField(op, file, m)) = Len(Members[m].fields)
         /\ ToSet(EachField(op, file, m)) = FieldJobs(op, file, m)
         /\ \A f \in 1 .. Len(Members[m].fields) : EachField(op, file, m)[f] = Job(op, file, m, f)
<1> DEFINE n == Len(Members[m].fields)  s == EachField(op, file, m)
<1>1. n \in Nat /\ Len(Members) \in Nat /\ m \in Nat
  BY MembersAre
<1>2. s = [f \in 1 .. n |-> Job(op, file, m, f)]
  BY DEF EachField
<1> HIDE DEF n, s
<1>3. \A f \in 1 .. n : s[f] = Job(op, file, m, f) /\ s[f] \in Jobs
  BY <1>1, <1>2, JobHas
<1>4. s = [f \in 1 .. n |-> s[f]]
  BY <1>2
<1>5. s \in Seq(Jobs) /\ Len(s) = n /\ ToSet(s) = {s[f] : f \in 1 .. n}
  BY <1>1, <1>3, <1>4, Listed
<1>6. {s[f] : f \in 1 .. n} = {Job(op, file, m, f) : f \in 1 .. n}
  BY <1>3
<1> QED
  BY <1>3, <1>5, <1>6 DEF n, s, FieldJobs

\* The loop over the items.
LEMMA EachItemHolds ==
  ASSUME mod \in Programs, NEW op \in Ops, NEW file \in Files, NEW m \in 1 .. Len(Members)
  PROVE  /\ EachItem(op, file, m) \in Seq(Jobs) /\ Len(EachItem(op, file, m)) = Len(Members[m].items)
         /\ ToSet(EachItem(op, file, m)) = ItemJobs(op, file, m)
         /\ \A f \in 1 .. Len(Members[m].items) : EachItem(op, file, m)[f] = Job(op, file, m, f)
<1> DEFINE n == Len(Members[m].items)  s == EachItem(op, file, m)
<1>1. n \in Nat /\ Len(Members) \in Nat /\ m \in Nat
  BY MembersAre
<1>2. s = [f \in 1 .. n |-> Job(op, file, m, f)]
  BY DEF EachItem
<1> HIDE DEF n, s
<1>3. \A f \in 1 .. n : s[f] = Job(op, file, m, f) /\ s[f] \in Jobs
  BY <1>1, <1>2, JobHas
<1>4. s = [f \in 1 .. n |-> s[f]]
  BY <1>2
<1>5. s \in Seq(Jobs) /\ Len(s) = n /\ ToSet(s) = {s[f] : f \in 1 .. n}
  BY <1>1, <1>3, <1>4, Listed
<1>6. {s[f] : f \in 1 .. n} = {Job(op, file, m, f) : f \in 1 .. n}
  BY <1>3
<1> QED
  BY <1>3, <1>5, <1>6 DEF n, s, ItemJobs

\* The loop over the members at some positions.
LEMMA EachHolds ==
  ASSUME mod \in Programs, NEW op \in Ops, NEW file \in Files, NEW s \in Seq(1 .. Len(Members))
  PROVE  /\ Each(op, file, s) \in Seq(Jobs) /\ Len(Each(op, file, s)) = Len(s)
         /\ ToSet(Each(op, file, s)) = {Job(op, file, m, 0) : m \in ToSet(s)}
<1> DEFINE n == Len(s)  t == Each(op, file, s)
<1>1. n \in Nat /\ Len(Members) \in Nat /\ ToSet(s) = {s[k] : k \in 1 .. n}
  BY MembersAre, ElementsAre
<1>2. t = [k \in 1 .. n |-> Job(op, file, s[k], 0)]
  BY DEF Each
<1>3. \A k \in 1 .. n : s[k] \in Nat
  BY <1>1
<1> HIDE DEF n, t
<1>4. \A k \in 1 .. n : t[k] = Job(op, file, s[k], 0) /\ t[k] \in Jobs
  BY <1>1, <1>2, <1>3, JobHas
<1>5. t = [k \in 1 .. n |-> t[k]]
  BY <1>2
<1>6. t \in Seq(Jobs) /\ Len(t) = n /\ ToSet(t) = {t[k] : k \in 1 .. n}
  <2>1. n \in Nat /\ \A k \in 1 .. n : t[k] \in Jobs
    BY <1>1, <1>4
  <2> QED
    BY <2>1, <1>5, Listed
<1>7. {t[k] : k \in 1 .. n} = {Job(op, file, m, 0) : m \in ToSet(s)}
  BY <1>1, <1>4
<1> QED
  BY <1>6, <1>7 DEF n, t

\* The loops over the fields of the members at some positions, each once.
LEMMA AllFieldsHold ==
  ASSUME mod \in Programs, NEW op \in Ops, NEW file \in Files, NEW s \in Seq(1 .. Len(Members)), Distinct(s, Nat)
  PROVE  /\ AllFields(op, file, s) \in Seq(Jobs) /\ Distinct(AllFields(op, file, s), Jobs)
         /\ ToSet(AllFields(op, file, s)) = UNION {FieldJobs(op, file, m) : m \in ToSet(s)}
<1> DEFINE n == Len(s)  ss == [k \in 1 .. n |-> EachField(op, file, s[k])]
<1>1. n \in Nat /\ ToSet(s) = {s[k] : k \in 1 .. n} /\ \A k \in 1 .. n : s[k] \in 1 .. Len(Members) /\ s[k] \in Nat
  BY MembersAre, ElementsAre
<1>2. AllFields(op, file, s) = FlattenSeq(ss)
  BY DEF AllFields
<1> HIDE DEF n
<1>3. \A k \in 1 .. n : ss[k] = EachField(op, file, s[k])
  OBVIOUS
<1>4. \A k \in 1 .. n : ss[k] \in Seq(Jobs) /\ ToSet(ss[k]) = FieldJobs(op, file, s[k])
  <2> HIDE DEF ss
  <2> QED
    BY <1>1, <1>3, EachFieldHolds
<1>5. ss \in Seq(Seq(Jobs)) /\ Len(ss) = n
  <2>1. ss = [k \in 1 .. n |-> ss[k]]
    OBVIOUS
  <2> HIDE DEF ss
  <2> QED
    BY <1>1, <1>4, <2>1, Listed
<1> HIDE DEF ss
<1>6. /\ FlattenSeq(ss) \in Seq(Jobs)
      /\ ToSet(FlattenSeq(ss)) = UNION {ToSet(ss[k]) : k \in 1 .. n}
  BY <1>5, FlattenElements
<1>7. UNION {ToSet(ss[k]) : k \in 1 .. n} = UNION {FieldJobs(op, file, m) : m \in ToSet(s)}
  <2>1. {ToSet(ss[k]) : k \in 1 .. n} = {FieldJobs(op, file, m) : m \in ToSet(s)}
    BY <1>1, <1>4
  <2> QED
    BY <2>1
<1>8. ASSUME NEW k \in 1 .. n
      PROVE  Distinct(ss[k], Jobs)
  <2>1. ss[k] = EachField(op, file, s[k]) /\ s[k] \in 1 .. Len(Members)
    BY <1>1, <1>3
  <2>2. /\ Len(EachField(op, file, s[k])) = Len(Members[s[k]].fields)
        /\ \A f \in 1 .. Len(Members[s[k]].fields) : EachField(op, file, s[k])[f] = Job(op, file, s[k], f)
    BY <2>1, EachFieldHolds
  <2>3. \A f \in 1 .. Len(ss[k]) : ss[k][f].f = f
    BY <2>1, <2>2, JobHas
  <2> QED
    BY <2>3, Zenon DEF Distinct
<1>9. ASSUME NEW j \in 1 .. n, NEW k \in 1 .. n, j # k
      PROVE  ToSet(ss[j]) \cap ToSet(ss[k]) \cap Jobs = {}
  <2>1. s[j] # s[k]
    BY <1>1, <1>9 DEF Distinct, n
  <2>2. ToSet(ss[j]) = FieldJobs(op, file, s[j]) /\ ToSet(ss[k]) = FieldJobs(op, file, s[k])
    BY <1>4
  <2>3. \A m : \A x \in FieldJobs(op, file, m) : x.m = m
    BY FieldJobsAre
  <2> QED
    BY <2>1, <2>2, <2>3
<1>10. Distinct(FlattenSeq(ss), Jobs)
  BY <1>5, <1>8, <1>9, FlattenDistinct
<1> QED
  BY <1>2, <1>6, <1>7, <1>10

BodyJobs(file, m) == {Job("begin", file, m, 0)} \cup FieldJobs("field", file, m)
Body(file, m) == << Job("begin", file, m, 0) >> \o EachField("field", file, m)

\* The definition of a member.
LEMMA BodyHolds ==
  ASSUME mod \in Programs, NEW file \in Files, NEW m \in 1 .. Len(Members)
  PROVE  /\ Body(file, m) \in Seq(Jobs) /\ Distinct(Body(file, m), Jobs)
         /\ ToSet(Body(file, m)) = BodyJobs(file, m)
<1> DEFINE j == Job("begin", file, m, 0)  t == EachField("field", file, m)
<1>1. "begin" \in Ops /\ "field" \in Ops /\ m \in Nat /\ 0 \in Nat
  BY MembersAre DEF Ops
<1>2. j \in Jobs /\ j.op = "begin"
  BY <1>1, JobHas
<1>3. /\ t \in Seq(Jobs) /\ ToSet(t) = FieldJobs("field", file, m)
      /\ Len(t) = Len(Members[m].fields)
      /\ \A f \in 1 .. Len(Members[m].fields) : t[f] = Job("field", file, m, f)
  BY <1>1, EachFieldHolds
<1>4. \A f \in 1 .. Len(t) : t[f].f = f
  BY <1>3, JobHas
<1>5. Distinct(t, Jobs)
  BY <1>4, Zenon DEF Distinct
<1>6. \A x \in ToSet(t) : x.op = "field"
  BY <1>3, JobHas DEF FieldJobs
<1> HIDE DEF j, t
<1>7. << j >> \in Seq(Jobs) /\ Len(<< j >>) = 1 /\ << j >>[1] = j
  BY <1>2
<1>8. ToSet(<< j >>) = {j} /\ Distinct(<< j >>, Jobs)
  BY <1>7 DEF ToSet, Distinct
<1>9. ToSet(<< j >>) \cap ToSet(t) \cap Jobs = {}
  BY <1>2, <1>6, <1>8
<1>10. Distinct(<< j >> \o t, Jobs) /\ << j >> \o t \in Seq(Jobs) /\ ToSet(<< j >> \o t) = {j} \cup ToSet(t)
  <2> DEFINE u == << j >>
  <2>1. u \in Seq(Jobs) /\ t \in Seq(Jobs) /\ Distinct(u, Jobs) /\ Distinct(t, Jobs) /\ ToSet(u) \cap ToSet(t) \cap Jobs = {} /\ ToSet(u) = {j}
    BY <1>3, <1>5, <1>7, <1>8, <1>9
  <2> HIDE DEF u
  <2>2. Distinct(u \o t, Jobs)
    BY <2>1, ConcatDistinct
  <2>3. u \o t \in Seq(Jobs) /\ ToSet(u \o t) = {j} \cup ToSet(t)
    BY <2>1, ConcatElements, ConcatHolds
  <2> QED
    BY <2>2, <2>3 DEF u
<1> QED
  BY <1>3, <1>10 DEF j, t, Body, BodyJobs

\* The definitions of the members at some positions, each once.
LEMMA BodiesHold ==
  ASSUME mod \in Programs, NEW file \in Files, NEW s \in Seq(1 .. Len(Members)), Distinct(s, Nat)
  PROVE  /\ Bodies(file, s) \in Seq(Jobs) /\ Distinct(Bodies(file, s), Jobs)
         /\ ToSet(Bodies(file, s)) = UNION {BodyJobs(file, m) : m \in ToSet(s)}
<1> DEFINE n == Len(s)  ss == [k \in 1 .. n |-> Body(file, s[k])]
<1>1. n \in Nat /\ ToSet(s) = {s[k] : k \in 1 .. n} /\ \A k \in 1 .. n : s[k] \in 1 .. Len(Members) /\ s[k] \in Nat
  BY MembersAre, ElementsAre
<1>2. Bodies(file, s) = FlattenSeq(ss)
  BY DEF Bodies, Body
<1> HIDE DEF n
<1>3. \A k \in 1 .. n : ss[k] = Body(file, s[k])
  OBVIOUS
<1>4. \A k \in 1 .. n : ss[k] \in Seq(Jobs) /\ ToSet(ss[k]) = BodyJobs(file, s[k]) /\ Distinct(ss[k], Jobs)
  <2> HIDE DEF ss
  <2> QED
    BY <1>1, <1>3, BodyHolds
<1>5. ss \in Seq(Seq(Jobs)) /\ Len(ss) = n
  <2>1. ss = [k \in 1 .. n |-> ss[k]]
    OBVIOUS
  <2> HIDE DEF ss
  <2> QED
    BY <1>1, <1>4, <2>1, Listed
<1> HIDE DEF ss
<1>6. /\ FlattenSeq(ss) \in Seq(Jobs)
      /\ ToSet(FlattenSeq(ss)) = UNION {ToSet(ss[k]) : k \in 1 .. n}
  BY <1>5, FlattenElements
<1>7. UNION {ToSet(ss[k]) : k \in 1 .. n} = UNION {BodyJobs(file, m) : m \in ToSet(s)}
  <2>1. {ToSet(ss[k]) : k \in 1 .. n} = {BodyJobs(file, m) : m \in ToSet(s)}
    BY <1>1, <1>4
  <2> QED
    BY <2>1
<1>8. ASSUME NEW j \in 1 .. n, NEW k \in 1 .. n, j # k
      PROVE  ToSet(ss[j]) \cap ToSet(ss[k]) \cap Jobs = {}
  <2>1. s[j] # s[k]
    BY <1>1, <1>8 DEF Distinct, n
  <2>2. ToSet(ss[j]) = BodyJobs(file, s[j]) /\ ToSet(ss[k]) = BodyJobs(file, s[k])
    BY <1>4
  <2>3. \A m : \A x \in BodyJobs(file, m) : x.m = m
    BY FieldJobsAre, JobHas DEF BodyJobs
  <2> QED
    BY <2>1, <2>2, <2>3
<1>9. Distinct(FlattenSeq(ss), Jobs)
  BY <1>4, <1>5, <1>8, FlattenDistinct
<1> QED
  BY <1>2, <1>6, <1>7, <1>9

\* The jobs that come after another of the same enum: an item is filled after
\* its predecessor, and written after it is filled.
Awaiting == {j \in Jobs : j.op = "item" \/ (j.op = "fill" /\ j.f > 1)}
Awaited ==
  {p \in Jobs \X Jobs : /\ p[1].op = "fill" /\ p[1].m = p[2].m
                       /\ p[1].f = IF p[2].op = "item" THEN p[2].f ELSE p[2].f - 1}

\* A sequence without such jobs has none out of order.
LEMMA NoneLed ==
  ASSUME NEW S, NEW s \in Seq(S), NEW D, NEW R, ToSet(s) \cap D = {}
  PROVE  Led(s, D, R) /\ Distinct(s, D)
<1>1. \A k \in 1 .. Len(s) : s[k] \notin D
  BY ElementsAre
<1> QED
  BY <1>1 DEF Led, Distinct

EnumBody(file, m) ==
  EachItem("fill", "none", m) \o << Job("enum", file, m, 0) >> \o EachItem("item", file, m)
EnumSet(file, m) ==
  ItemJobs("fill", "none", m) \cup {Job("enum", file, m, 0)} \cup ItemJobs("item", file, m)

\* The jobs about one enum.
LEMMA EnumBodyHolds ==
  ASSUME mod \in Programs, NEW file \in Files, NEW m \in 1 .. Len(Members)
  PROVE  /\ EnumBody(file, m) \in Seq(Jobs) /\ ToSet(EnumBody(file, m)) = EnumSet(file, m)
         /\ Led(EnumBody(file, m), Awaiting, Awaited)
<1> DEFINE a == EachItem("fill", "none", m)  j == Job("enum", file, m, 0)  c == EachItem("item", file, m)
           n == Len(Members[m].items)
<1>1. "fill" \in Ops /\ "enum" \in Ops /\ "item" \in Ops /\ "none" \in Files /\ m \in Nat /\ 0 \in Nat
  BY MembersAre DEF Ops, Files
<1>2. n \in Nat
  BY MembersAre
<1>3. /\ a \in Seq(Jobs) /\ Len(a) = n /\ ToSet(a) = ItemJobs("fill", "none", m)
      /\ \A f \in 1 .. n : a[f] = Job("fill", "none", m, f)
  BY <1>1, EachItemHolds
<1>4. /\ c \in Seq(Jobs) /\ Len(c) = n /\ ToSet(c) = ItemJobs("item", file, m)
      /\ \A f \in 1 .. n : c[f] = Job("item", file, m, f)
  BY <1>1, EachItemHolds
<1>5. \A f \in 1 .. n : a[f].op = "fill" /\ a[f].m = m /\ a[f].f = f /\ a[f] \in Jobs
  BY <1>3, JobHas
<1>6. \A f \in 1 .. n : c[f].op = "item" /\ c[f].m = m /\ c[f].f = f /\ c[f] \in Jobs
  BY <1>4, JobHas
<1>7. j \in Jobs /\ j.op = "enum"
  BY <1>1, JobHas
<1> HIDE DEF a, j, c, n
<1> DEFINE u == << j >>  v == a \o u  w == v \o c
<1>8. u \in Seq(Jobs) /\ Len(u) = 1 /\ u[1] = j
  BY <1>7
<1>9. ToSet(u) = {j}
  BY <1>8 DEF ToSet
<1> HIDE DEF u
<1>10. v \in Seq(Jobs) /\ Len(v) = n + 1 /\ ToSet(v) = ToSet(a) \cup {j} /\ \A f \in 1 .. n : v[f] = a[f]
  <2>1. v \in Seq(Jobs) /\ Len(v) = Len(a) + Len(u) /\ \A f \in 1 .. Len(a) : v[f] = a[f]
    BY <1>3, <1>8, ConcatHolds
  <2>2. ToSet(v) = ToSet(a) \cup ToSet(u)
    BY <1>3, <1>8, ConcatElements
  <2> HIDE DEF v
  <2> QED
    BY <1>2, <1>3, <1>8, <1>9, <2>1, <2>2
<1>11. v[n + 1] = j
  <2>1. 1 \in 1 .. Len(u)
    BY <1>8
  <2> QED
    BY <1>3, <1>8, <2>1, ConcatHolds
<1> HIDE DEF v
<1>12. /\ w \in Seq(Jobs) /\ Len(w) = (n + 1) + n /\ ToSet(w) = ToSet(v) \cup ToSet(c)
       /\ \A k \in 1 .. n + 1 : w[k] = v[k]
       /\ \A k \in 1 .. (n + 1) + n : k > n + 1 => k - (n + 1) \in 1 .. n /\ w[k] = c[k - (n + 1)]
  <2>1. /\ w \in Seq(Jobs) /\ Len(w) = Len(v) + Len(c) /\ \A k \in 1 .. Len(v) : w[k] = v[k]
        /\ \A k \in 1 .. Len(v) + Len(c) : k > Len(v) => k - Len(v) \in 1 .. Len(c) /\ w[k] = c[k - Len(v)]
    BY <1>4, <1>10, ConcatHolds
  <2>2. ToSet(w) = ToSet(v) \cup ToSet(c)
    BY <1>4, <1>10, ConcatElements
  <2> HIDE DEF w
  <2> QED
    BY <1>2, <1>4, <1>10, <2>1, <2>2
<1> HIDE DEF w
<1>13. w = EnumBody(file, m) /\ ToSet(w) = EnumSet(file, m)
  BY <1>3, <1>4, <1>10, <1>12 DEF w, v, u, a, j, c, EnumBody, EnumSet
<1>14. ASSUME NEW k \in 1 .. Len(w), w[k] \in Awaiting
       PROVE  \E i \in 1 .. k - 1 : << w[i], w[k] >> \in Awaited
  <2>1. k \in 1 .. (n + 1) + n
    BY <1>12
  <2>2. CASE k <= n
    <3>1. k \in 1 .. n /\ k \in 1 .. n + 1
      BY <1>2, <2>1, <2>2
    <3>2. w[k].op = "fill" /\ w[k].m = m /\ w[k].f = k /\ w[k] \in Jobs
      BY <1>5, <1>10, <1>12, <3>1
    <3>3. k > 1
      BY <1>14, <3>2 DEF Awaiting
    <3>4. k - 1 \in 1 .. n /\ k - 1 \in 1 .. n + 1 /\ k - 1 \in 1 .. k - 1
      BY <1>2, <3>1, <3>3
    <3>5. w[k - 1].op = "fill" /\ w[k - 1].m = m /\ w[k - 1].f = k - 1 /\ w[k - 1] \in Jobs
      BY <1>5, <1>10, <1>12, <3>4
    <3>6. << w[k - 1], w[k] >> \in Awaited
      BY <3>2, <3>5 DEF Awaited
    <3> QED
      BY <3>4, <3>6
  <2>3. CASE k = n + 1
    <3>1. w[k] = j
      BY <1>2, <1>11, <1>12, <2>3
    <3> QED
      BY <1>7, <1>14, <3>1 DEF Awaiting
  <2>4. CASE k > n + 1
    <3> DEFINE f == k - (n + 1)
    <3>1. f \in 1 .. n /\ w[k] = c[f] /\ f \in 1 .. n + 1 /\ f \in 1 .. k - 1
      BY <1>2, <1>12, <2>1, <2>4
    <3> HIDE DEF f
    <3>2. w[k].op = "item" /\ w[k].m = m /\ w[k].f = f /\ w[k] \in Jobs
      BY <1>6, <3>1
    <3>3. w[f].op = "fill" /\ w[f].m = m /\ w[f].f = f /\ w[f] \in Jobs
      BY <1>5, <1>10, <1>12, <3>1
    <3>4. << w[f], w[k] >> \in Awaited
      BY <3>2, <3>3 DEF Awaited
    <3> QED
      BY <3>1, <3>4
  <2> QED
    BY <1>2, <2>1, <2>2, <2>3, <2>4
<1>15. Led(w, Awaiting, Awaited)
  BY <1>14 DEF Led
<1> QED
  BY <1>12, <1>13, <1>15

\* The jobs about the enums.
LEMMA EnumJobsHold ==
  ASSUME mod \in Programs, NEW file \in Files
  PROVE  /\ EnumJobs(file) \in Seq(Jobs) /\ Led(EnumJobs(file), Awaiting, Awaited)
         /\ ToSet(EnumJobs(file)) = UNION {EnumSet(file, m) : m \in ToSet(Enums)}
<1> DEFINE n == Len(Enums)  ss == [k \in 1 .. n |-> EnumBody(file, Enums[k])]
<1>1. Enums \in Seq(1 .. Len(Members))
  BY PositionsAre DEF Enums
<1>2. n \in Nat /\ ToSet(Enums) = {Enums[k] : k \in 1 .. n} /\ \A k \in 1 .. n : Enums[k] \in 1 .. Len(Members)
  BY <1>1, ElementsAre
<1>3. EnumJobs(file) = FlattenSeq(ss)
  BY DEF EnumJobs, EnumBody
<1> HIDE DEF n
<1>4. \A k \in 1 .. n : ss[k] = EnumBody(file, Enums[k])
  OBVIOUS
<1>5. \A k \in 1 .. n : ss[k] \in Seq(Jobs) /\ ToSet(ss[k]) = EnumSet(file, Enums[k]) /\ Led(ss[k], Awaiting, Awaited)
  <2> HIDE DEF ss
  <2> QED
    BY <1>2, <1>4, EnumBodyHolds
<1>6. ss \in Seq(Seq(Jobs)) /\ Len(ss) = n
  <2>1. ss = [k \in 1 .. n |-> ss[k]]
    OBVIOUS
  <2> HIDE DEF ss
  <2> QED
    BY <1>2, <1>5, <2>1, Listed
<1> HIDE DEF ss
<1>7. /\ FlattenSeq(ss) \in Seq(Jobs)
      /\ ToSet(FlattenSeq(ss)) = UNION {ToSet(ss[k]) : k \in 1 .. n}
  BY <1>6, FlattenElements
<1>8. UNION {ToSet(ss[k]) : k \in 1 .. n} = UNION {EnumSet(file, m) : m \in ToSet(Enums)}
  <2>1. {ToSet(ss[k]) : k \in 1 .. n} = {EnumSet(file, m) : m \in ToSet(Enums)}
    BY <1>2, <1>5
  <2> QED
    BY <2>1
<1>9. Led(FlattenSeq(ss), Awaiting, Awaited)
  BY <1>5, <1>6, FlattenLed
<1> QED
  BY <1>3, <1>7, <1>8, <1>9

\* The members the loops over the layouts find.
LayoutMembers ==
  ToSet(Structs) \cup {IF k <= Len(Structs) THEN Structs[k] ELSE 0 : k \in 1 .. Len(Classes)}

\* Both loops over the layouts find the same; nothing is past the end of the
\* structs unless there are more classes than structs.
LEMMA LayoutsHold ==
  ASSUME mod \in Programs, NEW op \in Ops, NEW file \in Files
  PROVE  /\ Layouts(op, file) \in Seq(Jobs)
         /\ ToSet(Layouts(op, file)) = {Job(op, file, m, 0) : m \in LayoutMembers}
<1> DEFINE s == Structs  n == Len(Classes)  At1(k) == IF k <= Len(s) THEN s[k] ELSE 0
           c == ClassLayouts(op, file)
<1>1. s \in Seq(1 .. Len(Members)) /\ Classes \in Seq(1 .. Len(Members)) /\ Len(Members) \in Nat
  BY PositionsAre, MembersAre DEF Structs, Classes
<1>2. n \in Nat /\ Len(s) \in Nat /\ \A k \in 1 .. Len(s) : s[k] \in Nat
  BY <1>1
<1>3. Each(op, file, s) \in Seq(Jobs) /\ ToSet(Each(op, file, s)) = {Job(op, file, m, 0) : m \in ToSet(s)}
  BY <1>1, EachHolds
<1>4. c = [k \in 1 .. n |-> Job(op, file, At1(k), 0)]
  BY DEF ClassLayouts
<1>5. LayoutMembers = ToSet(s) \cup {At1(k) : k \in 1 .. n}
  BY DEF LayoutMembers
<1>6. Layouts(op, file) = Each(op, file, s) \o c
  BY DEF Layouts
<1> HIDE DEF s, n, c
<1>7. \A k \in 1 .. n : At1(k) \in Nat
  BY <1>2
<1> HIDE DEF At1
<1>8. \A k \in 1 .. n : c[k] = Job(op, file, At1(k), 0)
  BY <1>4
<1>9. \A k \in 1 .. n : c[k] \in Jobs
  BY <1>7, <1>8, JobHas
<1>10. c = [k \in 1 .. n |-> c[k]]
  BY <1>4
<1>11. c \in Seq(Jobs) /\ ToSet(c) = {c[k] : k \in 1 .. n}
  BY <1>2, <1>9, <1>10, Listed
<1>12. {c[k] : k \in 1 .. n} = {Job(op, file, m, 0) : m \in {At1(k) : k \in 1 .. n}}
  BY <1>8
<1>13. /\ Each(op, file, s) \o c \in Seq(Jobs)
       /\ ToSet(Each(op, file, s) \o c) = ToSet(Each(op, file, s)) \cup ToSet(c)
  BY <1>3, <1>11, ConcatElements, SQ!ConcatProperties
<1> QED
  BY <1>3, <1>5, <1>6, <1>11, <1>12, <1>13

\* The scopes, each once.
LEMMA NamespacesHold ==
  ASSUME mod \in Programs, NEW op \in Ops
  PROVE  /\ Namespaces(op) \in Seq(Jobs) /\ Distinct(Namespaces(op), Jobs)
         /\ ToSet(Namespaces(op)) = {Job(op, "header", 0, n) : n \in 1 .. mod.path}
<1> DEFINE n == mod.path  s == Namespaces(op)
<1>1. n \in Nat /\ "header" \in Files /\ 0 \in Nat
  BY MembersAre DEF Files
<1>2. s = [k \in 1 .. n |-> Job(op, "header", 0, k)]
  BY DEF Namespaces
<1> HIDE DEF n, s
<1>3. \A k \in 1 .. n : s[k] = Job(op, "header", 0, k) /\ s[k] \in Jobs /\ s[k].f = k
  BY <1>1, <1>2, JobHas
<1>4. s = [k \in 1 .. n |-> s[k]]
  BY <1>2
<1>5. s \in Seq(Jobs) /\ Len(s) = n /\ ToSet(s) = {s[k] : k \in 1 .. n}
  BY <1>1, <1>3, <1>4, Listed
<1>6. {s[k] : k \in 1 .. n} = {Job(op, "header", 0, k) : k \in 1 .. n}
  BY <1>3
<1>7. Distinct(s, Jobs)
  <2>1. \A k \in 1 .. Len(s) : s[k].f = k
    BY <1>3, <1>5
  <2> QED
    BY <2>1, Zenon DEF Distinct
<1> QED
  BY <1>5, <1>6, <1>7 DEF n, s

\* The structs and classes, each once.
LEMMA CompositesAre ==
  ASSUME mod \in Programs
  PROVE  /\ Composites \in Seq(1 .. Len(Members)) /\ Distinct(Composites, Nat)
         /\ ToSet(Composites) = {m \in 1 .. Len(Members) : Members[m].kind \in {"struct", "class"}}
         /\ Structs \in Seq(1 .. Len(Members)) /\ Classes \in Seq(1 .. Len(Members))
         /\ ToSet(Structs) = {m \in 1 .. Len(Members) : Members[m].kind = "struct"}
         /\ ToSet(Classes) = {m \in 1 .. Len(Members) : Members[m].kind = "class"}
         /\ ToSet(Enums) = {m \in 1 .. Len(Members) : Members[m].kind = "enum"}
<1>1. /\ Structs \in Seq(1 .. Len(Members)) /\ Distinct(Structs, Nat)
      /\ ToSet(Structs) = {m \in 1 .. Len(Members) : Members[m].kind = "struct"}
  BY PositionsAre, Zenon DEF Structs
<1>2. /\ Classes \in Seq(1 .. Len(Members)) /\ Distinct(Classes, Nat)
      /\ ToSet(Classes) = {m \in 1 .. Len(Members) : Members[m].kind = "class"}
  BY PositionsAre, Zenon DEF Classes
<1>3. ToSet(Enums) = {m \in 1 .. Len(Members) : Members[m].kind = "enum"}
  BY PositionsAre, Zenon DEF Enums
<1> DEFINE N == 1 .. Len(Members)  s == Structs  c == Classes
<1>4. ToSet(s) \cap ToSet(c) \cap Nat = {}
  BY <1>1, <1>2
<1>5. s \in Seq(N) /\ c \in Seq(N) /\ Distinct(s, Nat) /\ Distinct(c, Nat)
  BY <1>1, <1>2
<1>6. ToSet(s) \cup ToSet(c) = {m \in N : Members[m].kind \in {"struct", "class"}}
  BY <1>1, <1>2
<1>7. Composites = s \o c
  BY DEF Composites
<1> HIDE DEF N, s, c
<1>8. s \o c \in Seq(N) /\ ToSet(s \o c) = ToSet(s) \cup ToSet(c)
  BY <1>5, ConcatElements, SQ!ConcatProperties
<1>9. Distinct(s \o c, Nat)
  BY <1>4, <1>5, ConcatDistinct
<1> QED
  BY <1>1, <1>2, <1>3, <1>6, <1>7, <1>8, <1>9 DEF N

\* The jobs whose text must be in the header once.
OnceOps == {"open_ns", "close_ns", "field", "accessor"}
OnceJobs == {j \in Jobs : j.op \in OnceOps}

\* A sequence of jobs in which every item is filled in time, and in which no
\* job is twice of those that must not; X are the operations of the latter.
Well(s, X) ==
  /\ s \in Seq(Jobs) /\ Led(s, Awaiting, Awaited) /\ Distinct(s, OnceJobs)
  /\ \A x \in ToSet(s) : x \in OnceJobs => x.op \in X

\* Two such sequences make one if those operations differ.
LEMMA WellConcat ==
  ASSUME NEW s, NEW X, Well(s, X), NEW t, NEW Y, Well(t, Y), X \cap Y = {}
  PROVE  Well(s \o t, X \cup Y) /\ ToSet(s \o t) = ToSet(s) \cup ToSet(t) /\ s \o t \in Seq(Jobs)
<1>1. s \in Seq(Jobs) /\ t \in Seq(Jobs)
  BY DEF Well
<1>2. s \o t \in Seq(Jobs) /\ ToSet(s \o t) = ToSet(s) \cup ToSet(t)
  BY <1>1, ConcatElements, SQ!ConcatProperties
<1>3. Led(s \o t, Awaiting, Awaited)
  BY <1>1, ConcatLed DEF Well
<1>4. ToSet(s) \cap ToSet(t) \cap OnceJobs = {}
  BY Zenon DEF Well
<1>5. Distinct(s \o t, OnceJobs)
  BY <1>1, <1>4, ConcatDistinct DEF Well
<1>6. \A x \in ToSet(s \o t) : x \in OnceJobs => x.op \in X \cup Y
  BY <1>2, Zenon DEF Well
<1> QED
  BY <1>2, <1>3, <1>5, <1>6 DEF Well

\* The same, the operations of the whole being named.
LEMMA WellJoin ==
  ASSUME NEW s, NEW X, Well(s, X), NEW t, NEW Y, Well(t, Y), X \cap Y = {}, NEW Z, X \cup Y = Z
  PROVE  Well(s \o t, Z) /\ ToSet(s \o t) = ToSet(s) \cup ToSet(t) /\ s \o t \in Seq(Jobs)
BY WellConcat, Zenon

\* A part without jobs that must be there once adds no operations.
LEMMA WellPlainJoin ==
  ASSUME NEW s, NEW X, Well(s, X), NEW t, Well(t, {})
  PROVE  Well(s \o t, X) /\ ToSet(s \o t) = ToSet(s) \cup ToSet(t) /\ s \o t \in Seq(Jobs)
<1>1. X \cap {} = {} /\ X \cup {} = X
  OBVIOUS
<1> QED
  BY <1>1, WellJoin, Zenon

\* Nor does one that goes before.
LEMMA PlainWellJoin ==
  ASSUME NEW s, Well(s, {}), NEW t, NEW X, Well(t, X)
  PROVE  Well(s \o t, X) /\ ToSet(s \o t) = ToSet(s) \cup ToSet(t) /\ s \o t \in Seq(Jobs)
<1>1. {} \cap X = {} /\ {} \cup X = X
  OBVIOUS
<1> QED
  BY <1>1, WellJoin, Zenon

\* Putting parts together is associative.
LEMMA JobsAssociate ==
  ASSUME NEW s \in Seq(Jobs), NEW t \in Seq(Jobs), NEW u \in Seq(Jobs)
  PROVE  (s \o t) \o u = s \o (t \o u) /\ s \o t \in Seq(Jobs)
<1> DEFINE a == (s \o t) \o u  b == s \o (t \o u)
<1>1. /\ Len(s) \in Nat /\ Len(t) \in Nat /\ Len(u) \in Nat
      /\ s \o t \in Seq(Jobs) /\ t \o u \in Seq(Jobs) /\ a \in Seq(Jobs) /\ b \in Seq(Jobs)
      /\ Len(s \o t) = Len(s) + Len(t) /\ Len(t \o u) = Len(t) + Len(u)
      /\ Len(a) = Len(s) + Len(t) + Len(u) /\ Len(b) = Len(s) + Len(t) + Len(u)
  OBVIOUS
<1>2. ASSUME NEW i \in 1 .. Len(a)
      PROVE  a[i] = b[i]
  OBVIOUS
<1> HIDE DEF a, b
<1>3. a = b
  BY <1>1, <1>2
<1> QED
  BY <1>1, <1>3 DEF a, b

\* A sequence without jobs about items or of those that must be there once.
LEMMA WellPlain ==
  ASSUME NEW s \in Seq(Jobs), NEW op, \A x \in ToSet(s) : x.op = op,
         op \notin {"fill", "item"}, op \notin OnceOps
  PROVE  Well(s, {})
<1>1. ToSet(s) \cap Awaiting = {} /\ ToSet(s) \cap OnceJobs = {}
  BY DEF Awaiting, OnceJobs
<1>2. Led(s, Awaiting, Awaited) /\ Distinct(s, OnceJobs)
  BY <1>1, NoneLed
<1> QED
  BY <1>1, <1>2 DEF Well

\* A sequence of jobs that must be there once, of one operation.
LEMMA WellOnce ==
  ASSUME NEW s \in Seq(Jobs), NEW op, \A x \in ToSet(s) : x.op = op,
         op \notin {"fill", "item"}, Distinct(s, Jobs)
  PROVE  Well(s, {op})
<1>1. ToSet(s) \cap Awaiting = {}
  BY DEF Awaiting
<1>2. Led(s, Awaiting, Awaited)
  BY <1>1, NoneLed
<1>3. Distinct(s, OnceJobs)
  BY Zenon DEF Distinct, OnceJobs
<1> QED
  BY <1>2, <1>3 DEF Well

\* A step that is no loop is such a sequence.
LEMMA OnceIsWell ==
  ASSUME NEW op \in Ops, NEW file \in Files, op \notin {"fill", "item"}, op \notin OnceOps
  PROVE  Well(Once(op, file), {}) /\ ToSet(Once(op, file)) = {Job(op, file, 0, 0)}
<1>1. Once(op, file) \in Seq(Jobs) /\ ToSet(Once(op, file)) = {Job(op, file, 0, 0)}
  BY OnceHolds
<1>2. \A x \in ToSet(Once(op, file)) : x.op = op
  BY <1>1, JobHas
<1> QED
  BY <1>1, <1>2, WellPlain

\* So are the jobs about the enums,
LEMMA EnumJobsAreWell ==
  ASSUME mod \in Programs, NEW file \in Files
  PROVE  Well(EnumJobs(file), {}) /\ ToSet(EnumJobs(file)) = UNION {EnumSet(file, m) : m \in ToSet(Enums)}
<1>1. /\ EnumJobs(file) \in Seq(Jobs) /\ Led(EnumJobs(file), Awaiting, Awaited)
      /\ ToSet(EnumJobs(file)) = UNION {EnumSet(file, m) : m \in ToSet(Enums)}
  BY EnumJobsHold
<1>2. \A m : \A x \in EnumSet(file, m) : x.op \in {"fill", "enum", "item"}
  BY FieldJobsAre, JobHas DEF EnumSet
<1>3. \A x \in ToSet(EnumJobs(file)) : x.op \in {"fill", "enum", "item"}
  BY <1>1, <1>2
<1>4. ToSet(EnumJobs(file)) \cap OnceJobs = {}
  BY <1>3 DEF OnceJobs, OnceOps
<1>5. Distinct(EnumJobs(file), OnceJobs)
  BY <1>1, <1>4, NoneLed
<1> QED
  BY <1>1, <1>4, <1>5 DEF Well

\* the definitions of the structs and classes,
LEMMA BodiesAreWell ==
  ASSUME mod \in Programs, NEW file \in Files
  PROVE  /\ Well(Bodies(file, Composites), {"field"})
         /\ ToSet(Bodies(file, Composites)) = UNION {BodyJobs(file, m) : m \in ToSet(Composites)}
<1>1. /\ Bodies(file, Composites) \in Seq(Jobs) /\ Distinct(Bodies(file, Composites), Jobs)
      /\ ToSet(Bodies(file, Composites)) = UNION {BodyJobs(file, m) : m \in ToSet(Composites)}
  BY CompositesAre, BodiesHold
<1>2. \A m : \A x \in BodyJobs(file, m) : x.op \in {"begin", "field"}
  BY FieldJobsAre, JobHas DEF BodyJobs
<1>3. \A x \in ToSet(Bodies(file, Composites)) : x.op \in {"begin", "field"}
  BY <1>1, <1>2
<1>4. ToSet(Bodies(file, Composites)) \cap Awaiting = {}
  BY <1>3 DEF Awaiting
<1>5. Led(Bodies(file, Composites), Awaiting, Awaited)
  BY <1>1, <1>4, NoneLed
<1>6. Distinct(Bodies(file, Composites), OnceJobs)
  BY <1>1, Zenon DEF Distinct, OnceJobs
<1>7. \A x \in ToSet(Bodies(file, Composites)) : x \in OnceJobs => x.op \in {"field"}
  BY <1>3 DEF OnceJobs, OnceOps
<1> QED
  BY <1>1, <1>5, <1>6, <1>7 DEF Well

\* the loops over all fields,
LEMMA AllFieldsAreWell ==
  ASSUME mod \in Programs, NEW op \in Ops, NEW file \in Files, op \notin {"fill", "item"}
  PROVE  /\ Well(AllFields(op, file, Composites), {op})
         /\ ToSet(AllFields(op, file, Composites)) = UNION {FieldJobs(op, file, m) : m \in ToSet(Composites)}
<1>1. /\ AllFields(op, file, Composites) \in Seq(Jobs) /\ Distinct(AllFields(op, file, Composites), Jobs)
      /\ ToSet(AllFields(op, file, Composites)) = UNION {FieldJobs(op, file, m) : m \in ToSet(Composites)}
  BY CompositesAre, AllFieldsHold
<1>2. \A m : \A x \in FieldJobs(op, file, m) : x.op = op
  BY FieldJobsAre
<1>3. \A x \in ToSet(AllFields(op, file, Composites)) : x.op = op
  BY <1>1, <1>2
<1> QED
  BY <1>1, <1>3, WellOnce

\* the loops over the layouts, over the scopes, and over the forward
\* declarations.
LEMMA LoopsAreWell ==
  ASSUME mod \in Programs, NEW op \in Ops, op \notin {"fill", "item"}
  PROVE  /\ Well(Namespaces(op), {op})
         /\ op \notin OnceOps => \A file \in Files :
              /\ Well(Layouts(op, file), {})
              /\ Well(Each(op, file, Composites), {})
<1>1. Well(Namespaces(op), {op})
  <2>1. /\ Namespaces(op) \in Seq(Jobs) /\ Distinct(Namespaces(op), Jobs)
        /\ ToSet(Namespaces(op)) = {Job(op, "header", 0, n) : n \in 1 .. mod.path}
    BY NamespacesHold
  <2>2. \A x \in ToSet(Namespaces(op)) : x.op = op
    BY <2>1, JobHas
  <2> QED
    BY <2>1, <2>2, WellOnce
<1>2. ASSUME op \notin OnceOps, NEW file \in Files
      PROVE  Well(Layouts(op, file), {})
  <2>1. Layouts(op, file) \in Seq(Jobs) /\ ToSet(Layouts(op, file)) = {Job(op, file, m, 0) : m \in LayoutMembers}
    BY LayoutsHold
  <2>2. \A x \in ToSet(Layouts(op, file)) : x.op = op
    BY <2>1, JobHas
  <2> QED
    BY <1>2, <2>1, <2>2, WellPlain
<1>3. ASSUME op \notin OnceOps, NEW file \in Files
      PROVE  Well(Each(op, file, Composites), {})
  <2>1. /\ Each(op, file, Composites) \in Seq(Jobs)
        /\ ToSet(Each(op, file, Composites)) = {Job(op, file, m, 0) : m \in ToSet(Composites)}
    BY CompositesAre, EachHolds
  <2>2. \A x \in ToSet(Each(op, file, Composites)) : x.op = op
    BY <2>1, JobHas
  <2> QED
    BY <1>3, <2>1, <2>2, WellPlain
<1> QED
  BY <1>1, <1>2, <1>3

\* The names of the operations and of the files.
LEMMA NamesAre ==
  /\ "open" \in Ops \ OnceOps /\ "classify" \in Ops \ OnceOps /\ "open_ns" \in Ops
  /\ "forward" \in Ops \ OnceOps /\ "accessor" \in Ops /\ "resources" \in Ops \ OnceOps
  /\ "layout" \in Ops \ OnceOps /\ "declare_create" \in Ops \ OnceOps /\ "close_ns" \in Ops
  /\ "close" \in Ops \ OnceOps /\ "create" \in Ops \ OnceOps /\ "make_layout" \in Ops \ OnceOps
  /\ "add_field" \in Ops \ OnceOps /\ "end" \in Ops \ OnceOps
  /\ "header" \in Files /\ "source" \in Files /\ "module" \in Files /\ "none" \in Files
BY DEF Ops, OnceOps, Files

\* The parts of what the C++ back end does: what it declares; what it defines
\* by those declarations; and the source file.
Opening == Once("open", "header") \o Once("open", "source") \o Once("classify", "none")
Forwards == Each("forward", "header", Composites)
Declaring == Opening \o ((Namespaces("open_ns") \o EnumJobs("header")) \o Forwards)
Defining ==
  Bodies("header", Composites) \o AllFields("accessor", "header", Composites)
    \o Once("resources", "header") \o Layouts("layout", "header")
    \o Once("declare_create", "header") \o Namespaces("close_ns") \o Once("close", "header")

Scopes(op) == {Job(op, "header", 0, n) : n \in 1 .. mod.path}
DeclaringJobs ==
  {Job("open", "header", 0, 0), Job("open", "source", 0, 0), Job("classify", "none", 0, 0)}
    \cup Scopes("open_ns") \cup (UNION {EnumSet("header", m) : m \in ToSet(Enums)})
    \cup {Job("forward", "header", m, 0) : m \in ToSet(Composites)}
DefiningJobs ==
  (UNION {BodyJobs("header", m) : m \in ToSet(Composites)})
    \cup (UNION {FieldJobs("accessor", "header", m) : m \in ToSet(Composites)})
    \cup {Job("resources", "header", 0, 0)} \cup {Job("layout", "header", m, 0) : m \in LayoutMembers}
    \cup {Job("declare_create", "header", 0, 0)} \cup Scopes("close_ns")
    \cup {Job("close", "header", 0, 0)}
SourceJobs ==
  {Job("create", "source", 0, 0)} \cup {Job("make_layout", "source", m, 0) : m \in LayoutMembers}
    \cup (UNION {FieldJobs("add_field", "source", m) : m \in ToSet(Composites)})
    \cup {Job("end", "source", 0, 0)}

\* The jobs of the three parts of the C++ back end.
LEMMA DeclaringHolds ==
  ASSUME mod \in Programs
  PROVE  /\ Well(Declaring, {"open_ns"}) /\ ToSet(Declaring) = DeclaringJobs
         /\ Opening \in Seq(Jobs) /\ Namespaces("open_ns") \in Seq(Jobs)
         /\ EnumJobs("header") \in Seq(Jobs) /\ Forwards \in Seq(Jobs)
<1>1. Well(Once("open", "header"), {}) /\ ToSet(Once("open", "header")) = {Job("open", "header", 0, 0)}
  BY NamesAre, OnceIsWell
<1>2. Well(Once("open", "source"), {}) /\ ToSet(Once("open", "source")) = {Job("open", "source", 0, 0)}
  BY NamesAre, OnceIsWell
<1>3. Well(Once("classify", "none"), {}) /\ ToSet(Once("classify", "none")) = {Job("classify", "none", 0, 0)}
  BY NamesAre, OnceIsWell
<1>4. /\ Well(Opening, {})
      /\ ToSet(Opening) = {Job("open", "header", 0, 0), Job("open", "source", 0, 0), Job("classify", "none", 0, 0)}
  <2> DEFINE a == Once("open", "header")  b == Once("open", "source")  c == Once("classify", "none")  ab == a \o b
  <2> HIDE DEF a, b, c
  <2>1. Well(ab, {} \cup {}) /\ ToSet(ab) = ToSet(a) \cup ToSet(b)
    <3>1. Well(a, {}) /\ Well(b, {}) /\ {} \cap {} = {}
      BY <1>1, <1>2 DEF a, b
    <3> QED
      BY <3>1, WellConcat, Zenon
  <2> HIDE DEF ab
  <2>2. Well(ab, {})
    BY <2>1
  <2>3. Well(ab \o c, {} \cup {}) /\ ToSet(ab \o c) = ToSet(ab) \cup ToSet(c)
    BY <1>3, <2>2, WellConcat DEF c
  <2>4. Well(ab \o c, {})
    BY <2>3
  <2> QED
    BY <1>1, <1>2, <1>3, <2>1, <2>3, <2>4 DEF Opening, a, b, c, ab
<1>5. Well(Namespaces("open_ns"), {"open_ns"}) /\ ToSet(Namespaces("open_ns")) = Scopes("open_ns")
  BY NamesAre, LoopsAreWell, NamespacesHold DEF Scopes
<1>6. Well(EnumJobs("header"), {}) /\ ToSet(EnumJobs("header")) = UNION {EnumSet("header", m) : m \in ToSet(Enums)}
  BY NamesAre, EnumJobsAreWell
<1>7. Well(Forwards, {}) /\ ToSet(Forwards) = {Job("forward", "header", m, 0) : m \in ToSet(Composites)}
  <2>1. Well(Forwards, {})
    BY NamesAre, LoopsAreWell DEF Forwards
  <2>2. ToSet(Forwards) = {Job("forward", "header", m, 0) : m \in ToSet(Composites)}
    BY NamesAre, EachHolds, CompositesAre DEF Forwards
  <2> QED
    BY <2>1, <2>2
<1> DEFINE a == Opening  b == Namespaces("open_ns")  c == EnumJobs("header")  d == Forwards
           bc == b \o c  bcd == bc \o d  abcd == a \o bcd
<1>8. Well(a, {}) /\ Well(b, {"open_ns"}) /\ Well(c, {}) /\ Well(d, {})
  BY <1>4, <1>5, <1>6, <1>7
<1> HIDE DEF a, b, c, d
<1>9. Well(bc, {"open_ns"} \cup {}) /\ ToSet(bc) = ToSet(b) \cup ToSet(c)
  BY <1>8, WellConcat
<1> HIDE DEF bc
<1>10. Well(bc, {"open_ns"})
  BY <1>9
<1>11. Well(bcd, {"open_ns"} \cup {}) /\ ToSet(bcd) = ToSet(bc) \cup ToSet(d)
  BY <1>8, <1>10, WellConcat
<1> HIDE DEF bcd
<1>12. Well(bcd, {"open_ns"})
  BY <1>11
<1>13. Well(abcd, {} \cup {"open_ns"}) /\ ToSet(abcd) = ToSet(a) \cup ToSet(bcd)
  <2>1. {} \cap {"open_ns"} = {}
    OBVIOUS
  <2> QED
    BY <1>8, <1>12, <2>1, WellConcat, Zenon
<1> HIDE DEF abcd
<1>14. Well(abcd, {"open_ns"})
  BY <1>13
<1>15. abcd = Declaring
  BY DEF abcd, bcd, bc, a, b, c, d, Declaring
<1>16. ToSet(abcd) = ToSet(a) \cup ToSet(b) \cup ToSet(c) \cup ToSet(d)
  BY <1>9, <1>11, <1>13
<1>17. ToSet(Declaring) = DeclaringJobs
  <2>1. /\ ToSet(a) = {Job("open", "header", 0, 0), Job("open", "source", 0, 0), Job("classify", "none", 0, 0)}
        /\ ToSet(b) = Scopes("open_ns") /\ ToSet(c) = UNION {EnumSet("header", m) : m \in ToSet(Enums)}
        /\ ToSet(d) = {Job("forward", "header", m, 0) : m \in ToSet(Composites)}
    BY <1>4, <1>5, <1>6, <1>7 DEF a, b, c, d
  <2>2. ToSet(Declaring) = ToSet(a) \cup ToSet(b) \cup ToSet(c) \cup ToSet(d)
    BY <1>15, <1>16
  <2> QED
    BY <2>1, <2>2 DEF DeclaringJobs
<1> QED
  BY <1>8, <1>14, <1>15, <1>17 DEF Well, a, b, c, d

\* Those that define,
LEMMA DefiningHolds ==
  ASSUME mod \in Programs
  PROVE  /\ Well(Defining, {"field", "accessor", "close_ns"}) /\ ToSet(Defining) = DefiningJobs
         /\ Bodies("header", Composites) \in Seq(Jobs)
         /\ AllFields("accessor", "header", Composites) \in Seq(Jobs)
         /\ Once("resources", "header") \in Seq(Jobs) /\ Layouts("layout", "header") \in Seq(Jobs)
         /\ Once("declare_create", "header") \in Seq(Jobs)
         /\ Namespaces("close_ns") \in Seq(Jobs) /\ Once("close", "header") \in Seq(Jobs)
<1> DEFINE a == Bodies("header", Composites)  b == AllFields("accessor", "header", Composites)
           c == Once("resources", "header")  d == Layouts("layout", "header")
           e == Once("declare_create", "header")  f == Namespaces("close_ns")  g == Once("close", "header")
           ab == a \o b  abc == ab \o c  abcd == abc \o d  abcde == abcd \o e  abcdef == abcde \o f
           all == abcdef \o g
<1>1. Well(a, {"field"}) /\ ToSet(a) = UNION {BodyJobs("header", m) : m \in ToSet(Composites)}
  BY NamesAre, BodiesAreWell
<1>2. Well(b, {"accessor"}) /\ ToSet(b) = UNION {FieldJobs("accessor", "header", m) : m \in ToSet(Composites)}
  BY NamesAre, AllFieldsAreWell
<1>3. Well(c, {}) /\ ToSet(c) = {Job("resources", "header", 0, 0)}
  BY NamesAre, OnceIsWell
<1>4. Well(d, {}) /\ ToSet(d) = {Job("layout", "header", m, 0) : m \in LayoutMembers}
  BY NamesAre, LoopsAreWell, LayoutsHold
<1>5. Well(e, {}) /\ ToSet(e) = {Job("declare_create", "header", 0, 0)}
  BY NamesAre, OnceIsWell
<1>6. Well(f, {"close_ns"}) /\ ToSet(f) = Scopes("close_ns")
  BY NamesAre, LoopsAreWell, NamespacesHold DEF Scopes
<1>7. Well(g, {}) /\ ToSet(g) = {Job("close", "header", 0, 0)}
  BY NamesAre, OnceIsWell
<1> HIDE DEF a, b, c, d, e, f, g
<1>0. /\ Well(a, {"field"}) /\ Well(b, {"accessor"}) /\ Well(c, {}) /\ Well(d, {}) /\ Well(e, {})
      /\ Well(f, {"close_ns"}) /\ Well(g, {})
  BY <1>1, <1>2, <1>3, <1>4, <1>5, <1>6, <1>7
<1> DEFINE X == {"field", "accessor"}  Y == {"field", "accessor", "close_ns"}
<1>8. /\ {"field"} \cap {"accessor"} = {} /\ {"field"} \cup {"accessor"} = X
      /\ X \cap {} = {} /\ X \cup {} = X /\ X \cap {"close_ns"} = {} /\ X \cup {"close_ns"} = Y
      /\ Y \cap {} = {} /\ Y \cup {} = Y
  OBVIOUS
<1> HIDE DEF X, Y
<1>9. Well(ab, X) /\ ToSet(ab) = ToSet(a) \cup ToSet(b)
  BY <1>0, <1>8, WellJoin
<1> HIDE DEF ab
<1>10. Well(abc, X) /\ ToSet(abc) = ToSet(ab) \cup ToSet(c)
  BY <1>0, <1>9, WellPlainJoin
<1> HIDE DEF abc
<1>11. Well(abcd, X) /\ ToSet(abcd) = ToSet(abc) \cup ToSet(d)
  BY <1>0, <1>10, WellPlainJoin
<1> HIDE DEF abcd
<1>12. Well(abcde, X) /\ ToSet(abcde) = ToSet(abcd) \cup ToSet(e)
  BY <1>0, <1>11, WellPlainJoin
<1> HIDE DEF abcde
<1>13. Well(abcdef, Y) /\ ToSet(abcdef) = ToSet(abcde) \cup ToSet(f)
  BY <1>0, <1>8, <1>12, WellJoin
<1> HIDE DEF abcdef
<1>15. Well(all, Y) /\ ToSet(all) = ToSet(abcdef) \cup ToSet(g)
  BY <1>0, <1>13, WellPlainJoin
<1>16. all = Defining
  BY DEF a, b, c, d, e, f, g, ab, abc, abcd, abcde, abcdef, Defining
<1> HIDE DEF all
<1>17. ToSet(Defining) = ToSet(a) \cup ToSet(b) \cup ToSet(c) \cup ToSet(d) \cup ToSet(e) \cup ToSet(f) \cup ToSet(g)
  BY <1>9, <1>10, <1>11, <1>12, <1>13, <1>15, <1>16
<1>18. ToSet(Defining) = DefiningJobs
  BY <1>1, <1>2, <1>3, <1>4, <1>5, <1>6, <1>7, <1>17 DEF DefiningJobs
<1>19. Well(Defining, {"field", "accessor", "close_ns"})
  BY <1>15, <1>16 DEF Y
<1>20. a \in Seq(Jobs) /\ b \in Seq(Jobs) /\ c \in Seq(Jobs) /\ d \in Seq(Jobs) /\ e \in Seq(Jobs) /\ f \in Seq(Jobs) /\ g \in Seq(Jobs)
  BY <1>1, <1>2, <1>3, <1>4, <1>5, <1>6, <1>7, Zenon DEF Well
<1> QED
  BY <1>18, <1>19, <1>20 DEF a, b, c, d, e, f, g

\* and those of the source file.
LEMMA SourceHolds ==
  ASSUME mod \in Programs
  PROVE  Well(CxxSource, {"add_field"}) /\ ToSet(CxxSource) = SourceJobs
<1> DEFINE a == Once("create", "source")  b == Layouts("make_layout", "source")
           c == AllFields("add_field", "source", Composites)  d == Once("end", "source")
           ab == a \o b  abc == ab \o c  all == abc \o d
<1>1. Well(a, {}) /\ ToSet(a) = {Job("create", "source", 0, 0)}
  BY NamesAre, OnceIsWell
<1>2. Well(b, {}) /\ ToSet(b) = {Job("make_layout", "source", m, 0) : m \in LayoutMembers}
  BY NamesAre, LoopsAreWell, LayoutsHold
<1>3. Well(c, {"add_field"}) /\ ToSet(c) = UNION {FieldJobs("add_field", "source", m) : m \in ToSet(Composites)}
  BY NamesAre, AllFieldsAreWell
<1>4. Well(d, {}) /\ ToSet(d) = {Job("end", "source", 0, 0)}
  BY NamesAre, OnceIsWell
<1> HIDE DEF a, b, c, d
<1>0. Well(a, {}) /\ Well(b, {}) /\ Well(c, {"add_field"}) /\ Well(d, {})
  BY <1>1, <1>2, <1>3, <1>4
<1> DEFINE X == {"add_field"}
<1>5. {} \cap {} = {} /\ {} \cup {} = {} /\ {} \cap X = {} /\ {} \cup X = X /\ X \cap {} = {} /\ X \cup {} = X
      /\ Well(c, X)
  BY <1>0
<1> HIDE DEF X
<1>6. Well(ab, {}) /\ ToSet(ab) = ToSet(a) \cup ToSet(b)
  BY <1>0, WellPlainJoin
<1> HIDE DEF ab
<1>7. Well(abc, X) /\ ToSet(abc) = ToSet(ab) \cup ToSet(c)
  BY <1>5, <1>6, PlainWellJoin
<1> HIDE DEF abc
<1>8. Well(all, X) /\ ToSet(all) = ToSet(abc) \cup ToSet(d)
  BY <1>0, <1>5, <1>7, WellPlainJoin
<1>9. all = CxxSource
  BY DEF a, b, c, d, ab, abc, CxxSource
<1> HIDE DEF all
<1>10. ToSet(CxxSource) = ToSet(a) \cup ToSet(b) \cup ToSet(c) \cup ToSet(d)
  BY <1>6, <1>7, <1>8, <1>9
<1> QED
  BY <1>1, <1>2, <1>3, <1>4, <1>8, <1>9, <1>10 DEF X, SourceJobs

\* What the C++ back end does falls into these three parts.
LEMMA CxxScript ==
  ASSUME mod \in Programs, lang = "cpp"
  PROVE  Script = (Declaring \o Defining) \o CxxSource
<1> DEFINE o == Opening  n == Namespaces("open_ns")  w == Forwards  en == EnumJobs("header")
           a == Bodies("header", Composites)  b == AllFields("accessor", "header", Composites)
           c == Once("resources", "header")  d == Layouts("layout", "header")
           e == Once("declare_create", "header")  f == Namespaces("close_ns")  g == Once("close", "header")
           p == n \o en  q == p \o w
<1>1. /\ o \in Seq(Jobs) /\ n \in Seq(Jobs) /\ en \in Seq(Jobs) /\ w \in Seq(Jobs) /\ a \in Seq(Jobs)
      /\ b \in Seq(Jobs) /\ c \in Seq(Jobs) /\ d \in Seq(Jobs) /\ e \in Seq(Jobs) /\ f \in Seq(Jobs)
      /\ g \in Seq(Jobs)
  BY DeclaringHolds, DefiningHolds
<1>2. CxxHeader = (((((((p \o (w \o a)) \o b) \o c) \o d) \o e) \o f) \o g)
  BY DEF CxxHeader, Definitions, Forwards
<1>3. Script = (o \o CxxHeader) \o CxxSource
  BY DEF Script, Opening
<1>4. Defining = ((((((a \o b) \o c) \o d) \o e) \o f) \o g) /\ Declaring = o \o q
  BY DEF Defining, Declaring
<1> HIDE DEF o, n, w, en, a, b, c, d, e, f, g
<1>5. p \in Seq(Jobs) /\ q \in Seq(Jobs)
  BY <1>1, SQ!ConcatProperties
<1> HIDE DEF p
<1>6. p \o (w \o a) = q \o a
  <2>1. p \in Seq(Jobs) /\ w \in Seq(Jobs) /\ a \in Seq(Jobs)
    BY <1>1, <1>5
  <2>2. (p \o w) \o a = p \o (w \o a)
    BY <2>1, JobsAssociate, Zenon
  <2> QED
    BY <2>2
<1> HIDE DEF q
<1> DEFINE ab == a \o b  abc == ab \o c  abcd == abc \o d  abcde == abcd \o e  abcdef == abcde \o f
           all == abcdef \o g
<1>7. ab \in Seq(Jobs) /\ (q \o a) \o b = q \o ab
  <2>1. q \in Seq(Jobs) /\ a \in Seq(Jobs) /\ b \in Seq(Jobs)
    BY <1>1, <1>5
  <2>2. (q \o a) \o b = q \o (a \o b)
    BY <2>1, JobsAssociate, Zenon
  <2>3. a \o b \in Seq(Jobs)
    BY <2>1, JobsAssociate, Zenon
  <2> QED
    BY <2>2, <2>3
<1> HIDE DEF ab
<1>8. abc \in Seq(Jobs) /\ (q \o ab) \o c = q \o abc
  <2>1. q \in Seq(Jobs) /\ ab \in Seq(Jobs) /\ c \in Seq(Jobs)
    BY <1>1, <1>5, <1>7
  <2>2. (q \o ab) \o c = q \o (ab \o c)
    BY <2>1, JobsAssociate, Zenon
  <2>3. ab \o c \in Seq(Jobs)
    BY <2>1, JobsAssociate, Zenon
  <2> QED
    BY <2>2, <2>3
<1> HIDE DEF abc
<1>9. abcd \in Seq(Jobs) /\ (q \o abc) \o d = q \o abcd
  <2>1. q \in Seq(Jobs) /\ abc \in Seq(Jobs) /\ d \in Seq(Jobs)
    BY <1>1, <1>5, <1>8
  <2>2. (q \o abc) \o d = q \o (abc \o d)
    BY <2>1, JobsAssociate, Zenon
  <2>3. abc \o d \in Seq(Jobs)
    BY <2>1, JobsAssociate, Zenon
  <2> QED
    BY <2>2, <2>3
<1> HIDE DEF abcd
<1>10. abcde \in Seq(Jobs) /\ (q \o abcd) \o e = q \o abcde
  <2>1. q \in Seq(Jobs) /\ abcd \in Seq(Jobs) /\ e \in Seq(Jobs)
    BY <1>1, <1>5, <1>9
  <2>2. (q \o abcd) \o e = q \o (abcd \o e)
    BY <2>1, JobsAssociate, Zenon
  <2>3. abcd \o e \in Seq(Jobs)
    BY <2>1, JobsAssociate, Zenon
  <2> QED
    BY <2>2, <2>3
<1> HIDE DEF abcde
<1>11. abcdef \in Seq(Jobs) /\ (q \o abcde) \o f = q \o abcdef
  <2>1. q \in Seq(Jobs) /\ abcde \in Seq(Jobs) /\ f \in Seq(Jobs)
    BY <1>1, <1>5, <1>10
  <2>2. (q \o abcde) \o f = q \o (abcde \o f)
    BY <2>1, JobsAssociate, Zenon
  <2>3. abcde \o f \in Seq(Jobs)
    BY <2>1, JobsAssociate, Zenon
  <2> QED
    BY <2>2, <2>3
<1> HIDE DEF abcdef
<1>12. all \in Seq(Jobs) /\ (q \o abcdef) \o g = q \o all
  <2>1. q \in Seq(Jobs) /\ abcdef \in Seq(Jobs) /\ g \in Seq(Jobs)
    BY <1>1, <1>5, <1>11
  <2>2. (q \o abcdef) \o g = q \o (abcdef \o g)
    BY <2>1, JobsAssociate, Zenon
  <2>3. abcdef \o g \in Seq(Jobs)
    BY <2>1, JobsAssociate, Zenon
  <2> QED
    BY <2>2, <2>3
<1> HIDE DEF all
<1>13. CxxHeader = q \o all
  BY <1>2, <1>6, <1>7, <1>8, <1>9, <1>10, <1>11, <1>12
<1>14. Defining = all
  BY <1>4 DEF ab, abc, abcd, abcde, abcdef, all
<1>15. o \o (q \o all) = (o \o q) \o all
  <2>1. o \in Seq(Jobs) /\ q \in Seq(Jobs) /\ all \in Seq(Jobs)
    BY <1>1, <1>5, <1>12
  <2>2. (o \o q) \o all = o \o (q \o all)
    BY <2>1, JobsAssociate, Zenon
  <2> QED
    BY <2>2
<1> QED
  BY <1>3, <1>4, <1>13, <1>14, <1>15

TsJobs ==
  {Job("open", "module", 0, 0), Job("classify", "none", 0, 0)}
    \cup (UNION {EnumSet("module", m) : m \in ToSet(Enums)})
    \cup (UNION {BodyJobs("module", m) : m \in ToSet(Composites)})

\* What either back end does.
LEMMA TsScriptHolds ==
  ASSUME mod \in Programs, lang = "ts"
  PROVE  Well(Script, {"field"}) /\ ToSet(Script) = TsJobs
<1> DEFINE a == Once("open", "module")  b == Once("classify", "none")
           c == EnumJobs("module")  d == Bodies("module", Composites)
           ab == a \o b  cd == c \o d  all == ab \o cd
<1>1. Well(a, {}) /\ ToSet(a) = {Job("open", "module", 0, 0)}
  BY NamesAre, OnceIsWell
<1>2. Well(b, {}) /\ ToSet(b) = {Job("classify", "none", 0, 0)}
  BY NamesAre, OnceIsWell
<1>3. Well(c, {}) /\ ToSet(c) = UNION {EnumSet("module", m) : m \in ToSet(Enums)}
  BY NamesAre, EnumJobsAreWell
<1>4. Well(d, {"field"}) /\ ToSet(d) = UNION {BodyJobs("module", m) : m \in ToSet(Composites)}
  BY NamesAre, BodiesAreWell
<1>5. lang # "cpp"
  OBVIOUS
<1>6. Script = all
  BY <1>5 DEF Script, TsSource
<1> HIDE DEF a, b, c, d
<1>7. Well(ab, {}) /\ ToSet(ab) = ToSet(a) \cup ToSet(b)
  BY <1>1, <1>2, WellPlainJoin
<1>8. Well(cd, {"field"}) /\ ToSet(cd) = ToSet(c) \cup ToSet(d)
  BY <1>3, <1>4, PlainWellJoin
<1> HIDE DEF ab, cd
<1>9. Well(all, {"field"}) /\ ToSet(all) = ToSet(ab) \cup ToSet(cd)
  BY <1>7, <1>8, PlainWellJoin
<1> HIDE DEF all
<1>10. ToSet(all) = TsJobs
  BY <1>1, <1>2, <1>3, <1>4, <1>7, <1>8, <1>9 DEF TsJobs
<1> QED
  BY <1>6, <1>9, <1>10

\* What the C++ back end does.
LEMMA CxxScriptHolds ==
  ASSUME mod \in Programs, lang = "cpp"
  PROVE  /\ Well(Script, {"open_ns", "field", "accessor", "close_ns", "add_field"})
         /\ ToSet(Script) = DeclaringJobs \cup DefiningJobs \cup SourceJobs
<1> DEFINE a == Declaring  b == Defining  c == CxxSource  ab == a \o b  abc == ab \o c
           X == {"open_ns"}  Y == {"field", "accessor", "close_ns"}  Z == {"add_field"}
           XY == {"open_ns", "field", "accessor", "close_ns"}
           XYZ == {"open_ns", "field", "accessor", "close_ns", "add_field"}
<1>1. Script = abc
  BY CxxScript
<1>2. /\ Well(a, X) /\ Well(b, Y) /\ Well(c, Z)
      /\ ToSet(a) = DeclaringJobs /\ ToSet(b) = DefiningJobs /\ ToSet(c) = SourceJobs
  BY DeclaringHolds, DefiningHolds, SourceHolds
<1>3. X \cap Y = {} /\ X \cup Y = XY /\ XY \cap Z = {} /\ XY \cup Z = XYZ
  OBVIOUS
<1> HIDE DEF X, Y, Z, XY, XYZ, a, b, c
<1>4. Well(a, X) /\ Well(b, Y) /\ Well(c, Z)
  BY <1>2
<1>5. Well(ab, XY) /\ ToSet(ab) = ToSet(a) \cup ToSet(b)
  BY <1>3, <1>4, WellJoin
<1> HIDE DEF ab
<1>6. Well(abc, XYZ) /\ ToSet(abc) = ToSet(ab) \cup ToSet(c)
  <2>1. Well(ab, XY) /\ Well(c, Z) /\ XY \cap Z = {} /\ XY \cup Z = XYZ
    BY <1>3, <1>4, <1>5
  <2> QED
    BY <2>1, WellJoin, Zenon
<1> HIDE DEF abc
<1> QED
  BY <1>1, <1>2, <1>5, <1>6 DEF XYZ

\* Both do jobs, and fill an item before they need it.
LEMMA ScriptHolds ==
  ASSUME mod \in Programs, lang \in {"cpp", "ts"}
  PROVE  Script \in Seq(Jobs) /\ Led(Script, Awaiting, Awaited)
<1>1. CASE lang = "cpp"
  BY <1>1, CxxScriptHolds DEF Well
<1>2. CASE lang = "ts"
  BY <1>2, TsScriptHolds DEF Well
<1> QED
  BY <1>1, <1>2

DeclaringOps == {"open", "classify", "open_ns", "fill", "enum", "item", "forward"}
DefiningOps ==
  {"begin", "field", "accessor", "resources", "layout", "declare_create", "close_ns", "close"}
SourceOps == {"create", "make_layout", "add_field", "end"}

\* Each part of what the C++ back end does has its own operations.
LEMMA PartsDiffer ==
  /\ \A x \in DeclaringJobs : x.op \in DeclaringOps
  /\ \A x \in DefiningJobs : x.op \in DefiningOps
  /\ \A x \in SourceJobs : x.op \in SourceOps
<1>1. ASSUME NEW x \in DeclaringJobs
      PROVE  x.op \in DeclaringOps
  <2>1. \A file, m : \A y \in EnumSet(file, m) : y.op \in {"fill", "enum", "item"}
    BY FieldJobsAre, JobHas DEF EnumSet
  <2>2. CASE x \in UNION {EnumSet("header", m) : m \in ToSet(Enums)}
    BY <2>1, <2>2 DEF DeclaringOps
  <2>3. CASE x \in Scopes("open_ns")
    BY <2>3, JobHas DEF Scopes, DeclaringOps
  <2>4. CASE x \in {Job("open", "header", 0, 0), Job("open", "source", 0, 0), Job("classify", "none", 0, 0)}
    BY <2>4, JobHas DEF DeclaringOps
  <2>5. CASE x \in {Job("forward", "header", m, 0) : m \in ToSet(Composites)}
    BY <2>5, JobHas DEF DeclaringOps
  <2> QED
    BY <2>2, <2>3, <2>4, <2>5, Zenon DEF DeclaringJobs
<1>2. ASSUME NEW x \in DefiningJobs
      PROVE  x.op \in DefiningOps
  <2>1. \A file, m : \A y \in BodyJobs(file, m) : y.op \in {"begin", "field"}
    BY FieldJobsAre, JobHas DEF BodyJobs
  <2>2. CASE x \in UNION {BodyJobs("header", m) : m \in ToSet(Composites)}
    BY <2>1, <2>2 DEF DefiningOps
  <2>3. CASE x \in UNION {FieldJobs("accessor", "header", m) : m \in ToSet(Composites)}
    BY <2>3, FieldJobsAre DEF DefiningOps
  <2>4. CASE x \in {Job("resources", "header", 0, 0)} \/ x \in {Job("declare_create", "header", 0, 0)} \/ x \in {Job("close", "header", 0, 0)}
    BY <2>4, JobHas DEF DefiningOps
  <2>5. CASE x \in {Job("layout", "header", m, 0) : m \in LayoutMembers}
    BY <2>5, JobHas DEF DefiningOps
  <2>6. CASE x \in Scopes("close_ns")
    BY <2>6, JobHas DEF Scopes, DefiningOps
  <2> QED
    BY <2>2, <2>3, <2>4, <2>5, <2>6, Zenon DEF DefiningJobs
<1>3. ASSUME NEW x \in SourceJobs
      PROVE  x.op \in SourceOps
  <2>1. CASE x \in UNION {FieldJobs("add_field", "source", m) : m \in ToSet(Composites)}
    BY <2>1, FieldJobsAre DEF SourceOps
  <2>2. CASE x \in {Job("create", "source", 0, 0)} \/ x \in {Job("end", "source", 0, 0)}
    BY <2>2, JobHas DEF SourceOps
  <2>3. CASE x \in {Job("make_layout", "source", m, 0) : m \in LayoutMembers}
    BY <2>3, JobHas DEF SourceOps
  <2> QED
    BY <2>1, <2>2, <2>3, Zenon DEF SourceJobs
<1> QED
  BY <1>1, <1>2, <1>3

\* It declares before it defines, and writes the source file last.
LEMMA CxxOrder ==
  ASSUME mod \in Programs, lang = "cpp", NEW i \in 1 .. Len(Script), NEW j \in 1 .. Len(Script)
  PROVE  /\ Script[i].op \in DeclaringOps /\ Script[j].op \in DefiningOps \cup SourceOps => i < j
         /\ Script[i].op \in DeclaringOps \cup DefiningOps /\ Script[j].op \in SourceOps => i < j
<1> DEFINE a == Declaring  b == Defining  c == CxxSource
<1>1. Script = (a \o b) \o c
  BY CxxScript
<1>2. /\ a \in Seq(Jobs) /\ b \in Seq(Jobs) /\ c \in Seq(Jobs)
      /\ ToSet(a) = DeclaringJobs /\ ToSet(b) = DefiningJobs /\ ToSet(c) = SourceJobs
  BY DeclaringHolds, DefiningHolds, SourceHolds DEF Well
<1> HIDE DEF a, b, c
<1> DEFINE ab == a \o b  bc == b \o c
<1>3. ab \in Seq(Jobs) /\ bc \in Seq(Jobs)
  BY <1>2, JobsAssociate
<1>4. ToSet(ab) = DeclaringJobs \cup DefiningJobs /\ ToSet(bc) = DefiningJobs \cup SourceJobs
  BY <1>2, ConcatElements
<1>5. Script = a \o bc
  <2>1. a \in Seq(Jobs) /\ b \in Seq(Jobs) /\ c \in Seq(Jobs)
    BY <1>2
  <2>2. (a \o b) \o c = a \o (b \o c)
    BY <2>1, JobsAssociate, Zenon
  <2> QED
    BY <1>1, <2>2
<1>6. Script = ab \o c
  BY <1>1
<1> HIDE DEF ab, bc
<1>7. /\ DeclaringOps \cap (DefiningOps \cup SourceOps) = {}
      /\ (DeclaringOps \cup DefiningOps) \cap SourceOps = {}
  BY DEF DeclaringOps, DefiningOps, SourceOps
<1>8. ASSUME Script[i].op \in DeclaringOps, Script[j].op \in DefiningOps \cup SourceOps
      PROVE  i < j
  <2>1. Script[i] \notin ToSet(bc) /\ Script[j] \notin ToSet(a)
    BY <1>2, <1>4, <1>7, <1>8, PartsDiffer
  <2> QED
    BY <1>2, <1>3, <1>5, <2>1, ConcatBefore
<1>9. ASSUME Script[i].op \in DeclaringOps \cup DefiningOps, Script[j].op \in SourceOps
      PROVE  i < j
  <2>1. Script[i] \notin ToSet(c) /\ Script[j] \notin ToSet(ab)
    BY <1>2, <1>4, <1>7, <1>9, PartsDiffer
  <2> QED
    BY <1>2, <1>3, <1>6, <2>1, ConcatBefore
<1> QED
  BY <1>8, <1>9

\* No layout is looked for past the end of the structs unless there are more
\* classes than structs.
LEMMA LayoutMembersAre ==
  ASSUME mod \in Programs
  PROVE  /\ LayoutMembers \subseteq 0 .. Len(Members) /\ ToSet(Structs) \subseteq LayoutMembers
         /\ Len(Classes) <= Len(Structs) => 0 \notin LayoutMembers
<1>1. Structs \in Seq(1 .. Len(Members)) /\ Classes \in Seq(1 .. Len(Members)) /\ Len(Members) \in Nat
  BY CompositesAre, MembersAre
<1>2. /\ ToSet(Structs) = {Structs[k] : k \in 1 .. Len(Structs)} /\ Len(Structs) \in Nat /\ Len(Classes) \in Nat
      /\ \A k \in 1 .. Len(Structs) : Structs[k] \in 1 .. Len(Members)
  BY <1>1, ElementsAre
<1>3. ToSet(Structs) \subseteq 1 .. Len(Members)
  BY <1>2
<1>4. \A k \in 1 .. Len(Classes) : (IF k <= Len(Structs) THEN Structs[k] ELSE 0) \in 0 .. Len(Members)
  BY <1>1, <1>2
<1>5. ASSUME Len(Classes) <= Len(Structs)
      PROVE  \A k \in 1 .. Len(Classes) : (IF k <= Len(Structs) THEN Structs[k] ELSE 0) # 0
  BY <1>1, <1>2, <1>5
<1> QED
  BY <1>1, <1>3, <1>4, <1>5 DEF LayoutMembers

-----------------------------------------------------------------------------
(* The steps.                                                               *)

SilentOps == {"open", "classify", "fill", "close"}
FieldOps == {"field", "accessor", "add_field"}
LayoutOps == {"layout", "make_layout"}

\* A job is done: without text, by giving an item its value, or by writing the
\* job, for a layout past the end of the structs that of any member.
Does == result = "running" /\ todo # << >> /\ Advance
Silently ==
  /\ UNCHANGED << values, out >> /\ Current.op \in SilentOps
  /\ Current.op = "classify" => Positions("import") = << >>
  /\ Current.op = "fill" => values[Current.m][Current.f] # NullValue
Counts(v) ==
  \/ Current.f = 1 /\ v = DefaultEnumValue(Base)
  \/ /\ Current.f > 1 /\ values[Current.m][Current.f - 1].kind \in IntKinds
     /\ v \in NextValues(values[Current.m][Current.f - 1])
Filling ==
  /\ out' = out /\ Current.op = "fill" /\ values[Current.m][Current.f] = NullValue
  /\ FilledBase(Base) = "ok"
  /\ \E v : Counts(v) /\ values' = [values EXCEPT ![Current.m][Current.f] = v]
Accepted ==
  /\ Current.op \in FieldOps => WrittenType(Type) = "ok"
  /\ Current.op = "enum" => EnumBase(Base) = "ok"
  /\ Current.op = "item" => WrittenExpr(values[Current.m][Current.f]) = "ok"
  /\ Current.op = "create" => mod.path # 0
Piece(p) ==
  \/ p = Current /\ (Current.op \in LayoutOps => Current.m # 0)
  \/ /\ Current.op \in LayoutOps /\ Current.m = 0
     /\ \E m \in 1 .. Len(Members) : p = [Current EXCEPT !.m = m]
Writing ==
  /\ values' = values /\ Current.op \notin SilentOps /\ Accepted
  /\ \E p : Piece(p) /\ Write(p)

\* The program ends: by a failure, at the end, or because it refuses a job.
Refused(r) ==
  \/ Current.op = "classify" /\ Positions("import") # << >> /\ r = "terminated"
  \/ /\ Current.op = "fill" /\ values[Current.m][Current.f] = NullValue
     /\ \/ FilledBase(Base) # "ok" /\ r = FilledBase(Base)
        \/ /\ FilledBase(Base) = "ok" /\ Current.f > 1
           /\ values[Current.m][Current.f - 1].kind \notin IntKinds /\ r = "terminated"
        \/ /\ FilledBase(Base) = "ok" /\ Current.f > 1
           /\ Overflows(values[Current.m][Current.f - 1]) /\ r = "crashed"
  \/ Current.op = "enum" /\ EnumBase(Base) # "ok" /\ r = EnumBase(Base)
  \/ /\ Current.op = "item" /\ WrittenExpr(values[Current.m][Current.f]) # "ok"
     /\ r = WrittenExpr(values[Current.m][Current.f])
  \/ Current.op \in FieldOps /\ WrittenType(Type) # "ok" /\ r = WrittenType(Type)
  \/ Current.op = "create" /\ mod.path = 0 /\ r = "crashed"
  \/ Current.op \in LayoutOps /\ Current.m = 0 /\ r = "crashed"
Faulted ==
  /\ todo # << >> /\ faults > 0 /\ faults' = faults - 1
  /\ result' \in {"ErrorOpeningFile", "OutOfMemory", "IO"}
Halts ==
  /\ result = "running" /\ UNCHANGED << lang, mod, values, todo, out >>
  /\ \/ Faulted
     \/ todo = << >> /\ result' = "done" /\ faults' = faults
     \/ todo # << >> /\ Refused(result') /\ faults' = faults

\* Every step is one of these.
LEMMA Steps ==
  ASSUME [Next]_vars
  PROVE  \/ UNCHANGED vars
         \/ Halts
         \/ Does /\ (Silently \/ Filling \/ Writing)
<1>1. CASE Open
  BY <1>1 DEF Open, At, Does, Silently, SilentOps
<1>2. CASE Classify
  <2>1. result = "running" /\ todo # << >> /\ Current.op = "classify"
    BY <1>2 DEF Classify, At
  <2>2. CASE Positions("import") = << >> /\ Advance /\ UNCHANGED << values, out >>
    BY <2>1, <2>2 DEF Does, Silently, SilentOps
  <2>3. CASE Positions("import") # << >> /\ Stop("terminated")
    BY <2>1, <2>3 DEF Stop, Halts, Refused
  <2> QED
    BY <1>2, <2>2, <2>3 DEF Classify
<1>3. CASE FillItem
  <2> DEFINE m == Current.m  i == Current.f
  <2>1. result = "running" /\ todo # << >> /\ Current.op = "fill"
    BY <1>3 DEF FillItem, At
  <2>2. CASE values[m][i] # NullValue /\ Advance /\ UNCHANGED << values, out >>
    BY <2>1, <2>2 DEF Does, Silently, SilentOps
  <2>3. CASE values[m][i] = NullValue /\ FilledBase(Base) # "ok" /\ Stop(FilledBase(Base))
    BY <2>1, <2>3 DEF Stop, Halts, Refused
  <2>4. CASE /\ values[m][i] = NullValue /\ FilledBase(Base) = "ok" /\ i = 1
             /\ values' = [values EXCEPT ![m][i] = DefaultEnumValue(Base)] /\ Advance /\ UNCHANGED out
    <3>1. Counts(DefaultEnumValue(Base))
      BY <2>4 DEF Counts
    <3> QED
      BY <2>1, <2>4, <3>1 DEF Does, Filling
  <2>5. CASE /\ values[m][i] = NullValue /\ FilledBase(Base) = "ok" /\ i > 1 /\ values[m][i - 1].kind \in IntKinds
             /\ \E v \in NextValues(values[m][i - 1]) :
                  values' = [values EXCEPT ![m][i] = v] /\ Advance /\ UNCHANGED out
    <3>1. PICK v \in NextValues(values[m][i - 1]) :
            values' = [values EXCEPT ![m][i] = v] /\ Advance /\ UNCHANGED out
      BY <2>5
    <3>2. Counts(v)
      BY <2>5 DEF Counts
    <3> QED
      BY <2>1, <2>5, <3>1, <3>2 DEF Does, Filling
  <2>6. CASE /\ values[m][i] = NullValue /\ FilledBase(Base) = "ok" /\ i > 1 /\ values[m][i - 1].kind \notin IntKinds
             /\ Stop("terminated")
    BY <2>1, <2>6 DEF Stop, Halts, Refused
  <2>7. CASE /\ values[m][i] = NullValue /\ FilledBase(Base) = "ok" /\ i > 1
             /\ Overflows(values[m][i - 1]) /\ Stop("crashed")
    BY <2>1, <2>7 DEF Stop, Halts, Refused
  <2> QED
    BY <1>3, <2>2, <2>3, <2>4, <2>5, <2>6, <2>7, Zenon DEF FillItem
<1>4. CASE BeginEnum
  <2>1. result = "running" /\ todo # << >> /\ Current.op = "enum"
    BY <1>4 DEF BeginEnum, At
  <2>2. CASE EnumBase(Base) = "ok" /\ Write(Current) /\ Advance /\ UNCHANGED values
    BY <2>1, <2>2 DEF Does, Writing, Accepted, Piece, SilentOps, FieldOps, LayoutOps
  <2>3. CASE EnumBase(Base) # "ok" /\ Stop(EnumBase(Base))
    BY <2>1, <2>3 DEF Stop, Halts, Refused
  <2> QED
    BY <1>4, <2>2, <2>3 DEF BeginEnum, WriteIf
<1>5. CASE WriteItem
  <2> DEFINE r == WrittenExpr(values[Current.m][Current.f])
  <2>1. result = "running" /\ todo # << >> /\ Current.op = "item"
    BY <1>5 DEF WriteItem, At
  <2>2. CASE r = "ok" /\ Write(Current) /\ Advance /\ UNCHANGED values
    BY <2>1, <2>2 DEF Does, Writing, Accepted, Piece, SilentOps, FieldOps, LayoutOps
  <2>3. CASE r # "ok" /\ Stop(r)
    BY <2>1, <2>3 DEF Stop, Halts, Refused
  <2> QED
    BY <1>5, <2>2, <2>3 DEF WriteItem, WriteIf
<1>6. CASE WriteField
  <2>1. result = "running" /\ todo # << >> /\ Current.op \in FieldOps
    BY <1>6 DEF WriteField, At, FieldOps
  <2>2. CASE WrittenType(Type) = "ok" /\ Write(Current) /\ Advance /\ UNCHANGED values
    <3>1. Current.op \notin SilentOps /\ Current.op \notin {"enum", "item", "create"} /\ Current.op \notin LayoutOps
      BY <2>1 DEF FieldOps, SilentOps, LayoutOps
    <3>2. Accepted /\ Piece(Current)
      BY <2>2, <3>1 DEF Accepted, Piece
    <3> QED
      BY <2>1, <2>2, <3>1, <3>2 DEF Does, Writing
  <2>3. CASE WrittenType(Type) # "ok" /\ Stop(WrittenType(Type))
    BY <2>1, <2>3 DEF Stop, Halts, Refused
  <2> QED
    BY <1>6, <2>2, <2>3 DEF WriteField, WriteIf
<1>7. CASE WritePlain
  <2>1. /\ result = "running" /\ todo # << >>
        /\ Current.op \in {"open_ns", "forward", "begin", "resources", "declare_create", "close_ns", "end"}
    BY <1>7 DEF WritePlain, At
  <2>2. Write(Current) /\ Advance /\ UNCHANGED values
    BY <1>7 DEF WritePlain, WriteIf
  <2>3. /\ Current.op \notin SilentOps /\ Current.op \notin {"enum", "item", "create"}
        /\ Current.op \notin LayoutOps /\ Current.op \notin FieldOps
    BY <2>1 DEF FieldOps, SilentOps, LayoutOps
  <2>4. Accepted /\ Piece(Current)
    BY <2>3 DEF Accepted, Piece
  <2> QED
    BY <2>1, <2>2, <2>3, <2>4 DEF Does, Writing
<1>8. CASE WriteCreate
  <2>1. result = "running" /\ todo # << >> /\ Current.op = "create"
    BY <1>8 DEF WriteCreate, At
  <2>2. CASE mod.path # 0
    <3>1. Write(Current) /\ Advance /\ UNCHANGED values
      BY <1>8, <2>2 DEF WriteCreate, WriteIf
    <3> QED
      BY <2>1, <2>2, <3>1 DEF Does, Writing, Accepted, Piece, SilentOps, FieldOps, LayoutOps
  <2>3. CASE mod.path = 0
    <3>1. Stop("crashed")
      BY <1>8, <2>3 DEF WriteCreate, WriteIf
    <3> QED
      BY <2>1, <2>3, <3>1 DEF Stop, Halts, Refused
  <2> QED
    BY <2>2, <2>3
<1>9. CASE WriteLayout
  <2>1. result = "running" /\ todo # << >> /\ Current.op \in LayoutOps
    BY <1>9 DEF WriteLayout, At, LayoutOps
  <2>2. Current.op \notin SilentOps /\ Current.op \notin {"enum", "item", "create"} /\ Current.op \notin FieldOps
    BY <2>1 DEF FieldOps, SilentOps, LayoutOps
  <2>3. Accepted
    BY <2>2 DEF Accepted
  <2>4. CASE Current.m # 0 /\ WriteIf("ok")
    <3>1. Write(Current) /\ Advance /\ UNCHANGED values
      BY <2>4 DEF WriteIf
    <3> QED
      BY <2>1, <2>2, <2>3, <2>4, <3>1 DEF Does, Writing, Piece
  <2>5. CASE Current.m = 0 /\ Stop("crashed")
    BY <2>1, <2>5 DEF Stop, Halts, Refused
  <2>6. CASE /\ Current.m = 0
             /\ \E m \in 1 .. Len(Members) : Write([Current EXCEPT !.m = m])
             /\ Advance /\ UNCHANGED values
    <3>1. PICK m \in 1 .. Len(Members) : Write([Current EXCEPT !.m = m])
      BY <2>6
    <3>2. Piece([Current EXCEPT !.m = m])
      BY <2>1, <2>6 DEF Piece
    <3> QED
      BY <2>1, <2>2, <2>3, <2>6, <3>1, <3>2, Zenon DEF Does, Writing
  <2> QED
    BY <1>9, <2>4, <2>5, <2>6 DEF WriteLayout
<1>10. CASE Close
  BY <1>10 DEF Close, At, Does, Silently, SilentOps
<1>11. CASE Return
  BY <1>11 DEF Return, Stop, Halts
<1>12. CASE Fault
  <2>1. Faulted
    BY <1>12 DEF Fault, Faulted
  <2> QED
    BY <1>12, <2>1 DEF Fault, Halts
<1>13. CASE UNCHANGED vars
  BY <1>13
<1> QED
  BY <1>1, <1>2, <1>3, <1>4, <1>5, <1>6, <1>7, <1>8, <1>9, <1>10, <1>11, <1>12, <1>13, Zenon
  DEF Next, Compile, Terminating

\* The module and the language stay, and so does what depends on them alone.
LEMMA ProgramStays ==
  ASSUME [Next]_vars
  PROVE  mod' = mod /\ lang' = lang
BY Steps DEF vars, Halts, Does, Advance

\* As they stay, so do the loops.
LEMMA ScriptStays ==
  ASSUME mod' = mod, lang' = lang
  PROVE  /\ Members' = Members /\ Structs' = Structs /\ Classes' = Classes /\ Composites' = Composites
         /\ Enums' = Enums /\ Script' = Script
<1>1. Members' = Members
  BY DEF Members
<1>2. \A kind : Positions(kind)' = Positions(kind)
  BY <1>1 DEF Positions
<1>3. Structs' = Structs /\ Classes' = Classes /\ Enums' = Enums
  BY <1>2 DEF Structs, Classes, Enums
<1>4. Composites' = Composites
  BY <1>3 DEF Composites
<1>5. \A op, file, m : EachField(op, file, m)' = EachField(op, file, m) /\ EachItem(op, file, m)' = EachItem(op, file, m)
  BY <1>1 DEF EachField, EachItem
<1>6. \A op, file, s : AllFields(op, file, s)' = AllFields(op, file, s) /\ Bodies(file, s)' = Bodies(file, s)
  BY <1>5 DEF AllFields, Bodies
<1>7. \A file : EnumJobs(file)' = EnumJobs(file)
  BY <1>3, <1>5 DEF EnumJobs
<1>8. \A op, file : ClassLayouts(op, file)' = ClassLayouts(op, file)
  BY <1>3 DEF ClassLayouts
<1>9. \A op, file : Layouts(op, file)' = Layouts(op, file)
  BY <1>3, <1>8 DEF Layouts
<1>10. \A op : Namespaces(op)' = Namespaces(op)
  BY DEF Namespaces
<1>11. Definitions' = Definitions
  BY <1>4, <1>6 DEF Definitions
<1>12. CxxHeader' = CxxHeader
  BY <1>4, <1>6, <1>7, <1>9, <1>10, <1>11 DEF CxxHeader
<1>13. CxxSource' = CxxSource
  BY <1>4, <1>6, <1>9 DEF CxxSource
<1>14. TsSource' = TsSource
  BY <1>4, <1>6, <1>7 DEF TsSource
<1> QED
  BY <1>1, <1>3, <1>4, <1>12, <1>13, <1>14 DEF Script

\* What remains is the end of the script.
Place == Len(Script) - Len(todo)
Progress ==
  /\ todo \in Seq(Jobs) /\ Len(todo) <= Len(Script)
  /\ \A k \in 1 .. Len(todo) : todo[k] = Script[Place + k]

\* The current job is the one at its place in the script.
LEMMA CurrentIs ==
  ASSUME mod \in Programs, lang \in {"cpp", "ts"}, Progress
  PROVE  /\ Place \in Nat /\ Place <= Len(Script) /\ Len(Script) \in Nat
         /\ todo # << >> => /\ Place + 1 \in 1 .. Len(Script) /\ Current = Script[Place + 1] /\ Current \in Jobs
                           /\ Current \in ToSet(Script)
         /\ todo = << >> => Place = Len(Script)
<1>1. Script \in Seq(Jobs)
  BY ScriptHolds
<1>2. Len(Script) \in Nat /\ Len(todo) \in Nat /\ Len(todo) <= Len(Script) /\ todo \in Seq(Jobs)
  BY <1>1 DEF Progress
<1>3. Place \in Nat /\ Place <= Len(Script)
  BY <1>2 DEF Place
<1>4. ASSUME todo # << >>
      PROVE  /\ Place + 1 \in 1 .. Len(Script) /\ Current = Script[Place + 1] /\ Current \in Jobs
             /\ Current \in ToSet(Script)
  <2>1. Len(todo) > 0 /\ Current = todo[1] /\ 1 \in 1 .. Len(todo)
    BY <1>2, <1>4 DEF Current
  <2>2. Current = Script[Place + 1]
    BY <2>1 DEF Progress
  <2>3. Place + 1 \in 1 .. Len(Script)
    BY <1>2, <2>1 DEF Place
  <2>4. Script[Place + 1] \in Jobs /\ Script[Place + 1] \in ToSet(Script)
    BY <1>1, <2>3, ElementsAre
  <2> QED
    BY <2>2, <2>3, <2>4
<1>5. todo = << >> => Place = Len(Script)
  BY <1>2 DEF Place
<1> QED
  BY <1>2, <1>3, <1>4, <1>5

\* A job done is one more of the script.
LEMMA ProgressStep ==
  ASSUME mod \in Programs, lang \in {"cpp", "ts"}, Progress, [Next]_vars
  PROVE  /\ Progress'
         /\ Does => Place' = Place + 1
         /\ ~Does => todo' = todo /\ Place' = Place /\ values' = values /\ out' = out
<1>1. Script' = Script /\ Script \in Seq(Jobs) /\ Len(Script) \in Nat
  BY ProgramStays, ScriptStays, ScriptHolds
<1>2. CASE Does
  <2>1. todo \in Seq(Jobs) /\ todo # << >> /\ todo' = Tail(todo)
    BY <1>2 DEF Does, Advance, Progress
  <2>2. todo' \in Seq(Jobs) /\ Len(todo') = Len(todo) - 1 /\ Len(todo) \in Nat /\ \A k \in 1 .. Len(todo') : todo'[k] = todo[k + 1]
    BY <2>1
  <2>3. Place' = Place + 1 /\ Place \in Int
    BY <1>1, <2>2 DEF Place
  <2>4. Len(todo') <= Len(Script')
    BY <1>1, <2>2 DEF Progress
  <2>5. ASSUME NEW k \in 1 .. Len(todo')
        PROVE  todo'[k] = Script'[Place' + k]
    <3>1. k + 1 \in 1 .. Len(todo) /\ Place + (k + 1) = Place' + k
      BY <2>2, <2>3
    <3>2. todo[k + 1] = Script[Place + (k + 1)]
      BY <3>1 DEF Progress
    <3> QED
      BY <1>1, <2>2, <3>1, <3>2
  <2>6. Progress'
    BY <2>2, <2>4, <2>5 DEF Progress
  <2> QED
    BY <1>2, <2>3, <2>6
<1>3. CASE ~Does
  <2>1. todo' = todo /\ values' = values /\ out' = out
    BY <1>3, Steps DEF vars, Halts
  <2>2. Place' = Place
    BY <1>1, <2>1 DEF Place
  <2>3. Progress'
    BY <1>1, <2>1, <2>2 DEF Progress
  <2> QED
    BY <1>3, <2>1, <2>2, <2>3
<1> QED
  BY <1>2, <1>3

-----------------------------------------------------------------------------
(* The values of the enum items.                                            *)

\* Integers are no other kind of literal.
LEMMA IntKindsAre ==
  /\ "null" \notin IntKinds /\ "bad" \notin IntKinds /\ "F32" \notin IntKinds /\ "F64" \notin IntKinds
  /\ "Bool" \notin IntKinds /\ "String" \notin IntKinds /\ "Custom" \notin IntKinds
  /\ IntKinds \subseteq Scalars /\ \A k \in IntKinds : Modulus[k] \in Nat \ {0}
<1>1. \A k \in IntKinds : k \notin {"F32", "F64", "Bool", "String", "Custom", "null", "bad"}
  BY IntKindsAssumption
<1> QED
  BY <1>1, ModulusAssumption DEF Scalars

\* Only an integer type gives its items values.
LEMMA FilledBaseIs ==
  ASSUME NEW t, FilledBase(t) = "ok"
  PROVE  t.kind \in IntKinds
BY IntKindsAre DEF FilledBase

\* A remainder is determined by what is divided.
LEMMA OneRemainder ==
  ASSUME NEW b \in Nat \ {0}, NEW q \in Int, NEW p \in Int,
         NEW r \in 0 .. b - 1, NEW s \in 0 .. b - 1, b * q + r = b * p + s
  PROVE  r = s
<1>1. ASSUME NEW x \in Int, NEW y \in Int, x < y
      PROVE  b * y \in Int /\ b * x \in Int /\ b * y >= b * x + b
  <2>1. PICK d \in Nat \ {0} : y = x + d
    <3>1. y - x \in Nat \ {0} /\ y = x + (y - x)
      BY <1>1
    <3> QED
      BY <3>1
  <2>2. b * y = b * x + b * d /\ b * d >= b
    BY <2>1
  <2> QED
    BY <2>1, <2>2
<1> DEFINE u == b * q  v == b * p
<1>2. u \in Int /\ v \in Int /\ u + r = v + s /\ (q < p => v >= u + b) /\ (p < q => u >= v + b) /\ (p = q => u = v)
  BY <1>1
<1> HIDE DEF u, v
<1> QED
  BY <1>2

\* What a number is made of.
LEMMA Division ==
  ASSUME NEW a \in Nat, NEW b \in Nat \ {0}
  PROVE  a \div b \in Int /\ a % b \in 0 .. b - 1 /\ a = b * (a \div b) + (a % b)
OBVIOUS

\* The remainder is below the modulus, and counting one at a time is counting.
LEMMA Remainder ==
  ASSUME NEW a \in Nat, NEW b \in Nat \ {0}
  PROVE  a % b \in Nat /\ a % b < b /\ ((a % b) + 1) % b = (a + 1) % b /\ 0 % b = 0
<1> DEFINE q == a \div b  r == a % b
<1>1. q \in Int /\ r \in 0 .. b - 1 /\ a = b * q + r /\ r \in Nat /\ r < b
  BY Division
<1> HIDE DEF q, r
<1> DEFINE qa == (a + 1) \div b  ra == (a + 1) % b  qr == (r + 1) \div b  rr == (r + 1) % b
<1>2. qa \in Int /\ ra \in 0 .. b - 1 /\ a + 1 = b * qa + ra
  BY Division
<1>3. qr \in Int /\ rr \in 0 .. b - 1 /\ r + 1 = b * qr + rr
  BY <1>1, Division
<1> HIDE DEF qa, ra, qr, rr
<1>4. b * (q + qr) = b * q + b * qr /\ q + qr \in Int
  BY <1>1, <1>3
<1>5. b * (q + qr) + rr = b * qa + ra
  <2> DEFINE x == b * q  y == b * qr  z == b * qa  w == b * (q + qr)
  <2>1. x \in Int /\ y \in Int /\ z \in Int /\ w = x + y /\ a = x + r /\ a + 1 = z + ra /\ r + 1 = y + rr
    BY <1>1, <1>2, <1>3, <1>4
  <2> HIDE DEF x, y, z, w
  <2>2. w + rr = z + ra
    BY <2>1, <1>1, <1>2, <1>3
  <2> QED
    BY <2>2 DEF w, z
<1>6. rr = ra
  BY <1>2, <1>3, <1>4, <1>5, OneRemainder
<1>7. 0 % b = 0
  OBVIOUS
<1> QED
  BY <1>1, <1>6, <1>7 DEF rr, ra, r

\* A number below the modulus is its own remainder.
LEMMA SmallRemainder ==
  ASSUME NEW b \in Nat \ {0}, NEW a \in Nat, a < b
  PROVE  a % b = a
<1> DEFINE q == a \div b  r == a % b
<1>1. q \in Int /\ r \in 0 .. b - 1 /\ a = b * q + r
  BY Division
<1> HIDE DEF q, r
<1>2. b * 0 = 0 /\ a \in 0 .. b - 1 /\ 0 \in Int
  OBVIOUS
<1>3. b * q + r = b * 0 + a
  BY <1>1, <1>2
<1>4. r = a
  BY <1>1, <1>2, <1>3, OneRemainder
<1> QED
  BY <1>4 DEF r

\* What inc_enum_value may make of an integer literal is one of its kind and
\* within its width, and where it does not overflow it is the successor.
LEMMA NextValueIs ==
  ASSUME NEW w, WellKept(w), w.kind \in IntKinds, NEW v \in NextValues(w)
  PROVE  /\ WellKept(v) /\ v.kind = w.kind
         /\ ~Overflows(w) => v = IncEnumValue(w)
<1>1. w.data \in Nat /\ w = [kind |-> w.kind, data |-> w.data]
  BY DEF WellKept, Value
<1>2. Modulus[w.kind] \in Nat \ {0}
  BY IntKindsAre
<1>3. ~Overflows(w) => v = IncEnumValue(w)
  BY DEF NextValues
<1>4. \E d \in Nat : d < Modulus[w.kind] /\ v = [w EXCEPT !.data = d]
  <2>1. CASE Overflows(w)
    BY <1>2, <2>1 DEF NextValues
  <2>2. CASE ~Overflows(w)
    <3>1. v = [w EXCEPT !.data = (w.data + 1) % Modulus[w.kind]]
      BY <1>3, <2>2 DEF IncEnumValue
    <3>2. (w.data + 1) % Modulus[w.kind] \in Nat /\ (w.data + 1) % Modulus[w.kind] < Modulus[w.kind]
      BY <1>1, <1>2, Remainder
    <3> QED
      BY <3>1, <3>2
  <2> QED
    BY <2>1, <2>2
<1>5. PICK d \in Nat : d < Modulus[w.kind] /\ v = [w EXCEPT !.data = d]
  BY <1>4
<1>6. v = [kind |-> w.kind, data |-> d]
  BY <1>1, <1>5
<1>7. v.kind = w.kind /\ v.data = d /\ v \in Value
  BY <1>6, IntKindsAre DEF Value
<1> QED
  BY <1>3, <1>5, <1>7, IntKindsAre DEF WellKept, NullValue

\* The value an item is given is an integer, of the kind of its base type or
\* of its predecessor, and in its width.
LEMMA CountedIs ==
  ASSUME TypeOK, NEW v, Counts(v), FilledBase(Base) = "ok",
         Current.m \in 1 .. Len(Members), Current.f \in 1 .. Len(Members[Current.m].items)
  PROVE  WellKept(v) /\ v.kind \in IntKinds /\ v # NullValue
<1> DEFINE m == Current.m  i == Current.f
<1>1. CASE i = 1 /\ v = DefaultEnumValue(Base)
  <2>1. Base.kind \in IntKinds
    BY FilledBaseIs
  <2>2. v = [kind |-> Base.kind, data |-> 0]
    BY <1>1 DEF DefaultEnumValue
  <2>3. v.kind = Base.kind /\ v.data = 0
    BY <2>2
  <2>4. v \in Value
    BY <2>1, <2>2, IntKindsAre DEF Value
  <2> QED
    BY <2>1, <2>3, <2>4, IntKindsAre DEF WellKept, NullValue
<1>2. CASE i > 1 /\ values[m][i - 1].kind \in IntKinds /\ v \in NextValues(values[m][i - 1])
  <2>1. Len(Members[m].items) \in Nat
    BY MembersAre DEF TypeOK
  <2>2. i - 1 \in 1 .. Len(Members[m].items)
    BY <1>2, <2>1
  <2>3. WellKept(values[m][i - 1])
    BY <2>2 DEF TypeOK
  <2>4. WellKept(v) /\ v.kind \in IntKinds
    BY <1>2, <2>3, NextValueIs
  <2> QED
    BY <2>4, IntKindsAre DEF NullValue
<1> QED
  BY <1>1, <1>2 DEF Counts

\* Filling gives one item its value, the item the job is about.
LEMMA FillingIs ==
  ASSUME TypeOK, Filling
  PROVE  \E v : /\ Counts(v)
               /\ DOMAIN values' = DOMAIN values
               /\ \A m \in 1 .. Len(Members) :
                    /\ DOMAIN values'[m] = DOMAIN values[m]
                    /\ \A i \in 1 .. Len(Members[m].items) :
                         values'[m][i] = IF m = Current.m /\ i = Current.f THEN v ELSE values[m][i]
<1>1. PICK v : Counts(v) /\ values' = [values EXCEPT ![Current.m][Current.f] = v]
  BY DEF Filling
<1> DEFINE m0 == Current.m  i0 == Current.f
<1>2. values' = [values EXCEPT ![m0] = [values[m0] EXCEPT ![i0] = v]]
  BY <1>1
<1> HIDE DEF m0, i0
<1>3. DOMAIN values' = DOMAIN values
  BY <1>2
<1>4. ASSUME NEW m \in 1 .. Len(Members)
      PROVE  /\ DOMAIN values'[m] = DOMAIN values[m]
             /\ \A i \in 1 .. Len(Members[m].items) :
                  values'[m][i] = IF m = m0 /\ i = i0 THEN v ELSE values[m][i]
  <2>1. m \in DOMAIN values /\ DOMAIN values[m] = 1 .. Len(Members[m].items)
    BY DEF TypeOK
  <2>2. CASE m = m0
    <3>1. values'[m] = [values[m] EXCEPT ![i0] = v]
      BY <1>2, <2>1, <2>2
    <3> QED
      BY <2>1, <2>2, <3>1
  <2>3. CASE m # m0
    BY <1>2, <2>1, <2>3
  <2> QED
    BY <2>2, <2>3
<1> QED
  BY <1>1, <1>3, <1>4 DEF m0, i0

\* At first the state is well-typed.
LEMMA TypeInit == Init => TypeOK
<1> SUFFICES ASSUME Init
             PROVE  TypeOK
  OBVIOUS
<1>1. lang \in {"cpp", "ts"} /\ mod \in Programs /\ result = "running" /\ faults = MaxFaults
      /\ values = [m \in 1 .. Len(Members) |-> Members[m].items]
  BY DEF Init
<1>2. DOMAIN values = 1 .. Len(Members) /\ \A m \in 1 .. Len(Members) : values[m] = Members[m].items
  BY <1>1
<1>3. \A m \in 1 .. Len(Members) :
        /\ DOMAIN values[m] = 1 .. Len(Members[m].items)
        /\ \A i \in 1 .. Len(Members[m].items) : WellKept(values[m][i])
  BY <1>1, <1>2, MembersAre
<1>4. result \in Results /\ faults \in 0 .. MaxFaults
  BY <1>1, MaxFaultsAssumption DEF Results
<1> QED
  BY <1>1, <1>2, <1>3, <1>4 DEF TypeOK

\* What the writers refuse with is a result.
LEMMA RefusalsAre ==
  ASSUME NEW r, Refused(r)
  PROVE  r \in Results
<1>1. "terminated" \in Results /\ "crashed" \in Results
  BY DEF Results
<1>2. \A t : EnumBase(t) # "ok" => EnumBase(t) \in Results
  BY DEF EnumBase, Results
<1>3. \A t : FilledBase(t) # "ok" => FilledBase(t) \in Results
  BY DEF FilledBase, Results
<1>4. \A t : WrittenType(t) # "ok" => WrittenType(t) \in Results
  BY DEF WrittenType, CxxType, TsType, Results
<1>5. \A v : WrittenExpr(v) # "ok" => WrittenExpr(v) \in Results
  BY DEF WrittenExpr, Results
<1> QED
  BY <1>1, <1>2, <1>3, <1>4, <1>5 DEF Refused

\* A step leaves it well-typed.
LEMMA TypeStep == TypeOK /\ [Next]_vars => TypeOK'
<1> SUFFICES ASSUME TypeOK, [Next]_vars
             PROVE  TypeOK'
  OBVIOUS
<1>1. mod' = mod /\ lang' = lang /\ Members' = Members /\ lang' \in {"cpp", "ts"} /\ mod' \in Programs
  BY ProgramStays, ScriptStays DEF TypeOK
<1>2. result' \in Results
  <2>1. CASE UNCHANGED vars \/ Does
    BY <2>1 DEF vars, Does, Advance, TypeOK
  <2>2. CASE Halts
    <3>1. "done" \in Results /\ {"ErrorOpeningFile", "OutOfMemory", "IO"} \subseteq Results
      BY DEF Results
    <3> QED
      BY <2>2, <3>1, RefusalsAre DEF Halts, Faulted
  <2> QED
    BY <2>1, <2>2, Steps
<1>3. faults' \in 0 .. MaxFaults
  <2>1. CASE UNCHANGED vars \/ Does
    BY <2>1 DEF vars, Does, Advance, TypeOK
  <2>2. CASE Halts
    BY <2>2, MaxFaultsAssumption DEF Halts, Faulted, TypeOK
  <2> QED
    BY <2>1, <2>2, Steps
<1>4. /\ DOMAIN values' = 1 .. Len(Members)
      /\ \A m \in 1 .. Len(Members) :
           /\ DOMAIN values'[m] = 1 .. Len(Members[m].items)
           /\ \A i \in 1 .. Len(Members[m].items) : WellKept(values'[m][i])
  <2>1. CASE values' = values
    BY <2>1 DEF TypeOK
  <2>2. CASE Filling
    <3>1. PICK v : /\ Counts(v)
                   /\ DOMAIN values' = DOMAIN values
                   /\ \A m \in 1 .. Len(Members) :
                        /\ DOMAIN values'[m] = DOMAIN values[m]
                        /\ \A i \in 1 .. Len(Members[m].items) :
                             values'[m][i] = IF m = Current.m /\ i = Current.f THEN v ELSE values[m][i]
      BY <2>2, FillingIs
    <3>2. ASSUME NEW m \in 1 .. Len(Members), NEW i \in 1 .. Len(Members[m].items)
          PROVE  WellKept(values'[m][i])
      <4>1. CASE m = Current.m /\ i = Current.f
        <5>1. FilledBase(Base) = "ok"
          BY <2>2 DEF Filling
        <5>2. WellKept(v)
          BY <3>1, <4>1, <5>1, CountedIs
        <5> QED
          BY <3>1, <4>1, <5>2
      <4>2. CASE ~(m = Current.m /\ i = Current.f)
        <5>1. values'[m][i] = values[m][i]
          BY <3>1, <4>2
        <5> QED
          BY <5>1 DEF TypeOK
      <4> QED
        BY <4>1, <4>2
    <3> QED
      BY <3>1, <3>2 DEF TypeOK
  <2> QED
    BY <2>1, <2>2, Steps DEF vars, Halts, Silently, Writing
<1>5. /\ DOMAIN values' = 1 .. Len(Members')
      /\ \A m \in 1 .. Len(Members') :
           /\ DOMAIN values'[m] = 1 .. Len(Members'[m].items)
           /\ \A i \in 1 .. Len(Members'[m].items) : WellKept(values'[m][i])
  BY <1>1, <1>4
<1> QED
  BY <1>1, <1>2, <1>3, <1>5 DEF TypeOK, WellKept

\* The state stays well-typed, and an integer in its width.
THEOREM TypeCorrect == Spec => []TypeOK
BY TypeInit, TypeStep, PTL DEF Spec

\* One more of a value counted up is the next one.
LEMMA SuccessorStep ==
  ASSUME NEW v, v.kind \in IntKinds, v.data \in Nat, NEW n \in Nat
  PROVE  IncEnumValue(Successor(v, n)) = Successor(v, n + 1)
<1> DEFINE M == Modulus[v.kind]  w == Successor(v, n)  d == v.data + n
<1>1. M \in Nat \ {0} /\ d \in Nat
  BY IntKindsAre
<1>2. w = [kind |-> v.kind, data |-> d % M] /\ Successor(v, n + 1) = [kind |-> v.kind, data |-> (d + 1) % M]
  <2>1. v.data + (n + 1) = d + 1
    OBVIOUS
  <2> QED
    BY <2>1 DEF Successor
<1>3. IncEnumValue(w) = [w EXCEPT !.data = (w.data + 1) % Modulus[w.kind]]
  BY DEF IncEnumValue
<1>4. IncEnumValue(w) = [kind |-> v.kind, data |-> ((d % M) + 1) % M]
  BY <1>2, <1>3
<1>5. ((d % M) + 1) % M = (d + 1) % M
  BY <1>1, Remainder
<1> QED
  BY <1>2, <1>4, <1>5

\* The last item given before an item without a value.
LEMMA LastGivenIs ==
  ASSUME mod \in Programs, NEW m \in 1 .. Len(Members), NEW i \in 1 .. Len(Members[m].items)
  PROVE  /\ GivenUpTo(m, i) # {} =>
              /\ LastGiven(m, i) \in GivenUpTo(m, i) /\ LastGiven(m, i) \in 1 .. i
              /\ \A k \in GivenUpTo(m, i) : k <= LastGiven(m, i)
              /\ i \in GivenUpTo(m, i) => LastGiven(m, i) = i
         /\ i > 1 /\ Members[m].items[i] = NullValue =>
              GivenUpTo(m, i) = GivenUpTo(m, i - 1) /\ LastGiven(m, i) = LastGiven(m, i - 1)
<1>0. Len(Members[m].items) \in Nat
  BY MembersAre
<1>1. ASSUME GivenUpTo(m, i) # {}
      PROVE  /\ LastGiven(m, i) \in GivenUpTo(m, i) /\ LastGiven(m, i) \in 1 .. i
             /\ \A k \in GivenUpTo(m, i) : k <= LastGiven(m, i)
             /\ i \in GivenUpTo(m, i) => LastGiven(m, i) = i
  <2>1. GivenUpTo(m, i) \subseteq 0 .. i /\ GivenUpTo(m, i) \subseteq 1 .. i /\ i \in Nat
    BY <1>0 DEF GivenUpTo
  <2>2. \E j \in GivenUpTo(m, i) : \A k \in GivenUpTo(m, i) : k <= j
    BY <1>1, <2>1, GreatestNatural, Zenon
  <2>3. LastGiven(m, i) \in GivenUpTo(m, i) /\ \A k \in GivenUpTo(m, i) : k <= LastGiven(m, i)
    BY <2>2 DEF LastGiven
  <2> QED
    BY <2>1, <2>3
<1>2. ASSUME i > 1, Members[m].items[i] = NullValue
      PROVE  GivenUpTo(m, i) = GivenUpTo(m, i - 1) /\ LastGiven(m, i) = LastGiven(m, i - 1)
  <2>1. GivenUpTo(m, i) = GivenUpTo(m, i - 1)
    BY <1>0, <1>2 DEF GivenUpTo
  <2> QED
    BY <2>1 DEF LastGiven
<1> QED
  BY <1>1, <1>2

\* What an item without a value follows has its own origin, one closer to it;
\* an integer there counts up from that origin unless the count overflows.
LEMMA PredecessorCounts ==
  ASSUME TypeOK, CountedFromLastExplicit,
         NEW m \in 1 .. Len(Members), NEW i \in 1 .. Len(Members[m].items), i > 1,
         Members[m].items[i] = NullValue, values[m][i - 1].kind \in IntKinds
  PROVE  LET u == Origin(m, i)  w == values[m][i - 1] IN
         /\ WellKept(w) /\ w.kind = u.kind /\ u.data \in Nat
         /\ Distance(m, i) - 1 \in Nat
         /\ w = Successor(u, Distance(m, i) - 1) \/ CountsTooFar(m, i)
<1> DEFINE w == values[m][i - 1]  its == Members[m].items
           G == GivenUpTo(m, i - 1)  L == LastGiven(m, i - 1)
           u == Origin(m, i)  n == Distance(m, i) - 1
<1>1. mod \in Programs /\ Len(its) \in Nat /\ DOMAIN values[m] = 1 .. Len(its)
  BY MembersAre DEF TypeOK
<1>2. i - 1 \in 1 .. Len(its) /\ i \in Nat
  BY <1>1
<1>3. WellKept(w) /\ w \in Value /\ w.data \in Nat /\ CountedValue(m, i - 1, w)
  BY <1>1, <1>2 DEF TypeOK, WellKept, Value, CountedFromLastExplicit
<1>4. GivenUpTo(m, i) = G /\ LastGiven(m, i) = L
  BY <1>1, LastGivenIs
<1>5. G # {} => L \in G /\ L \in 1 .. i - 1 /\ (i - 1 \in G => L = i - 1)
  BY <1>1, <1>2, LastGivenIs
<1>6. \A j \in G : j \in 1 .. Len(its)
  BY <1>1, <1>2 DEF GivenUpTo
<1>7. u = Origin(m, i - 1) /\ Distance(m, i) = Distance(m, i - 1) + 1 /\ n = Distance(m, i - 1)
      /\ n \in Nat
  <2>1. CASE G = {}
    BY <1>2, <1>4, <2>1 DEF Origin, Distance
  <2>2. CASE G # {}
    BY <1>2, <1>4, <1>5, <2>2 DEF Origin, Distance
  <2> QED
    BY <2>1, <2>2
<1>8. CASE i - 1 \in G
  <2>1. L = i - 1 /\ u = its[i - 1] /\ n = 0
    BY <1>2, <1>4, <1>5, <1>8 DEF Origin, Distance
  <2>2. w = u
    BY <1>3, <1>8, <2>1 DEF CountedValue
  <2>3. w = Successor(u, 0)
    <3> HIDE DEF w, u
    <3>1. u.data \in Nat /\ u.data + 0 = u.data /\ u = [kind |-> u.kind, data |-> u.data]
      BY <1>3, <2>2 DEF Value
    <3>2. Modulus[u.kind] \in Nat \ {0} /\ u.data < Modulus[u.kind]
      BY <1>3, <2>2, IntKindsAre DEF WellKept, w
    <3>3. u.data % Modulus[u.kind] = u.data
      BY <3>1, <3>2, SmallRemainder
    <3> QED
      BY <2>2, <3>1, <3>3 DEF Successor
  <2> QED
    BY <1>3, <1>7, <2>1, <2>2, <2>3
<1>9. CASE i - 1 \notin G
  <2>1. w # NullValue
    BY <1>3, IntKindsAre DEF NullValue
  <2>2. w = Successor(u, n) \/ (CountsTooFar(m, i - 1) /\ w.kind = u.kind)
    BY <1>3, <1>7, <1>9, <2>1 DEF CountedValue
  <2>3. CountsTooFar(m, i - 1) => CountsTooFar(m, i)
    <3>1. 0 .. Distance(m, i - 1) - 1 \subseteq 0 .. Distance(m, i) - 1
      BY <1>7
    <3> QED
      BY <1>7, <3>1 DEF CountsTooFar
  <2>4. w.kind = u.kind
    BY <2>2 DEF Successor
  <2>5. u.data \in Nat
    <3>1. CASE G = {}
      BY <1>4, <3>1 DEF Origin, DefaultEnumValue
    <3>2. CASE G # {}
      <4>1. u = its[L] /\ L \in 1 .. Len(its)
        BY <1>4, <1>5, <1>6, <3>2 DEF Origin
      <4> QED
        BY <1>1, <4>1, MembersAre DEF WellKept, Value
    <3> QED
      BY <3>1, <3>2
  <2> QED
    BY <1>3, <1>7, <2>2, <2>3, <2>4, <2>5
<1> QED
  BY <1>8, <1>9

\* An item that follows the largest I32 or I64 counts too far.
LEMMA OverflowCounts ==
  ASSUME TypeOK, CountedFromLastExplicit,
         NEW m \in 1 .. Len(Members), NEW i \in 1 .. Len(Members[m].items), i > 1,
         Members[m].items[i] = NullValue,
         values[m][i - 1].kind \in IntKinds, Overflows(values[m][i - 1])
  PROVE  CountsTooFar(m, i)
<1> DEFINE w == values[m][i - 1]  u == Origin(m, i)  n == Distance(m, i) - 1
<1>1. w.kind = u.kind /\ n \in Nat /\ (w = Successor(u, n) \/ CountsTooFar(m, i))
  BY PredecessorCounts
<1>2. CASE w = Successor(u, n)
  <2>1. u.kind \in Unpromoted
    BY <1>1 DEF Overflows
  <2>2. n \in 0 .. Distance(m, i) - 1
    BY <1>1
  <2>3. Overflows(Successor(u, n))
    BY <1>2
  <2> QED
    BY <2>1, <2>2, <2>3 DEF CountsTooFar
<1> QED
  BY <1>1, <1>2

\* What fill_enum gives an item is what it must count up to.
LEMMA CountsUp ==
  ASSUME TypeOK, CountedFromLastExplicit, NEW v, Counts(v), FilledBase(Base) = "ok",
         NEW m \in 1 .. Len(Members), m = Current.m,
         NEW i \in 1 .. Len(Members[m].items), i = Current.f, values[m][i] = NullValue
  PROVE  CountedValue(m, i, v)
<1> DEFINE w == values[m][i - 1]  its == Members[m].items
<1>1. mod \in Programs /\ Len(its) \in Nat /\ DOMAIN values[m] = 1 .. Len(its)
  BY MembersAre DEF TypeOK
<1>2. i \notin GivenUpTo(m, i) /\ its[i] = NullValue
  <2>1. CountedValue(m, i, NullValue)
    BY <1>1 DEF CountedFromLastExplicit
  <2> QED
    BY <2>1 DEF CountedValue, GivenUpTo
<1>3. CASE i = 1 /\ v = DefaultEnumValue(Base)
  <2>1. Base.kind \in IntKinds /\ Base = Members[m].base
    BY FilledBaseIs DEF Base
  <2>2. Modulus[Base.kind] \in Nat \ {0}
    BY <2>1, IntKindsAre
  <2>3. GivenUpTo(m, i) = {}
    BY <1>2, <1>3 DEF GivenUpTo
  <2>4. 0 % Modulus[Base.kind] = 0 /\ 1 - 1 = 0 /\ 0 + 0 = 0
    <3> DEFINE b == Modulus[Base.kind]
    <3> HIDE DEF b
    <3>1. b \in Nat \ {0}
      BY <2>2 DEF b
    <3>2. 0 % b = 0
      BY <3>1
    <3> QED
      BY <3>2 DEF b
  <2>5. v = Successor(DefaultEnumValue(Members[m].base), i - 1)
    BY <1>3, <2>1, <2>4 DEF Successor, DefaultEnumValue
  <2> QED
    BY <1>2, <2>3, <2>5 DEF CountedValue, Origin, Distance
<1>4. CASE i > 1 /\ w.kind \in IntKinds /\ v \in NextValues(w)
  <2> DEFINE u == Origin(m, i)  n == Distance(m, i) - 1
  <2>1. /\ WellKept(w) /\ w.kind = u.kind /\ u.data \in Nat /\ n \in Nat
        /\ w = Successor(u, n) \/ CountsTooFar(m, i)
    BY <1>2, <1>4, PredecessorCounts
  <2>2. n + 1 = Distance(m, i)
    <3>1. Distance(m, i) \in Int
      BY <1>1, <1>2, LastGivenIs DEF Distance
    <3> QED
      BY <3>1
  <2>3. v.kind = u.kind /\ (~Overflows(w) => v = IncEnumValue(w))
    BY <1>4, <2>1, NextValueIs
  <2>4. CASE CountsTooFar(m, i)
    BY <1>2, <2>3, <2>4 DEF CountedValue
  <2>5. CASE Overflows(w)
    BY <1>2, <1>4, <2>4, <2>5, OverflowCounts
  <2>6. CASE w = Successor(u, n) /\ ~Overflows(w)
    <3> HIDE DEF u, n, w
    <3>1. v = Successor(u, n + 1)
      BY <1>4, <2>1, <2>3, <2>6, SuccessorStep
    <3> QED
      BY <1>2, <2>2, <3>1 DEF CountedValue, u
  <2> QED
    BY <2>1, <2>4, <2>5, <2>6
<1> QED
  BY <1>3, <1>4 DEF Counts

\* At first every item holds what the program gives it.
LEMMA CountedInit == Init => CountedFromLastExplicit
<1> SUFFICES ASSUME Init, NEW m \in 1 .. Len(Members), NEW i \in DOMAIN values[m]
             PROVE  CountedValue(m, i, values[m][i])
  BY DEF CountedFromLastExplicit
<1>1. mod \in Programs /\ values[m] = Members[m].items
  BY DEF Init
<1>2. i \in 1 .. Len(Members[m].items) /\ values[m][i] = Members[m].items[i]
  BY <1>1, MembersAre
<1> QED
  BY <1>2 DEF CountedValue, GivenUpTo

\* A step gives an item only what it counts up to.
LEMMA CountedStep == TypeOK /\ CountedFromLastExplicit /\ [Next]_vars => CountedFromLastExplicit'
<1> SUFFICES ASSUME TypeOK, CountedFromLastExplicit, [Next]_vars
             PROVE  CountedFromLastExplicit'
  OBVIOUS
<1>1. Members' = Members
  BY ProgramStays, ScriptStays
<1> SUFFICES ASSUME NEW m \in 1 .. Len(Members), NEW i \in DOMAIN values'[m]
             PROVE  CountedValue(m, i, values[m][i])'
  BY <1>1 DEF CountedFromLastExplicit
<1>2. CountedValue(m, i, values'[m][i]) => CountedValue(m, i, values[m][i])'
  <2>1. GivenUpTo(m, i)' = GivenUpTo(m, i) /\ LastGiven(m, i)' = LastGiven(m, i)
    BY <1>1 DEF GivenUpTo, LastGiven
  <2>2. Origin(m, i)' = Origin(m, i) /\ Distance(m, i)' = Distance(m, i)
    BY <1>1, <2>1 DEF Origin, Distance
  <2>3. CountsTooFar(m, i)' = CountsTooFar(m, i)
    BY <2>2 DEF CountsTooFar
  <2> QED
    BY <1>1, <2>1, <2>2, <2>3 DEF CountedValue
<1>3. DOMAIN values[m] = 1 .. Len(Members[m].items)
  BY DEF TypeOK
<1>4. CASE values' = values
  BY <1>2, <1>4 DEF CountedFromLastExplicit
<1>5. CASE Filling
  <2>1. PICK v : /\ Counts(v)
                 /\ DOMAIN values' = DOMAIN values
                 /\ \A mm \in 1 .. Len(Members) :
                      /\ DOMAIN values'[mm] = DOMAIN values[mm]
                      /\ \A ii \in 1 .. Len(Members[mm].items) :
                           values'[mm][ii] = IF mm = Current.m /\ ii = Current.f THEN v ELSE values[mm][ii]
    BY <1>5, FillingIs
  <2>2. i \in 1 .. Len(Members[m].items)
    BY <1>3, <2>1
  <2>3. CASE m = Current.m /\ i = Current.f
    <3>1. FilledBase(Base) = "ok" /\ values[m][i] = NullValue
      BY <1>5, <2>3 DEF Filling
    <3>2. CountedValue(m, i, v)
      BY <2>1, <2>2, <2>3, <3>1, CountsUp
    <3> QED
      BY <1>2, <2>1, <2>2, <2>3, <3>2
  <2>4. CASE ~(m = Current.m /\ i = Current.f)
    <3>1. values'[m][i] = values[m][i]
      BY <2>1, <2>2, <2>4
    <3> QED
      BY <1>2, <1>3, <2>2, <3>1 DEF CountedFromLastExplicit
  <2> QED
    BY <2>3, <2>4
<1> QED
  BY <1>4, <1>5, Steps DEF vars, Halts, Silently, Writing

\* The items fill_enum gives a value to count up from the last one that has a
\* value in the program, in its kind, however long the enum is: wrapping in its
\* width, but for an I32 or I64 the count of which overflows.
THEOREM ItemsCountUp == Spec => []CountedFromLastExplicit
<1>1. Init => TypeOK /\ CountedFromLastExplicit
  BY TypeInit, CountedInit
<1>2. (TypeOK /\ CountedFromLastExplicit) /\ [Next]_vars => (TypeOK /\ CountedFromLastExplicit)'
  BY TypeStep, CountedStep
<1> QED
  BY <1>1, <1>2, PTL DEF Spec

-----------------------------------------------------------------------------
(* What is written, and when.                                               *)

OutFiles == {"header", "source", "module"}

\* What a job is about exists, and where its text goes.
Fits(j) ==
  /\ j.op \in FieldOps => j.m \in ToSet(Composites) /\ j.f \in 1 .. Len(Members[j.m].fields)
  /\ j.op \in {"fill", "item"} => j.m \in ToSet(Enums) /\ j.f \in 1 .. Len(Members[j.m].items)
  /\ j.op = "enum" => j.m \in ToSet(Enums)
  /\ j.op \in LayoutOps => j.m \in LayoutMembers
  /\ j.op \notin SilentOps => j.file \in OutFiles
  /\ lang = "ts" => j.file \notin {"header", "source"}
  /\ j.file = "source" /\ j.op \notin SilentOps => j.op \in SourceOps
  /\ j.op \in SourceOps => j.file = "source"

\* So it is for the enums.
LEMMA EnumFits ==
  ASSUME NEW file \in {"header", "module"}, lang = "ts" => file = "module",
         NEW m \in ToSet(Enums), NEW x \in EnumSet(file, m)
  PROVE  Fits(x)
<1>1. "none" \notin OutFiles /\ "none" # "header" /\ "none" # "source" /\ file \in OutFiles /\ file # "source"
  BY DEF OutFiles
<1>2. CASE x \in ItemJobs("fill", "none", m)
  <2>1. x.op = "fill" /\ x.file = "none" /\ x.m = m /\ x.f \in 1 .. Len(Members[m].items)
    BY <1>2, FieldJobsAre
  <2> QED
    BY <1>1, <2>1 DEF Fits, FieldOps, LayoutOps, SilentOps, SourceOps
<1>3. CASE x \in ItemJobs("item", file, m)
  <2>1. x.op = "item" /\ x.file = file /\ x.m = m /\ x.f \in 1 .. Len(Members[m].items)
    BY <1>3, FieldJobsAre
  <2> QED
    BY <1>1, <2>1 DEF Fits, FieldOps, LayoutOps, SilentOps, SourceOps
<1>4. CASE x \in {Job("enum", file, m, 0)}
  <2>1. x.op = "enum" /\ x.file = file /\ x.m = m
    BY <1>4, JobHas
  <2> QED
    BY <1>1, <2>1 DEF Fits, FieldOps, LayoutOps, SilentOps, SourceOps
<1> QED
  BY <1>2, <1>3, <1>4 DEF EnumSet

\* For the bodies of the structs and classes.
LEMMA BodyFits ==
  ASSUME NEW file \in {"header", "module"}, lang = "ts" => file = "module",
         NEW m \in ToSet(Composites), NEW x \in BodyJobs(file, m)
  PROVE  Fits(x)
<1>1. file \in OutFiles /\ file # "source"
  BY DEF OutFiles
<1>2. CASE x \in FieldJobs("field", file, m)
  <2>1. x.op = "field" /\ x.file = file /\ x.m = m /\ x.f \in 1 .. Len(Members[m].fields)
    BY <1>2, FieldJobsAre
  <2> QED
    BY <1>1, <2>1 DEF Fits, FieldOps, LayoutOps, SilentOps, SourceOps
<1>3. CASE x \in {Job("begin", file, m, 0)}
  <2>1. x.op = "begin" /\ x.file = file /\ x.m = m
    BY <1>3, JobHas
  <2> QED
    BY <1>1, <2>1 DEF Fits, FieldOps, LayoutOps, SilentOps, SourceOps
<1> QED
  BY <1>2, <1>3 DEF BodyJobs

\* And for the jobs about nothing in particular.
LEMMA PlainFits ==
  ASSUME NEW x, NEW op, NEW file, x.op = op, x.file = file,
         \/ op \in {"open_ns", "forward", "resources", "declare_create", "close_ns"} /\ file = "header" /\ lang = "cpp"
         \/ op \in {"create", "end"} /\ file = "source" /\ lang = "cpp"
         \/ op = "open" /\ (lang = "ts" => file = "module")
         \/ op = "classify" /\ file = "none"
         \/ op = "close" /\ file = "header" /\ lang = "cpp"
  PROVE  Fits(x)
<1>1. "none" # "header" /\ "none" # "source" /\ "header" \in OutFiles /\ "source" \in OutFiles
      /\ "header" # "source"
  BY DEF OutFiles
<1>2. CASE op \in {"open_ns", "forward", "resources", "declare_create", "close_ns"} /\ file = "header" /\ lang = "cpp"
  BY <1>1, <1>2 DEF Fits, FieldOps, LayoutOps, SilentOps, SourceOps
<1>3. CASE op \in {"create", "end"} /\ file = "source" /\ lang = "cpp"
  BY <1>1, <1>3 DEF Fits, FieldOps, LayoutOps, SilentOps, SourceOps
<1>4. CASE op = "open" /\ (lang = "ts" => file = "module")
  BY <1>1, <1>4 DEF Fits, FieldOps, LayoutOps, SilentOps, SourceOps
<1>5. CASE op = "classify" /\ file = "none"
  BY <1>1, <1>5 DEF Fits, FieldOps, LayoutOps, SilentOps, SourceOps
<1>6. CASE op = "close" /\ file = "header" /\ lang = "cpp"
  BY <1>1, <1>6 DEF Fits, FieldOps, LayoutOps, SilentOps, SourceOps
<1> QED
  BY <1>2, <1>3, <1>4, <1>5, <1>6

\* For the layouts.
LEMMA LayoutFits ==
  ASSUME lang = "cpp", NEW op, NEW file, NEW m,
         << op, file >> \in {<< "layout", "header" >>, << "make_layout", "source" >>},
         m \in LayoutMembers, NEW x, x = Job(op, file, m, 0)
  PROVE  Fits(x)
<1>1. \/ op = "layout" /\ file = "header"
      \/ op = "make_layout" /\ file = "source"
  OBVIOUS
<1>2. "header" \in OutFiles /\ "source" \in OutFiles
  BY DEF OutFiles
<1>3. x.op = op /\ x.file = file /\ x.m = m
  BY JobHas
<1>4. CASE op = "layout" /\ file = "header"
  BY <1>2, <1>3, <1>4 DEF Fits, FieldOps, LayoutOps, SilentOps, SourceOps
<1>5. CASE op = "make_layout" /\ file = "source"
  BY <1>2, <1>3, <1>5 DEF Fits, FieldOps, LayoutOps, SilentOps, SourceOps
<1> QED
  BY <1>1, <1>4, <1>5

\* For the accessors and the fields of a layout.
LEMMA FieldFits ==
  ASSUME lang = "cpp", NEW op, NEW file,
         << op, file >> \in {<< "accessor", "header" >>, << "add_field", "source" >>},
         NEW m \in ToSet(Composites), NEW x \in FieldJobs(op, file, m)
  PROVE  Fits(x)
<1>1. \/ op = "accessor" /\ file = "header"
      \/ op = "add_field" /\ file = "source"
  OBVIOUS
<1>2. "header" \in OutFiles /\ "source" \in OutFiles
  BY DEF OutFiles
<1>3. x.op = op /\ x.file = file /\ x.m = m /\ x.f \in 1 .. Len(Members[m].fields)
  BY FieldJobsAre
<1>4. CASE op = "accessor" /\ file = "header"
  BY <1>2, <1>3, <1>4 DEF Fits, FieldOps, LayoutOps, SilentOps, SourceOps
<1>5. CASE op = "add_field" /\ file = "source"
  BY <1>2, <1>3, <1>5 DEF Fits, FieldOps, LayoutOps, SilentOps, SourceOps
<1> QED
  BY <1>1, <1>4, <1>5

\* Every job of either back end is about something that exists.
LEMMA ScriptFits ==
  ASSUME mod \in Programs, lang \in {"cpp", "ts"}, NEW x \in ToSet(Script)
  PROVE  Fits(x)
<1>1. CASE lang = "ts"
  <2>1. x \in TsJobs
    BY <1>1, TsScriptHolds
  <2>2. CASE x \in {Job("open", "module", 0, 0), Job("classify", "none", 0, 0)}
    BY <2>2, <1>1, JobHas, PlainFits
  <2>3. CASE x \in UNION {EnumSet("module", m) : m \in ToSet(Enums)}
    BY <2>3, <1>1, EnumFits
  <2>4. CASE x \in UNION {BodyJobs("module", m) : m \in ToSet(Composites)}
    BY <2>4, <1>1, BodyFits
  <2> QED
    BY <2>1, <2>2, <2>3, <2>4, Zenon DEF TsJobs
<1>2. CASE lang = "cpp"
  <2>0. x \in DeclaringJobs \/ x \in DefiningJobs \/ x \in SourceJobs
    BY <1>2, CxxScriptHolds
  <2>00. lang # "ts"
    BY <1>2
  <2>1. CASE x \in DeclaringJobs
    <3>1. CASE x \in {Job("open", "header", 0, 0), Job("open", "source", 0, 0), Job("classify", "none", 0, 0)}
      BY <3>1, <1>2, JobHas, PlainFits
    <3>2. CASE x \in Scopes("open_ns")
      BY <3>2, <1>2, JobHas, PlainFits DEF Scopes
    <3>3. CASE x \in UNION {EnumSet("header", m) : m \in ToSet(Enums)}
      BY <3>3, <2>00, EnumFits
    <3>4. CASE x \in {Job("forward", "header", m, 0) : m \in ToSet(Composites)}
      BY <3>4, <1>2, JobHas, PlainFits
    <3> QED
      BY <2>1, <3>1, <3>2, <3>3, <3>4, Zenon DEF DeclaringJobs
  <2>2. CASE x \in DefiningJobs
    <3>1. CASE x \in UNION {BodyJobs("header", m) : m \in ToSet(Composites)}
      BY <3>1, <2>00, BodyFits
    <3>2. CASE x \in UNION {FieldJobs("accessor", "header", m) : m \in ToSet(Composites)}
      BY <3>2, <1>2, FieldFits
    <3>3. CASE x \in {Job("resources", "header", 0, 0)} \/ x \in {Job("declare_create", "header", 0, 0)} \/ x \in {Job("close", "header", 0, 0)}
      BY <3>3, <1>2, JobHas, PlainFits
    <3>4. CASE x \in {Job("layout", "header", m, 0) : m \in LayoutMembers}
      BY <3>4, <1>2, LayoutFits
    <3>5. CASE x \in Scopes("close_ns")
      BY <3>5, <1>2, JobHas, PlainFits DEF Scopes
    <3> QED
      BY <2>2, <3>1, <3>2, <3>3, <3>4, <3>5, Zenon DEF DefiningJobs
  <2>3. CASE x \in SourceJobs
    <3>1. CASE x \in UNION {FieldJobs("add_field", "source", m) : m \in ToSet(Composites)}
      BY <3>1, <1>2, FieldFits
    <3>2. CASE x \in {Job("create", "source", 0, 0)} \/ x \in {Job("end", "source", 0, 0)}
      BY <3>2, <1>2, JobHas, PlainFits
    <3>3. CASE x \in {Job("make_layout", "source", m, 0) : m \in LayoutMembers}
      BY <3>3, <1>2, LayoutFits
    <3> QED
      BY <2>3, <3>1, <3>2, <3>3, Zenon DEF SourceJobs
  <2> QED
    BY <2>0, <2>1, <2>2, <2>3
<1> QED
  BY <1>1, <1>2

\* Jobs both back ends do, and jobs only the C++ back end does.
LEMMA BothDo ==
  ASSUME mod \in Programs, lang \in {"cpp", "ts"}
  PROVE  \E file \in {"header", "module"} :
           /\ lang = "cpp" => file = "header"
           /\ Job("classify", "none", 0, 0) \in ToSet(Script)
           /\ \A m \in ToSet(Enums) : EnumSet(file, m) \subseteq ToSet(Script)
           /\ \A m \in ToSet(Composites) : BodyJobs(file, m) \subseteq ToSet(Script)
<1>1. CASE lang = "cpp"
  <2>1. /\ Job("classify", "none", 0, 0) \in ToSet(Script)
        /\ \A m \in ToSet(Enums) : EnumSet("header", m) \subseteq ToSet(Script)
        /\ \A m \in ToSet(Composites) : BodyJobs("header", m) \subseteq ToSet(Script)
    BY <1>1, CxxScriptHolds DEF DeclaringJobs, DefiningJobs
  <2> QED
    BY <1>1, <2>1
<1>2. CASE lang = "ts"
  <2>1. /\ Job("classify", "none", 0, 0) \in ToSet(Script)
        /\ \A m \in ToSet(Enums) : EnumSet("module", m) \subseteq ToSet(Script)
        /\ \A m \in ToSet(Composites) : BodyJobs("module", m) \subseteq ToSet(Script)
    BY <1>2, TsScriptHolds DEF TsJobs
  <2> QED
    BY <1>2, <2>1
<1> QED
  BY <1>1, <1>2

\* What the parts of the C++ back end contain.
LEMMA CxxDoes ==
  ASSUME mod \in Programs, lang = "cpp"
  PROVE  /\ \A m \in ToSet(Composites) :
              /\ Job("forward", "header", m, 0) \in DeclaringJobs
              /\ \A f \in 1 .. Len(Members[m].fields) :
                   Job("field", "header", m, f) \in DefiningJobs /\ Job("accessor", "header", m, f) \in DefiningJobs
         /\ \A m \in ToSet(Enums) : Job("enum", "header", m, 0) \in DeclaringJobs
         /\ \A m \in LayoutMembers : Job("layout", "header", m, 0) \in DefiningJobs
         /\ \A n \in 1 .. mod.path :
              Job("open_ns", "header", 0, n) \in DeclaringJobs /\ Job("close_ns", "header", 0, n) \in DefiningJobs
         /\ Job("create", "source", 0, 0) \in SourceJobs
         /\ DeclaringJobs \cup DefiningJobs \cup SourceJobs \subseteq Jobs
<1>1. \A m \in ToSet(Composites) :
        /\ Job("forward", "header", m, 0) \in DeclaringJobs
        /\ \A f \in 1 .. Len(Members[m].fields) :
             /\ Job("field", "header", m, f) \in BodyJobs("header", m)
             /\ Job("accessor", "header", m, f) \in FieldJobs("accessor", "header", m)
  BY DEF DeclaringJobs, BodyJobs, FieldJobs
<1>2. \A m \in ToSet(Composites) :
        BodyJobs("header", m) \subseteq DefiningJobs /\ FieldJobs("accessor", "header", m) \subseteq DefiningJobs
  BY DEF DefiningJobs
<1>3. \A m \in ToSet(Enums) : Job("enum", "header", m, 0) \in EnumSet("header", m) /\ EnumSet("header", m) \subseteq DeclaringJobs
  BY DEF EnumSet, DeclaringJobs
<1>4. \A m \in LayoutMembers : Job("layout", "header", m, 0) \in DefiningJobs
  BY DEF DefiningJobs
<1>5. \A n \in 1 .. mod.path :
        Job("open_ns", "header", 0, n) \in DeclaringJobs /\ Job("close_ns", "header", 0, n) \in DefiningJobs
  BY DEF Scopes, DeclaringJobs, DefiningJobs
<1>6. Job("create", "source", 0, 0) \in SourceJobs
  BY DEF SourceJobs
<1>7. Script \in Seq(Jobs) /\ ToSet(Script) = DeclaringJobs \cup DefiningJobs \cup SourceJobs
  BY CxxScriptHolds DEF Well
<1>8. ToSet(Script) \subseteq Jobs
  BY <1>7, ElementsAre
<1> QED
  BY <1>1, <1>2, <1>3, <1>4, <1>5, <1>6, <1>7, <1>8

\* A job that is done is a job of the script before the current one.
Done(x) == \E k \in 1 .. Place : Script[k] = x

\* At the end all are done; the order of the parts tells which are done before.
LEMMA AllDone ==
  ASSUME mod \in Programs, lang \in {"cpp", "ts"}, Progress, todo = << >>, NEW x \in ToSet(Script)
  PROVE  Done(x)
<1>1. Place = Len(Script) /\ Script \in Seq(Jobs)
  BY CurrentIs, ScriptHolds
<1> QED
  BY <1>1, ElementsAre DEF Done

\* When a job of the second part is reached the first is done, and when one of
\* the third is, both.
LEMMA DoneFirst ==
  ASSUME mod \in Programs, lang = "cpp", Progress, NEW k \in 1 .. Len(Script), k <= Place + 1, NEW x
  PROVE  /\ Script[k].op \in DefiningOps \cup SourceOps /\ x \in DeclaringJobs => Done(x)
         /\ Script[k].op \in SourceOps /\ x \in DeclaringJobs \cup DefiningJobs => Done(x)
<1>1. Place \in Nat /\ Len(Script) \in Nat /\ Script \in Seq(Jobs)
  BY CurrentIs, ScriptHolds
<1>2. ToSet(Script) = DeclaringJobs \cup DefiningJobs \cup SourceJobs
  BY CxxScriptHolds
<1>3. ASSUME Script[k].op \in DefiningOps \cup SourceOps, x \in DeclaringJobs
      PROVE  Done(x)
  <2>1. PICK i \in 1 .. Len(Script) : Script[i] = x
    BY <1>1, <1>2, <1>3, ElementsAre
  <2>2. x.op \in DeclaringOps
    BY <1>3, PartsDiffer
  <2>3. i < k
    BY <1>3, <2>1, <2>2, CxxOrder
  <2>4. i \in 1 .. Place
    BY <1>1, <2>3
  <2> QED
    BY <2>1, <2>4 DEF Done
<1>4. ASSUME Script[k].op \in SourceOps, x \in DeclaringJobs \cup DefiningJobs
      PROVE  Done(x)
  <2>1. PICK i \in 1 .. Len(Script) : Script[i] = x
    BY <1>1, <1>2, <1>4, ElementsAre
  <2>2. x.op \in DeclaringOps \cup DefiningOps
    BY <1>4, PartsDiffer
  <2>3. i < k
    BY <1>4, <2>1, <2>2, CxxOrder
  <2>4. i \in 1 .. Place
    BY <1>1, <2>3
  <2> QED
    BY <2>1, <2>4 DEF Done
<1> QED
  BY <1>3, <1>4

\* A step that does a job adds it to those that are done.
LEMMA DoneStep ==
  ASSUME mod \in Programs, lang \in {"cpp", "ts"}, Progress, [Next]_vars, NEW x
  PROVE  Done(x)' <=> Done(x) \/ (Does /\ x = Current)
<1>1. Script' = Script /\ Place \in Nat
  BY ProgramStays, ScriptStays, CurrentIs
<1>2. CASE Does
  <2>1. Place' = Place + 1
    BY <1>2, ProgressStep
  <2>2. Current = Script[Place + 1]
    BY <1>2, CurrentIs DEF Does
  <2>3. Done(x)' <=> \E k \in 1 .. Place + 1 : Script[k] = x
    BY <1>1, <2>1 DEF Done
  <2>4. 1 .. Place + 1 = (1 .. Place) \cup {Place + 1}
    BY <1>1
  <2>5. Done(x) <=> \E k \in 1 .. Place : Script[k] = x
    BY DEF Done
  <2> HIDE DEF Place
  <2>6. (\E k \in 1 .. Place + 1 : Script[k] = x) <=> (\E k \in 1 .. Place : Script[k] = x) \/ Script[Place + 1] = x
    BY <2>4
  <2> QED
    BY <1>2, <2>2, <2>3, <2>5, <2>6
<1>3. CASE ~Does
  BY <1>1, <1>3, ProgressStep DEF Done
<1> QED
  BY <1>2, <1>3

\* Nothing is done at first, and what is done is a job.
LEMMA DoneInit ==
  ASSUME Init
  PROVE  Progress /\ \A x : ~Done(x)
<1>1. mod \in Programs /\ lang \in {"cpp", "ts"} /\ todo = Script
  BY DEF Init
<1>2. Script \in Seq(Jobs)
  BY <1>1, ScriptHolds
<1>3. Len(Script) \in Nat /\ Place = 0
  BY <1>1, <1>2 DEF Place
<1>4. Progress
  BY <1>1, <1>2, <1>3 DEF Progress
<1>5. \A x : ~Done(x)
  BY <1>3 DEF Done
<1> QED
  BY <1>4, <1>5

\* What is done is a job of the script, about something that exists.
LEMMA DoneIs ==
  ASSUME mod \in Programs, lang \in {"cpp", "ts"}, Progress, NEW x, Done(x)
  PROVE  x \in ToSet(Script) /\ x \in Jobs /\ Fits(x)
<1>1. Script \in Seq(Jobs) /\ Place \in Nat /\ Len(Script) \in Nat /\ Place <= Len(Script)
  BY ScriptHolds, CurrentIs
<1>2. PICK k \in 1 .. Place : Script[k] = x
  BY DEF Done
<1>3. k \in 1 .. Len(Script)
  BY <1>1, <1>2
<1>4. x \in ToSet(Script) /\ x \in Jobs
  BY <1>1, <1>2, <1>3, ElementsAre
<1> QED
  BY <1>4, ScriptFits

\* An item that does not hold what the program gives it got its value by
\* counting: it has none of its own, and what it counts from is an integer.
Filled ==
  \A m \in 1 .. Len(Members) : \A i \in 1 .. Len(Members[m].items) :
    values[m][i] # Members[m].items[i] =>
      /\ Members[m].items[i] = NullValue /\ values[m][i].kind \in IntKinds
      /\ Members[m].base.kind \in IntKinds
      /\ i > 1 => Members[m].items[i - 1].kind \in IntKinds \cup {"null"}

\* What the back end has seen of a job that is done: the type, the base type
\* or the value the job is about is one its writers accept.
Passed(j) ==
  /\ j.op = "classify" => Positions("import") = << >>
  /\ j.op = "fill" => values[j.m][j.f] # NullValue
  /\ j.op = "enum" => EnumBase(Members[j.m].base) = "ok"
  /\ j.op = "item" => WrittenExpr(values[j.m][j.f]) = "ok"
  /\ j.op \in FieldOps => WrittenType(Members[j.m].fields[j.f].type) = "ok"
  /\ j.op = "create" => mod.path # 0
AllPassed == \A x \in Jobs : Done(x) => Passed(x)

\* A step that does a job does it in one of these ways.
LEMMA Doing ==
  ASSUME Progress, [Next]_vars, Does
  PROVE  Silently \/ Filling \/ Writing
<1>1. todo \in Seq(Jobs) /\ todo # << >> /\ todo' = Tail(todo)
  BY DEF Progress, Does, Advance
<1>2. todo' # todo
  BY <1>1
<1> QED
  BY <1>2, Steps DEF vars, Halts

\* Only an item that may count up gets a value.
LEMMA FilledStep == TypeOK /\ Filled /\ [Next]_vars => Filled'
<1> SUFFICES ASSUME TypeOK, Filled, [Next]_vars
             PROVE  Filled'
  OBVIOUS
<1>1. Members' = Members /\ mod \in Programs
  BY ProgramStays, ScriptStays DEF TypeOK
<1>2. CASE values' = values
  BY <1>1, <1>2 DEF Filled
<1>3. CASE Filling
  <2>1. PICK v : /\ Counts(v)
                 /\ \A m \in 1 .. Len(Members) : \A i \in 1 .. Len(Members[m].items) :
                      values'[m][i] = IF m = Current.m /\ i = Current.f THEN v ELSE values[m][i]
    BY <1>3, FillingIs
  <2> SUFFICES ASSUME NEW m \in 1 .. Len(Members), NEW i \in 1 .. Len(Members[m].items),
                      values'[m][i] # Members[m].items[i]
               PROVE  /\ Members[m].items[i] = NullValue /\ values'[m][i].kind \in IntKinds
                      /\ Members[m].base.kind \in IntKinds
                      /\ i > 1 => Members[m].items[i - 1].kind \in IntKinds \cup {"null"}
    BY <1>1 DEF Filled
  <2>2. CASE m = Current.m /\ i = Current.f
    <3>1. FilledBase(Base) = "ok" /\ values[m][i] = NullValue /\ values'[m][i] = v
      BY <1>3, <2>1, <2>2 DEF Filling
    <3>2. v.kind \in IntKinds
      BY <2>1, <2>2, <3>1, CountedIs
    <3>3. Members[m].items[i] = NullValue
      BY <3>1, IntKindsAre DEF Filled, NullValue
    <3>4. Members[m].base.kind \in IntKinds
      BY <2>2, <3>1, FilledBaseIs DEF Base
    <3>5. ASSUME i > 1
          PROVE  Members[m].items[i - 1].kind \in IntKinds \cup {"null"}
      <4>1. i - 1 \in 1 .. Len(Members[m].items)
        BY <1>1, <3>5, MembersAre
      <4>2. values[m][i - 1].kind \in IntKinds
        BY <2>1, <2>2, <3>5 DEF Counts
      <4> QED
        BY <4>1, <4>2 DEF Filled, NullValue
    <3> QED
      BY <3>1, <3>2, <3>3, <3>4, <3>5
  <2>3. CASE ~(m = Current.m /\ i = Current.f)
    <3>1. values'[m][i] = values[m][i]
      BY <2>1, <2>3
    <3> QED
      BY <3>1 DEF Filled
  <2> QED
    BY <2>2, <2>3
<1> QED
  BY <1>2, <1>3, Steps DEF vars, Halts, Silently, Writing

\* An item that has a value keeps it.
LEMMA ValuesStay ==
  ASSUME TypeOK, [Next]_vars, NEW m \in 1 .. Len(Members), NEW i \in 1 .. Len(Members[m].items),
         values[m][i] # NullValue
  PROVE  values'[m][i] = values[m][i]
<1>1. CASE values' = values
  BY <1>1
<1>2. CASE Filling
  <2>1. values[Current.m][Current.f] = NullValue
    BY <1>2 DEF Filling
  <2>2. ~(m = Current.m /\ i = Current.f)
    BY <2>1
  <2> QED
    BY <1>2, <2>2, FillingIs
<1> QED
  BY <1>1, <1>2, Steps DEF vars, Halts, Silently, Writing

\* What is accepted is accepted for good.
LEMMA PassedStays ==
  ASSUME TypeOK, [Next]_vars, NEW x, Passed(x), Fits(x)
  PROVE  Passed(x)'
<1>1. mod' = mod /\ lang' = lang /\ Members' = Members /\ mod \in Programs
  BY ProgramStays, ScriptStays DEF TypeOK
<1>2. Positions("import")' = Positions("import")
  BY <1>1 DEF Positions
<1>3. \A t : WrittenType(t)' = WrittenType(t)
  BY <1>1 DEF WrittenType, CxxType, TsType, Resolve, Target
<1>4. ASSUME x.op \in {"fill", "item"}, values[x.m][x.f] # NullValue
      PROVE  values'[x.m][x.f] = values[x.m][x.f]
  <2>1. x.m \in 1 .. Len(Members) /\ x.f \in 1 .. Len(Members[x.m].items)
    BY <1>1, <1>4, CompositesAre DEF Fits
  <2> QED
    BY <1>4, <2>1, ValuesStay
<1>5. x.op = "fill" => values'[x.m][x.f] # NullValue
  BY <1>4 DEF Passed
<1>6. ASSUME x.op = "item"
      PROVE  WrittenExpr(values'[x.m][x.f]) = "ok"
  <2>1. WrittenExpr(values[x.m][x.f]) = "ok"
    BY <1>6 DEF Passed
  <2>2. values[x.m][x.f] # NullValue
    BY <2>1, IntKindsAre DEF WrittenExpr, NullValue, Floats
  <2> QED
    BY <1>4, <1>6, <2>1, <2>2
<1>7. x.op \in FieldOps => WrittenType(Members[x.m].fields[x.f].type)' = "ok"
  BY <1>1, <1>3 DEF Passed
<1> QED
  BY <1>1, <1>2, <1>5, <1>6, <1>7 DEF Passed

\* The current job fits, and when it is done it has passed.
LEMMA CurrentPasses ==
  ASSUME TypeOK, Progress, [Next]_vars, Does, NEW x, x = Current
  PROVE  x \in Jobs /\ x \in ToSet(Script) /\ Fits(x) /\ Passed(x)'
<1>1. mod' = mod /\ lang' = lang /\ Members' = Members /\ mod \in Programs /\ lang \in {"cpp", "ts"}
  BY ProgramStays, ScriptStays DEF TypeOK
<1>2. x \in Jobs /\ x \in ToSet(Script) /\ Fits(x)
  BY <1>1, CurrentIs, ScriptFits DEF Does
<1>3. Positions("import")' = Positions("import")
  BY <1>1 DEF Positions
<1>4. \A t : WrittenType(t)' = WrittenType(t)
  BY <1>1 DEF WrittenType, CxxType, TsType, Resolve, Target
<1>5. CASE Silently
  <2>1. values' = values /\ x.op \in SilentOps /\ (x.op = "classify" => Positions("import") = << >>)
        /\ (x.op = "fill" => values[x.m][x.f] # NullValue)
    BY <1>5 DEF Silently
  <2> QED
    BY <1>2, <1>3, <2>1 DEF Passed, SilentOps, FieldOps
<1>6. CASE Filling
  <2>1. x.op = "fill" /\ FilledBase(Base) = "ok"
    BY <1>6 DEF Filling
  <2>2. x.m \in 1 .. Len(Members) /\ x.f \in 1 .. Len(Members[x.m].items)
    BY <1>1, <1>2, <2>1, CompositesAre DEF Fits
  <2>3. PICK v : Counts(v) /\ values'[x.m][x.f] = v
    BY <1>6, <2>2, FillingIs
  <2>4. v # NullValue
    BY <2>1, <2>2, <2>3, CountedIs
  <2> QED
    BY <1>2, <2>1, <2>3, <2>4 DEF Passed, FieldOps
<1>7. CASE Writing
  <2>1. values' = values /\ x.op \notin SilentOps /\ Accepted
    BY <1>7 DEF Writing
  <2> QED
    BY <1>1, <1>2, <1>4, <2>1 DEF Passed, Accepted, SilentOps, Type, Base
<1> QED
  BY <1>5, <1>6, <1>7, Doing

\* What is done has passed.
LEMMA PassedStep == TypeOK /\ Progress /\ AllPassed /\ [Next]_vars => AllPassed'
<1> SUFFICES ASSUME TypeOK, Progress, AllPassed, [Next]_vars, NEW x \in Jobs, Done(x)'
             PROVE  Passed(x)'
  BY DEF AllPassed
<1>1. mod \in Programs /\ lang \in {"cpp", "ts"}
  BY DEF TypeOK
<1>2. CASE Done(x)
  BY <1>1, <1>2, DoneIs, PassedStays DEF AllPassed
<1>3. CASE Does /\ x = Current
  BY <1>3, CurrentPasses
<1> QED
  BY <1>1, <1>2, <1>3, DoneStep

\* A file holds jobs that belong in it.
OutTyped ==
  /\ DOMAIN out = OutFiles
  /\ \A file \in OutFiles :
       out[file] \in Seq(Jobs) /\ \A k \in 1 .. Len(out[file]) : out[file][k].file = file

\* What is done and belongs in the header is in the header.  What a file holds
\* is done, but for a layout past the end of the structs; and the header holds
\* nothing twice of what must be there once.
Recorded(x) ==
  x.file = "header" /\ x.op \notin SilentOps /\ (x.op \in LayoutOps => x.m # 0)
    => \E k \in Pieces("header") : out["header"][k] = x
AllRecorded == \A x \in Jobs : Done(x) => Recorded(x)
PiecesDone ==
  \A file \in OutFiles : \A k \in Pieces(file) :
    (out[file][k].op \in LayoutOps => Len(Classes) <= Len(Structs)) => Done(out[file][k])
HeaderOnce == Distinct(out["header"], OnceJobs)

\* The source file is written by the last part of the C++ back end alone.
SourceLate ==
  out["source"] # << >> => lang = "cpp" /\ \E k \in 1 .. Place : Script[k].op \in SourceOps

\* A piece written is a job of the same operation for the same file, and is
\* added at the end of that file.
LEMMA WritingIs ==
  ASSUME TypeOK, Progress, OutTyped, Does, Writing
  PROVE  \E p \in Jobs :
           /\ Piece(p) /\ p.op = Current.op /\ p.file = Current.file
           /\ p.file \in OutFiles /\ DOMAIN out' = OutFiles
           /\ \A file \in OutFiles : out'[file] = IF file = p.file THEN Append(out[file], p) ELSE out[file]
<1>1. PICK p : Piece(p) /\ Write(p)
  BY DEF Writing
<1>2. mod \in Programs /\ lang \in {"cpp", "ts"} /\ Len(Members) \in Nat
  BY MembersAre DEF TypeOK
<1>3. Current \in Jobs /\ Fits(Current) /\ Current.op \notin SilentOps
  BY <1>2, CurrentIs, ScriptFits DEF Does, Writing
<1>4. Current.file \in OutFiles
  BY <1>3 DEF Fits
<1>5. p \in Jobs /\ p.op = Current.op /\ p.file = Current.file
  <2>1. CASE p = Current
    BY <1>3, <2>1
  <2>2. CASE \E m \in 1 .. Len(Members) : p = [Current EXCEPT !.m = m]
    <3>1. PICK m \in 1 .. Len(Members) : p = [Current EXCEPT !.m = m]
      BY <2>2
    <3>2. m \in Nat
      BY <1>2
    <3> QED
      BY <1>3, <3>1, <3>2 DEF Jobs
  <2> QED
    BY <1>1, <2>1, <2>2 DEF Piece
<1>6. out' = [out EXCEPT ![p.file] = Append(out[p.file], p)]
  BY <1>1 DEF Write
<1>7. DOMAIN out' = OutFiles /\ \A file \in OutFiles : out'[file] = IF file = p.file THEN Append(out[file], p) ELSE out[file]
  BY <1>6 DEF OutTyped
<1> QED
  BY <1>1, <1>4, <1>5, <1>7

\* What has been written stays, and a file grows by one piece at most.
LEMMA Growth ==
  ASSUME TypeOK, Progress, OutTyped, [Next]_vars
  PROVE  /\ OutTyped'
         /\ \A file \in OutFiles :
              \/ out'[file] = out[file]
              \/ /\ Does /\ Writing /\ Len(out[file]) \in Nat /\ Len(out'[file]) = Len(out[file]) + 1
                 /\ Current.file = file
                 /\ \A k \in 1 .. Len(out[file]) : out'[file][k] = out[file][k]
                 /\ LET p == out'[file][Len(out[file]) + 1] IN Piece(p) /\ p.op = Current.op /\ p \in Jobs
<1>1. CASE out' = out
  BY <1>1 DEF OutTyped
<1>2. CASE Does /\ Writing
  <2>1. PICK p \in Jobs :
           /\ Piece(p) /\ p.op = Current.op /\ p.file = Current.file
           /\ p.file \in OutFiles /\ DOMAIN out' = OutFiles
           /\ \A file \in OutFiles : out'[file] = IF file = p.file THEN Append(out[file], p) ELSE out[file]
    BY <1>2, WritingIs
  <2>2. ASSUME NEW file \in OutFiles, file = p.file
        PROVE  /\ out'[file] \in Seq(Jobs) /\ Len(out[file]) \in Nat /\ Len(out'[file]) = Len(out[file]) + 1
               /\ \A k \in 1 .. Len(out[file]) : out'[file][k] = out[file][k]
               /\ out'[file][Len(out[file]) + 1] = p
               /\ \A k \in 1 .. Len(out'[file]) : out'[file][k].file = file
    <3>1. out[file] \in Seq(Jobs) /\ \A k \in 1 .. Len(out[file]) : out[file][k].file = file
      BY <2>2 DEF OutTyped
    <3>2. out'[file] = Append(out[file], p)
      BY <2>1, <2>2
    <3>3. /\ out'[file] \in Seq(Jobs) /\ Len(out[file]) \in Nat /\ Len(out'[file]) = Len(out[file]) + 1
          /\ \A k \in 1 .. Len(out[file]) : out'[file][k] = out[file][k]
          /\ out'[file][Len(out[file]) + 1] = p
      BY <2>1, <3>1, <3>2
    <3>4. \A k \in 1 .. Len(out'[file]) : k \in 1 .. Len(out[file]) \/ k = Len(out[file]) + 1
      BY <3>3
    <3> QED
      BY <2>2, <3>1, <3>3, <3>4
  <2>3. ASSUME NEW file \in OutFiles, file # p.file
        PROVE  out'[file] = out[file]
    BY <2>1, <2>3
  <2>4. OutTyped'
    BY <2>1, <2>2, <2>3 DEF OutTyped
  <2> QED
    BY <1>2, <2>1, <2>2, <2>3, <2>4
<1> QED
  BY <1>1, <1>2, Steps DEF vars, Halts, Silently, Filling

\* What is done is recorded.
LEMMA RecordedStep ==
  TypeOK /\ Progress /\ OutTyped /\ AllRecorded /\ [Next]_vars => AllRecorded'
<1> SUFFICES ASSUME TypeOK, Progress, OutTyped, AllRecorded, [Next]_vars, NEW x \in Jobs, Done(x)',
                    x.file = "header" /\ x.op \notin SilentOps /\ (x.op \in LayoutOps => x.m # 0)
             PROVE  \E k \in 1 .. Len(out'["header"]) : out'["header"][k] = x
  BY DEF AllRecorded, Recorded, Pieces
<1>0. "header" \in OutFiles
  BY DEF OutFiles
<1>1. CASE Done(x)
  <2>1. PICK k \in 1 .. Len(out["header"]) : out["header"][k] = x
    BY <1>1 DEF AllRecorded, Recorded, Pieces
  <2>2. out'["header"] = out["header"]
        \/ /\ Len(out["header"]) \in Nat /\ Len(out'["header"]) = Len(out["header"]) + 1
           /\ \A i \in 1 .. Len(out["header"]) : out'["header"][i] = out["header"][i]
    BY <1>0, Growth
  <2>3. CASE out'["header"] = out["header"]
    BY <2>1, <2>3
  <2>4. CASE /\ Len(out["header"]) \in Nat /\ Len(out'["header"]) = Len(out["header"]) + 1
             /\ \A i \in 1 .. Len(out["header"]) : out'["header"][i] = out["header"][i]
    <3>1. k \in 1 .. Len(out'["header"]) /\ out'["header"][k] = x
      BY <2>1, <2>4
    <3> QED
      BY <3>1
  <2> QED
    BY <2>2, <2>3, <2>4
<1>2. CASE Does /\ x = Current
  <2>1. Writing
    BY <1>2, Doing DEF Silently, Filling, SilentOps
  <2>2. PICK p \in Jobs :
           /\ Piece(p) /\ p.op = Current.op /\ p.file = Current.file
           /\ \A file \in OutFiles : out'[file] = IF file = p.file THEN Append(out[file], p) ELSE out[file]
    BY <1>2, <2>1, WritingIs
  <2>3. p = x
    BY <1>2, <2>2 DEF Piece
  <2>4. out'["header"] = Append(out["header"], x)
    BY <1>0, <2>2, <2>3
  <2>5. out["header"] \in Seq(Jobs)
    BY <1>0 DEF OutTyped
  <2>6. Len(out["header"]) + 1 \in 1 .. Len(out'["header"]) /\ out'["header"][Len(out["header"]) + 1] = x
    BY <2>4, <2>5
  <2> QED
    BY <2>6
<1> QED
  BY <1>1, <1>2, DoneStep DEF TypeOK

\* The files hold what is done.
LEMMA PiecesDoneStep ==
  TypeOK /\ Progress /\ OutTyped /\ PiecesDone /\ [Next]_vars => PiecesDone'
<1> SUFFICES ASSUME TypeOK, Progress, OutTyped, PiecesDone, [Next]_vars, NEW file \in OutFiles,
                    NEW k \in 1 .. Len(out'[file]), NEW x, x = out'[file][k],
                    x.op \in LayoutOps => (Len(Classes) <= Len(Structs))'
             PROVE  Done(x)'
  BY DEF PiecesDone, Pieces
<1> DEFINE h == out[file]  hh == out'[file]
<1>1. mod \in Programs /\ lang \in {"cpp", "ts"} /\ (x.op \in LayoutOps => Len(Classes) <= Len(Structs))
  BY ProgramStays, ScriptStays DEF TypeOK
<1>2. \/ hh = h
      \/ /\ Does /\ Len(h) \in Nat /\ Len(hh) = Len(h) + 1
         /\ \A i \in 1 .. Len(h) : hh[i] = h[i]
         /\ Piece(hh[Len(h) + 1]) /\ hh[Len(h) + 1].op = Current.op
  BY <1>1, Growth
<1> HIDE DEF h, hh
<1>3. x = hh[k] /\ k \in 1 .. Len(hh)
  BY DEF hh
<1>4. CASE k \in 1 .. Len(h) /\ hh[k] = h[k]
  <2>1. Done(x)
    BY <1>1, <1>3, <1>4 DEF PiecesDone, Pieces, h
  <2> QED
    BY <1>1, <2>1, DoneStep
<1>5. CASE Does /\ Piece(hh[k]) /\ hh[k].op = Current.op
  <2>1. Fits(Current)
    BY <1>1, <1>5, CurrentIs, ScriptFits DEF Does
  <2>2. ~(Current.op \in LayoutOps /\ Current.m = 0)
    BY <1>1, <1>3, <1>5, <2>1, LayoutMembersAre DEF Fits
  <2>3. x = Current
    BY <1>3, <1>5, <2>2 DEF Piece
  <2> QED
    BY <1>1, <1>5, <2>3, DoneStep
<1>6. \/ k \in 1 .. Len(h) /\ hh[k] = h[k]
      \/ Does /\ Piece(hh[k]) /\ hh[k].op = Current.op
  <2>1. CASE hh = h
    BY <1>3, <2>1
  <2>2. CASE /\ Does /\ Len(h) \in Nat /\ Len(hh) = Len(h) + 1
             /\ \A i \in 1 .. Len(h) : hh[i] = h[i]
             /\ Piece(hh[Len(h) + 1]) /\ hh[Len(h) + 1].op = Current.op
    <3>1. k \in 1 .. Len(h) \/ k = Len(h) + 1
      BY <1>3, <2>2
    <3> QED
      BY <2>2, <3>1
  <2> QED
    BY <1>2, <2>1, <2>2
<1> QED
  BY <1>4, <1>5, <1>6

\* The job that is current has not been done, if it must be done once.
LEMMA CurrentIsNew ==
  ASSUME mod \in Programs, lang \in {"cpp", "ts"}, Progress, todo # << >>, Current \in OnceJobs
  PROVE  ~Done(Current)
<1>1. Place \in Nat /\ Place + 1 \in 1 .. Len(Script) /\ Current = Script[Place + 1] /\ Len(Script) \in Nat
  BY CurrentIs
<1>2. Distinct(Script, OnceJobs)
  BY CxxScriptHolds, TsScriptHolds DEF Well
<1> SUFFICES ASSUME NEW k \in 1 .. Place, Script[k] = Current
             PROVE  FALSE
  BY DEF Done
<1>3. k \in 1 .. Len(Script) /\ k # Place + 1
  BY <1>1
<1> QED
  BY <1>1, <1>2, <1>3 DEF Distinct

\* And it has it once.
LEMMA HeaderOnceStep ==
  TypeOK /\ Progress /\ OutTyped /\ PiecesDone /\ HeaderOnce /\ [Next]_vars => HeaderOnce'
<1> SUFFICES ASSUME TypeOK, Progress, OutTyped, PiecesDone, HeaderOnce, [Next]_vars
             PROVE  HeaderOnce'
  OBVIOUS
<1> DEFINE h == out["header"]  hh == out'["header"]  n == Len(h) + 1
<1>1. "header" \in OutFiles /\ mod \in Programs /\ lang \in {"cpp", "ts"}
  BY DEF OutFiles, TypeOK
<1>2. \/ hh = h
      \/ /\ Does /\ Len(h) \in Nat /\ Len(hh) = n
         /\ \A i \in 1 .. Len(h) : hh[i] = h[i]
         /\ Piece(hh[n]) /\ hh[n].op = Current.op
  BY <1>1, Growth
<1>3. \A i \in 1 .. Len(h) : h[i] \in OnceJobs => Done(h[i])
  BY <1>1 DEF PiecesDone, Pieces, OnceJobs, OnceOps, LayoutOps
<1>4. Distinct(h, OnceJobs)
  BY DEF HeaderOnce
<1>5. HeaderOnce' <=> Distinct(hh, OnceJobs)
  BY DEF HeaderOnce, Distinct, OnceJobs, Jobs, Ops, Files, OnceOps
<1> HIDE DEF h, hh, n
<1>6. CASE hh = h
  BY <1>4, <1>5, <1>6
<1>7. CASE /\ Does /\ Len(h) \in Nat /\ Len(hh) = n
           /\ \A i \in 1 .. Len(h) : hh[i] = h[i]
           /\ Piece(hh[n]) /\ hh[n].op = Current.op
  <2>1. ASSUME hh[n] \in OnceJobs
        PROVE  \A i \in 1 .. Len(h) : h[i] # hh[n]
    <3>1. Current.op \notin LayoutOps
      BY <1>7, <2>1 DEF OnceJobs, OnceOps, LayoutOps
    <3>2. hh[n] = Current
      BY <1>7, <3>1 DEF Piece
    <3>3. ~Done(Current)
      BY <1>1, <1>7, <2>1, <3>2, CurrentIsNew DEF Does
    <3>4. \A i \in 1 .. Len(h) : h[i] \in OnceJobs => h[i] # Current
      BY <1>3, <3>3
    <3> QED
      BY <2>1, <3>2, <3>4
  <2>2. \A i \in 1 .. Len(hh) : i \in 1 .. Len(h) \/ i = n
    BY <1>7 DEF n
  <2>3. Distinct(hh, OnceJobs)
    BY <1>4, <1>7, <2>1, <2>2 DEF Distinct
  <2> QED
    BY <1>5, <2>3
<1> QED
  BY <1>2, <1>6, <1>7

\* The source file is written by its own jobs.
LEMMA SourceLateStep ==
  TypeOK /\ Progress /\ OutTyped /\ SourceLate /\ [Next]_vars => SourceLate'
<1> SUFFICES ASSUME TypeOK, Progress, OutTyped, SourceLate, [Next]_vars, out'["source"] # << >>
             PROVE  lang = "cpp" /\ \E k \in 1 .. Place' : Script[k].op \in SourceOps
  BY ProgramStays, ScriptStays DEF SourceLate
<1>1. "source" \in OutFiles /\ mod \in Programs /\ lang \in {"cpp", "ts"}
  BY DEF OutFiles, TypeOK
<1>2. Place \in Nat /\ (Does => Place' = Place + 1) /\ (~Does => Place' = Place)
  BY <1>1, CurrentIs, ProgressStep
<1>3. CASE out'["source"] = out["source"]
  <2>1. PICK k \in 1 .. Place : Script[k].op \in SourceOps
    BY <1>3 DEF SourceLate
  <2>2. k \in 1 .. Place'
    BY <1>2, <2>1
  <2> QED
    BY <1>3, <2>1, <2>2 DEF SourceLate
<1>4. CASE Does /\ Writing /\ Current.file = "source"
  <2>1. Current \in ToSet(Script) /\ Current = Script[Place + 1] /\ Fits(Current)
    BY <1>1, <1>4, CurrentIs, ScriptFits DEF Does
  <2>2. Current.op \in SourceOps /\ lang = "cpp"
    BY <1>1, <1>4, <2>1 DEF Fits, Writing
  <2>3. Place + 1 \in 1 .. Place'
    BY <1>2, <1>4
  <2> QED
    BY <2>1, <2>2, <2>3
<1> QED
  BY <1>1, <1>3, <1>4, Growth

\* Once something is in the source file, all that goes before is done.
LEMMA SourceAll ==
  ASSUME TypeOK, Progress, SourceLate, out["source"] # << >>
  PROVE  /\ lang = "cpp" /\ \A x \in DeclaringJobs \cup DefiningJobs : Done(x)
         /\ todo # << >> => Current.op \in SourceOps
<1>1. mod \in Programs /\ lang = "cpp"
  BY DEF TypeOK, SourceLate
<1>2. PICK k \in 1 .. Place : Script[k].op \in SourceOps
  BY DEF SourceLate
<1>3. Place \in Nat /\ Place <= Len(Script) /\ Len(Script) \in Nat
  BY <1>1, CurrentIs
<1>4. k \in 1 .. Len(Script) /\ k <= Place + 1
  BY <1>3
<1>5. \A x \in DeclaringJobs \cup DefiningJobs : Done(x)
  BY <1>1, <1>2, <1>4, DoneFirst
<1>6. ASSUME todo # << >>
      PROVE  Current.op \in SourceOps
  <2>1. /\ Place + 1 \in 1 .. Len(Script) /\ Current = Script[Place + 1] /\ Current \in ToSet(Script)
    BY <1>1, <1>6, CurrentIs
  <2>2. Current.op \in DeclaringOps \cup DefiningOps \/ Current.op \in SourceOps
    BY <1>1, <2>1, CxxScriptHolds, PartsDiffer
  <2>3. ~(Place + 1 < k)
    BY <1>3
  <2> QED
    BY <1>1, <1>2, <1>4, <2>1, <2>2, <2>3, CxxOrder
<1> QED
  BY <1>1, <1>5, <1>6

\* The inductive invariant.
IInv ==
  /\ TypeOK /\ Progress /\ OutTyped /\ Filled
  /\ AllPassed /\ AllRecorded /\ PiecesDone /\ HeaderOnce /\ SourceLate

\* The inductive invariant holds at first,
LEMMA InvInit == Init => IInv
<1> SUFFICES ASSUME Init
             PROVE  IInv
  OBVIOUS
<1>1. TypeOK /\ Progress /\ \A x : ~Done(x)
  BY TypeInit, DoneInit
<1>2. mod \in Programs /\ values = [m \in 1 .. Len(Members) |-> Members[m].items]
      /\ out = [f \in {"header", "source", "module"} |-> << >>]
  BY DEF Init
<1>3. DOMAIN out = OutFiles /\ \A file \in OutFiles : out[file] = << >>
  BY <1>2 DEF OutFiles
<1>4. \A file \in OutFiles : out[file] \in Seq(Jobs) /\ Len(out[file]) = 0
  <2>1. << >> \in Seq(Jobs) /\ Len(<< >>) = 0
    OBVIOUS
  <2> QED
    BY <1>3, <2>1, Zenon
<1>5. "header" \in OutFiles /\ "source" \in OutFiles
  BY DEF OutFiles
<1>6. OutTyped
  BY <1>3, <1>4 DEF OutTyped
<1>7. Filled
  BY <1>2 DEF Filled
<1>8. AllPassed /\ AllRecorded
  BY <1>1 DEF AllPassed, AllRecorded
<1>9. PiecesDone /\ HeaderOnce
  BY <1>4, <1>5 DEF PiecesDone, Pieces, HeaderOnce, Distinct
<1>10. SourceLate
  BY <1>3, <1>5 DEF SourceLate
<1> QED
  BY <1>1, <1>6, <1>7, <1>8, <1>9, <1>10 DEF IInv

\* and a step leaves it.
LEMMA InvStep == IInv /\ [Next]_vars => IInv'
<1> SUFFICES ASSUME IInv, [Next]_vars
             PROVE  IInv'
  OBVIOUS
<1>1. TypeOK /\ Progress /\ OutTyped /\ mod \in Programs /\ lang \in {"cpp", "ts"}
  BY DEF IInv, TypeOK
<1>2. TypeOK' /\ Progress' /\ OutTyped'
  BY <1>1, TypeStep, ProgressStep, Growth
<1>3. Filled' /\ AllPassed' /\ AllRecorded'
  BY <1>1, FilledStep, PassedStep, RecordedStep DEF IInv
<1>4. PiecesDone' /\ HeaderOnce' /\ SourceLate'
  BY <1>1, PiecesDoneStep, HeaderOnceStep, SourceLateStep DEF IInv
<1> QED
  BY <1>2, <1>3, <1>4 DEF IInv

\* The inductive invariant holds in every state.
THEOREM Invariance == Spec => []IInv
BY InvInit, InvStep, PTL DEF Spec

-----------------------------------------------------------------------------
(* What the files hold.                                                     *)

\* What is in the header when a job is done.
LEMMA InHeader ==
  ASSUME IInv, NEW x \in Jobs, Done(x), x.file = "header", x.op \notin SilentOps,
         x.op \in LayoutOps => x.m # 0
  PROVE  \E k \in Pieces("header") : out["header"][k] = x
BY DEF IInv, AllRecorded, Recorded

\* The header is whole when the source file has anything.
LEMMA WholeHeader ==
  ASSUME IInv, out["source"] # << >>, NEW x \in DeclaringJobs \cup DefiningJobs, x.file = "header",
         x.op \notin SilentOps, x.op \in LayoutOps => x.m # 0
  PROVE  \E k \in Pieces("header") : out["header"][k] = x
<1>1. lang = "cpp" /\ mod \in Programs /\ Done(x)
  BY SourceAll DEF IInv, TypeOK
<1>2. x \in Jobs
  BY <1>1, CxxDoes
<1> QED
  BY <1>1, <1>2, InHeader

\* A piece that must be there once is found once.
LEMMA FoundOnce ==
  ASSUME IInv, out["source"] # << >>, NEW op \in OnceOps, op \notin SilentOps, op \notin LayoutOps,
         NEW m, NEW f, NEW x, x = Job(op, "header", m, f), x \in DeclaringJobs \cup DefiningJobs
  PROVE  WrittenOnce(op, m, f)
<1>1. x.op = op /\ x.file = "header" /\ x.m = m /\ x.f = f
  BY JobHas
<1>2. PICK k \in Pieces("header") : out["header"][k] = x
  BY <1>1, WholeHeader
<1>3. x \in OnceJobs
  <2>1. x \in Jobs
    BY SourceAll, CxxDoes DEF IInv, TypeOK
  <2> QED
    BY <1>1, <2>1 DEF OnceJobs
<1>4. ASSUME NEW j \in Pieces("header"),
             out["header"][j].op = op, out["header"][j].m = m, out["header"][j].f = f
      PROVE  j = k
  <2>1. out["header"] \in Seq(Jobs) /\ out["header"][j] \in Jobs /\ out["header"][j].file = "header"
    BY DEF IInv, OutTyped, OutFiles, Pieces
  <2>2. out["header"][j] = x
    BY <1>4, <2>1 DEF Jobs, Job
  <2> QED
    BY <1>2, <1>3, <2>2 DEF IInv, HeaderOnce, Distinct, Pieces
<1> QED
  BY <1>1, <1>2, <1>4 DEF WrittenOnce

\* What the invariant says of the header when the source file is written,
LEMMA HeaderWhole == IInv => HeaderWholeBeforeSource
<1> SUFFICES ASSUME IInv, out["source"] # << >>
             PROVE  /\ \A n \in 1 .. mod.path : WrittenOnce("open_ns", 0, n) /\ WrittenOnce("close_ns", 0, n)
                    /\ \A m \in 1 .. Len(Members) : Members[m].kind \in {"struct", "class"} =>
                         \A f \in 1 .. Len(Members[m].fields) :
                           WrittenOnce("field", m, f) /\ WrittenOnce("accessor", m, f)
  BY DEF HeaderWholeBeforeSource
<1>1. lang = "cpp" /\ mod \in Programs
  BY SourceAll DEF IInv, TypeOK
<1>2. \A op \in OnceOps : op \notin SilentOps /\ op \notin LayoutOps
  BY DEF OnceOps, SilentOps, LayoutOps
<1>3. "open_ns" \in OnceOps /\ "close_ns" \in OnceOps /\ "field" \in OnceOps /\ "accessor" \in OnceOps
  BY DEF OnceOps
<1>4. ASSUME NEW n \in 1 .. mod.path
      PROVE  WrittenOnce("open_ns", 0, n) /\ WrittenOnce("close_ns", 0, n)
  <2>1. Job("open_ns", "header", 0, n) \in DeclaringJobs /\ Job("close_ns", "header", 0, n) \in DefiningJobs
    BY <1>1, CxxDoes
  <2> QED
    BY <1>2, <1>3, <2>1, FoundOnce
<1>5. ASSUME NEW m \in 1 .. Len(Members), Members[m].kind \in {"struct", "class"},
             NEW f \in 1 .. Len(Members[m].fields)
      PROVE  WrittenOnce("field", m, f) /\ WrittenOnce("accessor", m, f)
  <2>1. m \in ToSet(Composites)
    BY <1>1, <1>5, CompositesAre
  <2>2. Job("field", "header", m, f) \in DefiningJobs /\ Job("accessor", "header", m, f) \in DefiningJobs
    BY <1>1, <2>1, CxxDoes
  <2> QED
    BY <1>2, <1>3, <2>2, FoundOnce
<1> QED
  BY <1>4, <1>5

\* Nothing goes to the source file before the header is whole, whatever the
\* module is and wherever the program stops.
THEOREM HeaderFirst == Spec => []HeaderWholeBeforeSource
BY Invariance, HeaderWhole, PTL

\* and of the layouts the source file makes.
LEMMA LayoutsAreDeclared == IInv => LayoutsDeclared
<1> SUFFICES ASSUME IInv, Len(Classes) <= Len(Structs), NEW k \in Pieces("source"), NEW p, p = out["source"][k]
             PROVE  /\ p.op = "make_layout" => HasPiece("header", Len(out["header"]), "layout", p.m)
                    /\ p.op = "add_field" /\ Members[p.m].fields[p.f].type.kind = "Custom" =>
                         \A m \in Target(Members[p.m].fields[p.f].type.ref) :
                           Members[m].kind = "struct" => HasPiece("header", Len(out["header"]), "layout", m)
  BY DEF LayoutsDeclared
<1>1. "source" \in OutFiles /\ mod \in Programs /\ lang \in {"cpp", "ts"}
  BY DEF OutFiles, IInv, TypeOK
<1>2. out["source"] # << >>
  BY DEF Pieces
<1>3. lang = "cpp"
  BY <1>2, SourceAll DEF IInv
<1>4. ASSUME NEW m \in LayoutMembers
      PROVE  HasPiece("header", Len(out["header"]), "layout", m)
  <2> DEFINE x == Job("layout", "header", m, 0)
  <2>1. x \in DefiningJobs /\ x.file = "header" /\ x.op = "layout" /\ x.m = m
    BY <1>1, <1>3, CxxDoes, JobHas
  <2>2. m # 0
    BY <1>1, LayoutMembersAre
  <2> HIDE DEF x
  <2>3. PICK j \in Pieces("header") : out["header"][j] = x
    BY <1>2, <2>1, <2>2, WholeHeader DEF SilentOps
  <2> QED
    BY <2>1, <2>3 DEF HasPiece, Pieces
<1>5. ASSUME p.op = "make_layout"
      PROVE  p.m \in LayoutMembers
  <2>1. Done(p)
    BY <1>1 DEF IInv, PiecesDone
  <2>2. Fits(p)
    BY <1>1, <2>1, DoneIs DEF IInv
  <2> QED
    BY <1>5, <2>2 DEF Fits, LayoutOps
<1>6. ASSUME NEW m \in 1 .. Len(Members), Members[m].kind = "struct"
      PROVE  m \in LayoutMembers
  BY <1>1, <1>6, CompositesAre DEF LayoutMembers
<1>7. \A ref : Target(ref) \subseteq 1 .. Len(Members)
  BY DEF Target
<1> QED
  BY <1>4, <1>5, <1>6, <1>7

\* create_interbuf_resources makes no layout that the header does not declare.
THEOREM LayoutsExist == Spec => []LayoutsDeclared
BY Invariance, LayoutsAreDeclared, PTL

\* The C++ writers accept a name only if it is that of a type the module has.
LEMMA ResolvedIs ==
  ASSUME NEW t, CxxType(t) = "ok", t.kind = "Custom"
  PROVE  \E m \in Target(t.ref) : Members[m].kind \in {"struct", "class", "enum"}
<1>1. Resolve(t.ref) \in {"struct", "class", "enum"}
  BY IntKindsAre DEF CxxType, Scalars, Floats
<1> DEFINE m == CHOOSE i \in Target(t.ref) : TRUE
<1>2. Target(t.ref) # {}
  BY <1>1 DEF Resolve
<1>3. m \in Target(t.ref)
  BY <1>2
<1>4. Len(t.ref) = 1 /\ Resolve(t.ref) = Members[m].kind
  BY <1>1, <1>2 DEF Resolve
<1> QED
  BY <1>1, <1>3, <1>4

\* A field is written after the type it names is declared.
LEMMA DeclaredStep == IInv /\ DeclaredBeforeUse /\ [Next]_vars => DeclaredBeforeUse'
<1> SUFFICES ASSUME IInv, DeclaredBeforeUse, [Next]_vars
             PROVE  DeclaredBeforeUse'
  OBVIOUS
<1> DEFINE h == out["header"]  hh == out'["header"]
           Known(s, k, m) == \/ \E j \in 1 .. k : s[j].op = "forward" /\ s[j].m = m
                             \/ \E j \in 1 .. k : s[j].op = "enum" /\ s[j].m = m
<1>1. "header" \in OutFiles /\ mod \in Programs /\ lang \in {"cpp", "ts"} /\ TypeOK /\ Progress /\ OutTyped
  BY DEF OutFiles, IInv, TypeOK
<1>2. mod' = mod /\ lang' = lang /\ Members' = Members /\ \A ref : Target(ref)' = Target(ref)
  BY ProgramStays, ScriptStays DEF Target
<1>3. \/ hh = h
      \/ /\ Does /\ Writing /\ Len(h) \in Nat /\ Len(hh) = Len(h) + 1 /\ Current.file = "header"
         /\ \A i \in 1 .. Len(h) : hh[i] = h[i]
         /\ Piece(hh[Len(h) + 1]) /\ hh[Len(h) + 1].op = Current.op
  BY <1>1, Growth
<1> SUFFICES ASSUME NEW k \in 1 .. Len(hh), NEW p, p = hh[k], p.op \in {"field", "accessor"},
                    NEW t, t = Members[p.m].fields[p.f].type, t.kind = "Custom"
             PROVE  \E m \in Target(t.ref) : Known(hh, k - 1, m)
  BY <1>2 DEF DeclaredBeforeUse, Pieces, HasPiece
<1>4. ASSUME k \in 1 .. Len(h), h[k] = hh[k], \A i \in 1 .. Len(h) : hh[i] = h[i], Len(h) \in Nat
      PROVE  \E m \in Target(t.ref) : Known(hh, k - 1, m)
  <2>1. PICK m \in Target(t.ref) : Known(h, k - 1, m)
    BY <1>4 DEF DeclaredBeforeUse, Pieces, HasPiece
  <2>2. \A j \in 1 .. k - 1 : hh[j] = h[j]
    BY <1>4
  <2>3. Known(hh, k - 1, m)
    <3> HIDE DEF h, hh
    <3> QED
      BY <2>1, <2>2
  <2> QED
    BY <2>3
<1>5. ASSUME Does, Writing, Len(h) \in Nat, k = Len(h) + 1, Current.file = "header",
             \A i \in 1 .. Len(h) : hh[i] = h[i], Piece(p), p.op = Current.op
      PROVE  \E m \in Target(t.ref) : Known(hh, k - 1, m)
  <2>1. p = Current
    BY <1>5 DEF Piece, LayoutOps
  <2>2. /\ Current \in ToSet(Script) /\ Current = Script[Place + 1] /\ Fits(Current)
        /\ Place + 1 \in 1 .. Len(Script) /\ Place \in Nat
    BY <1>1, <1>5, CurrentIs, ScriptFits DEF Does
  <2>3. lang = "cpp"
    BY <1>1, <1>5, <2>2 DEF Fits
  <2>4. WrittenType(Type) = "ok" /\ Type = t
    BY <1>5, <2>1 DEF Writing, Accepted, FieldOps, Type
  <2>5. CxxType(t) = "ok"
    BY <2>3, <2>4 DEF WrittenType
  <2>6. PICK m \in Target(t.ref) : Members[m].kind \in {"struct", "class", "enum"}
    BY <2>5, ResolvedIs
  <2>7. m \in 1 .. Len(Members)
    BY DEF Target
  <2>8. Current.op \in DefiningOps \cup SourceOps
    BY <2>1 DEF DefiningOps
  <2>9. \A x \in DeclaringJobs : Done(x)
    BY <1>1, <2>2, <2>3, <2>8, DoneFirst
  <2>10. \E j \in 1 .. Len(h) : h[j].op \in {"forward", "enum"} /\ h[j].m = m
    <3>1. ASSUME NEW op \in {"forward", "enum"}, Job(op, "header", m, 0) \in DeclaringJobs
          PROVE  \E j \in 1 .. Len(h) : h[j].op = op /\ h[j].m = m
      <4> DEFINE x == Job(op, "header", m, 0)
      <4>1. x \in Jobs /\ Done(x)
        BY <1>1, <2>3, <2>9, <3>1, CxxDoes
      <4>2. x.op = op /\ x.file = "header" /\ x.m = m
        BY JobHas
      <4> HIDE DEF x
      <4>3. x.op \notin SilentOps /\ x.op \notin LayoutOps
        BY <4>2 DEF SilentOps, LayoutOps
      <4> QED
        BY <4>1, <4>2, <4>3, InHeader DEF Pieces
    <3>2. CASE Members[m].kind = "enum"
      <4>1. Job("enum", "header", m, 0) \in DeclaringJobs
        BY <1>1, <2>3, <2>7, <3>2, CompositesAre, CxxDoes
      <4> QED
        BY <3>1, <4>1
    <3>3. CASE Members[m].kind \in {"struct", "class"}
      <4>1. Job("forward", "header", m, 0) \in DeclaringJobs
        BY <1>1, <2>3, <2>7, <3>3, CompositesAre, CxxDoes
      <4> QED
        BY <3>1, <4>1
    <3> QED
      BY <2>6, <3>2, <3>3
  <2>11. k - 1 = Len(h)
    <3> DEFINE n == Len(h)
    <3>1. n \in Nat /\ k = n + 1
      BY <1>5
    <3> HIDE DEF n
    <3>2. k - 1 = n
      BY <3>1
    <3> QED
      BY <3>2 DEF n
  <2>12. Known(hh, k - 1, m)
    BY <1>5, <2>10, <2>11
  <2> QED
    BY <2>12
<1>6. CASE hh = h
  <2>1. Len(h) \in Nat
    BY <1>1 DEF OutTyped
  <2> QED
    BY <1>4, <1>6, <2>1
<1>7. CASE /\ Does /\ Writing /\ Len(h) \in Nat /\ Len(hh) = Len(h) + 1 /\ Current.file = "header"
           /\ \A i \in 1 .. Len(h) : hh[i] = h[i]
           /\ Piece(hh[Len(h) + 1]) /\ hh[Len(h) + 1].op = Current.op
  <2>1. k \in 1 .. Len(h) \/ k = Len(h) + 1
    BY <1>7
  <2> QED
    BY <1>4, <1>5, <1>7, <2>1
<1> QED
  BY <1>3, <1>6, <1>7

\* The header mentions no type that it has not declared further up.
THEOREM DeclaredFirst == Spec => []DeclaredBeforeUse
<1>1. Init => DeclaredBeforeUse
  <2>1. Init => out["header"] = << >>
    BY DEF Init
  <2> QED
    BY <2>1 DEF DeclaredBeforeUse, Pieces
<1>2. IInv /\ DeclaredBeforeUse /\ [Next]_vars => DeclaredBeforeUse'
  BY DeclaredStep
<1> QED
  BY <1>1, <1>2, Invariance, PTL DEF Spec

-----------------------------------------------------------------------------
(* The errors.                                                              *)

\* A type that is in a struct or a class has been accepted before the source
\* file is begun.
LEMMA ErrorsStep == IInv /\ ErrorsPrecedeSource /\ [Next]_vars => ErrorsPrecedeSource'
<1> DEFINE Errors == {"InvalidTypeName", "InvalidEnumBaseType", "EnumTypeNotIncrementable", "terminated"}
<1> SUFFICES ASSUME IInv, ErrorsPrecedeSource, [Next]_vars, result' \in Errors
             PROVE  out'["source"] = << >>
  BY DEF ErrorsPrecedeSource
<1>1. CASE UNCHANGED vars
  BY <1>1 DEF ErrorsPrecedeSource, vars
<1>2. CASE Halts
  <2>1. todo # << >> /\ Refused(result') /\ out' = out
    BY <1>2 DEF Halts, Faulted
  <2> SUFFICES ASSUME out["source"] # << >>
               PROVE  FALSE
    BY <2>1
  <2>2. lang = "cpp" /\ Current.op \in SourceOps /\ \A x \in DeclaringJobs \cup DefiningJobs : Done(x)
    BY <2>1, SourceAll DEF IInv
  <2>3. Current.op = "add_field" /\ WrittenType(Type) # "ok"
    BY <2>1, <2>2 DEF Refused, SourceOps, FieldOps, LayoutOps
  <2>4. mod \in Programs /\ Current \in ToSet(Script) /\ Fits(Current)
    BY <2>1, <2>2, CurrentIs, ScriptFits DEF IInv, TypeOK
  <2>5. Current.m \in ToSet(Composites) /\ Current.f \in 1 .. Len(Members[Current.m].fields)
    BY <2>3, <2>4 DEF Fits, FieldOps
  <2> DEFINE x == Job("field", "header", Current.m, Current.f)
  <2>6. x \in DefiningJobs /\ x \in Jobs
    BY <2>2, <2>4, <2>5, CxxDoes
  <2>7. x.op = "field" /\ x.m = Current.m /\ x.f = Current.f
    BY JobHas
  <2> HIDE DEF x
  <2>8. Passed(x)
    BY <2>2, <2>6 DEF IInv, AllPassed
  <2> QED
    BY <2>3, <2>7, <2>8 DEF Passed, FieldOps, Type
<1>3. CASE Does
  BY <1>3 DEF Does, Advance
<1> QED
  BY <1>1, <1>2, <1>3, Steps

\* Every error in the program is found before the source file is written to.
THEOREM ErrorsFirst == Spec => []ErrorsPrecedeSource
<1>1. Init => ErrorsPrecedeSource
  BY DEF Init, ErrorsPrecedeSource
<1>2. IInv /\ ErrorsPrecedeSource /\ [Next]_vars => ErrorsPrecedeSource'
  BY ErrorsStep
<1> QED
  BY <1>1, <1>2, Invariance, PTL DEF Spec

-----------------------------------------------------------------------------
(* What compiles.                                                           *)

\* With more classes than structs what the C++ back end reads is undefined.
Defined == lang = "cpp" => Len(Classes) <= Len(Structs)

\* An item that is not null, in an enum that compiles, can be written, and
\* counted from where that is needed.
LEMMA ItemIs ==
  ASSUME IInv, NEW m \in 1 .. Len(Members), NEW i \in 1 .. Len(Members[m].items),
         EnumCompilable(Members[m]), values[m][i] # NullValue
  PROVE  /\ WrittenExpr(values[m][i]) = "ok"
         /\ i + 1 \in 1 .. Len(Members[m].items) /\ Members[m].items[i + 1] = NullValue
              => values[m][i].kind \in IntKinds
<1>1. mod \in Programs /\ WellKept(values[m][i]) /\ WellKept(Members[m].items[i]) /\ i \in Nat
  BY MembersAre DEF IInv, TypeOK
<1>2. CASE values[m][i] = Members[m].items[i]
  <2>1. values[m][i].kind \in IntKinds \cup Floats \cup {"Bool", "null"}
    BY <1>2 DEF EnumCompilable
  <2>2. values[m][i].kind # "null"
    BY <1>1 DEF WellKept
  <2>3. WrittenExpr(values[m][i]) = "ok"
    BY <2>1, <2>2 DEF WrittenExpr
  <2>4. ASSUME i + 1 \in 1 .. Len(Members[m].items), Members[m].items[i + 1] = NullValue
        PROVE  values[m][i].kind \in IntKinds
    <3>1. (i + 1) - 1 = i /\ i + 1 > 1
      BY <1>1
    <3>2. Members[m].items[i].kind \in IntKinds \cup {"null"}
      BY <2>4, <3>1 DEF EnumCompilable
    <3> QED
      BY <1>2, <2>2, <3>2
  <2> QED
    BY <2>3, <2>4
<1>3. CASE values[m][i] # Members[m].items[i]
  <2>1. values[m][i].kind \in IntKinds
    BY <1>3 DEF IInv, Filled
  <2> QED
    BY <2>1 DEF WrittenExpr
<1> QED
  BY <1>2, <1>3

\* When every job is done, every part of the module has been accepted.
LEMMA FinishedCompiles ==
  ASSUME IInv, todo = << >>, Defined
  PROVE  Compilable(lang)
<1>1. mod \in Programs /\ lang \in {"cpp", "ts"}
  BY DEF IInv, TypeOK
<1>2. \A x \in ToSet(Script) : Passed(x)
  <2>1. ASSUME NEW x \in ToSet(Script)
        PROVE  Passed(x)
    <3>1. Done(x)
      BY <1>1, AllDone DEF IInv
    <3>2. x \in Jobs
      BY <1>1, <3>1, DoneIs DEF IInv
    <3> QED
      BY <3>1, <3>2 DEF IInv, AllPassed
  <2> QED
    BY <2>1
<1>3. PICK file \in {"header", "module"} :
        /\ Job("classify", "none", 0, 0) \in ToSet(Script)
        /\ \A m \in ToSet(Enums) : EnumSet(file, m) \subseteq ToSet(Script)
        /\ \A m \in ToSet(Composites) : BodyJobs(file, m) \subseteq ToSet(Script)
  BY <1>1, BothDo
<1>4. ASSUME NEW m \in 1 .. Len(Members)
      PROVE  Members[m].kind # "import"
  <2>1. Positions("import") = << >>
    BY <1>2, <1>3, JobHas DEF Passed
  <2>2. ToSet(Positions("import")) = {}
    BY <2>1 DEF ToSet
  <2> QED
    BY <1>1, <2>2, PositionsAre
<1>5. ASSUME NEW m \in 1 .. Len(Members), Members[m].kind = "enum"
      PROVE  EnumCompilable(Members[m])
  <2>1. m \in ToSet(Enums)
    BY <1>1, <1>5, CompositesAre
  <2>2. Job("enum", file, m, 0) \in ToSet(Script)
    BY <1>3, <2>1 DEF EnumSet
  <2>3. EnumBase(Members[m].base) = "ok"
    BY <1>2, <2>2, JobHas DEF Passed
  <2>4. Members[m].base.kind \in IntKinds \cup Floats \cup {"Bool"}
    BY <2>3 DEF EnumBase
  <2>5. ASSUME NEW i \in 1 .. Len(Members[m].items)
        PROVE  /\ Members[m].items[i].kind \in IntKinds \cup Floats \cup {"Bool", "null"}
               /\ Members[m].items[i] = NullValue =>
                    /\ Members[m].base.kind \in IntKinds
                    /\ i > 1 => Members[m].items[i - 1].kind \in IntKinds \cup {"null"}
    <3>1. Job("item", file, m, i) \in EnumSet(file, m)
      BY DEF EnumSet, ItemJobs
    <3>2. Job("item", file, m, i) \in ToSet(Script)
      BY <1>3, <2>1, <3>1
    <3>3. WrittenExpr(values[m][i]) = "ok"
      BY <1>2, <3>2, JobHas DEF Passed
    <3>4. values[m][i].kind \in IntKinds \cup Floats \cup {"Bool"}
      BY <3>3 DEF WrittenExpr
    <3>5. values[m][i] # NullValue
      BY <3>4, IntKindsAre DEF Floats, NullValue
    <3>6. CASE values[m][i] = Members[m].items[i]
      BY <3>4, <3>5, <3>6
    <3>7. CASE values[m][i] # Members[m].items[i]
      BY <3>7 DEF IInv, Filled, NullValue
    <3> QED
      BY <3>6, <3>7
  <2> QED
    BY <2>4, <2>5 DEF EnumCompilable
<1>6. ASSUME NEW t \in TypesIn({"struct", "class"})
      PROVE  /\ t.kind \in Scalars \/ t.kind = "Custom"
             /\ t.kind = "Custom" /\ lang = "cpp" => Resolve(t.ref) \in {"struct", "class", "enum"}
  <2>0. PICK m \in 1 .. Len(Members) :
          /\ Members[m].kind \in {"struct", "class"}
          /\ \E f \in 1 .. Len(Members[m].fields) : t = Members[m].fields[f].type
    BY DEF TypesIn
  <2>1. PICK f \in 1 .. Len(Members[m].fields) :
          Members[m].kind \in {"struct", "class"} /\ t = Members[m].fields[f].type
    BY <2>0
  <2>2. m \in ToSet(Composites)
    BY <1>1, <2>1, CompositesAre
  <2>3. Job("field", file, m, f) \in BodyJobs(file, m)
    BY DEF BodyJobs, FieldJobs
  <2>4. Job("field", file, m, f) \in ToSet(Script)
    BY <1>3, <2>2, <2>3
  <2>5. WrittenType(t) = "ok"
    BY <1>2, <2>1, <2>4, JobHas DEF Passed, FieldOps
  <2>6. CASE lang = "cpp"
    <3>1. CxxType(t) = "ok"
      BY <2>5, <2>6 DEF WrittenType
    <3> QED
      BY <2>6, <3>1, IntKindsAre DEF CxxType, Scalars, Floats
  <2>7. CASE lang = "ts"
    <3>1. TsType(t) = "ok"
      BY <2>5, <2>7 DEF WrittenType
    <3> QED
      BY <2>7, <3>1 DEF TsType
  <2> QED
    BY <1>1, <2>6, <2>7
<1>7. ASSUME lang = "cpp"
      PROVE  mod.path > 0 /\ Len(Classes) <= Len(Structs)
  <2>1. Job("create", "source", 0, 0) \in ToSet(Script)
    BY <1>1, <1>7, CxxDoes, CxxScriptHolds
  <2>2. mod.path # 0
    BY <1>2, <2>1, JobHas DEF Passed
  <2> QED
    BY <1>1, <1>7, <2>2, MembersAre DEF Defined
<1> QED
  BY <1>4, <1>5, <1>6, <1>7 DEF Compilable

\* A job that has been waited for is done: the item has a value.
LEMMA WaitedFor ==
  ASSUME IInv, todo # << >>, NEW i, Current \in Awaiting,
         i = IF Current.op = "item" THEN Current.f ELSE Current.f - 1
  PROVE  values[Current.m][i] # NullValue
<1>1. mod \in Programs /\ lang \in {"cpp", "ts"} /\ Progress
  BY DEF IInv, TypeOK
<1>2. /\ Place \in Nat /\ Place + 1 \in 1 .. Len(Script) /\ Current = Script[Place + 1]
      /\ Script \in Seq(Jobs) /\ Led(Script, Awaiting, Awaited)
  BY <1>1, CurrentIs, ScriptHolds
<1>3. PICK j \in 1 .. (Place + 1) - 1 : << Script[j], Script[Place + 1] >> \in Awaited
  BY <1>2 DEF Led
<1>4. j \in 1 .. Place
  BY <1>2, <1>3
<1>5. Script[j] \in Jobs /\ Script[j].op = "fill" /\ Script[j].m = Current.m /\ Script[j].f = i
  BY <1>2, <1>3 DEF Awaited
<1>6. Done(Script[j])
  BY <1>4 DEF Done
<1>7. Passed(Script[j])
  BY <1>5, <1>6 DEF IInv, AllPassed
<1> QED
  BY <1>5, <1>7 DEF Passed

\* A module of which a job is refused does not compile, or its program stops
\* at an overflow.
LEMMA RefusedDoesNot ==
  ASSUME IInv, CountedFromLastExplicit, todo # << >>, NEW r, Refused(r), Defined
  PROVE  ~Compilable(lang) \/ (r = "crashed" /\ Overflown)
<1> SUFFICES ASSUME Compilable(lang), ~(r = "crashed" /\ Overflown)
             PROVE  FALSE
  OBVIOUS
<1>1. mod \in Programs /\ lang \in {"cpp", "ts"} /\ TypeOK /\ Progress
  BY DEF IInv, TypeOK
<1>2. Current \in Jobs /\ Fits(Current)
  BY <1>1, CurrentIs, ScriptFits
<1> DEFINE m == Current.m  f == Current.f
<1>3. CASE Current.op = "classify" /\ Positions("import") # << >>
  <2> DEFINE s == Positions("import")
  <2>1. ToSet(s) = {} /\ s \in Seq(1 .. Len(Members))
    BY <1>1, PositionsAre DEF Compilable
  <2>2. s # << >>
    BY <1>3
  <2> HIDE DEF s
  <2>3. ToSet(s) = {s[i] : i \in 1 .. Len(s)}
    BY <2>1, ElementsAre
  <2>4. 1 \in 1 .. Len(s)
    BY <2>1, <2>2
  <2> QED
    BY <2>1, <2>3, <2>4
<1>4. ASSUME Current.op \in {"fill", "item", "enum"}
      PROVE  /\ m \in 1 .. Len(Members) /\ EnumCompilable(Members[m]) /\ Base = Members[m].base
             /\ Members[m].kind = "enum"
             /\ Current.op \in {"fill", "item"} => f \in 1 .. Len(Members[m].items)
  BY <1>1, <1>2, <1>4, CompositesAre DEF Fits, Compilable, Base
<1>5. CASE Current.op = "fill" /\ values[m][f] = NullValue
  <2>1. m \in 1 .. Len(Members) /\ EnumCompilable(Members[m]) /\ Base = Members[m].base
        /\ f \in 1 .. Len(Members[m].items) /\ Members[m].kind = "enum"
    BY <1>4, <1>5
  <2>2. Members[m].items[f] = NullValue
    BY <1>5, <2>1, IntKindsAre DEF IInv, Filled, NullValue
  <2>3. Base.kind \in IntKinds
    BY <2>1, <2>2 DEF EnumCompilable
  <2>4. FilledBase(Base) = "ok"
    <3>1. Base.kind # "null" /\ Base.kind \notin Floats \cup {"Bool"}
      BY <2>3, IntKindsAre DEF Floats
    <3> QED
      BY <2>3, <3>1 DEF FilledBase
  <2>5. ASSUME f > 1
        PROVE  values[m][f - 1].kind \in IntKinds
    <3>1. Len(Members[m].items) \in Nat
      BY <1>1, <2>1, MembersAre
    <3>2. f - 1 \in 1 .. Len(Members[m].items) /\ (f - 1) + 1 = f
      BY <2>1, <2>5, <3>1
    <3>3. values[m][f - 1] # NullValue
      BY <1>2, <1>5, <2>5, WaitedFor DEF Awaiting
    <3> QED
      BY <2>1, <2>2, <3>2, <3>3, ItemIs
  <2>6. f > 1 /\ Overflows(values[m][f - 1]) /\ r = "crashed"
    BY <1>5, <2>4, <2>5 DEF Refused, FieldOps, LayoutOps
  <2>7. CountsTooFar(m, f)
    BY <1>1, <2>1, <2>2, <2>5, <2>6, OverflowCounts
  <2> QED
    BY <2>1, <2>2, <2>6, <2>7 DEF Overflown
<1>6. CASE Current.op = "enum" /\ EnumBase(Base) # "ok"
  <2>1. Base.kind \in IntKinds \cup Floats \cup {"Bool"}
    BY <1>4, <1>6 DEF EnumCompilable
  <2> QED
    BY <1>6, <2>1, IntKindsAre DEF EnumBase, Floats
<1>7. CASE Current.op = "item" /\ WrittenExpr(values[m][f]) # "ok"
  <2>1. m \in 1 .. Len(Members) /\ EnumCompilable(Members[m]) /\ f \in 1 .. Len(Members[m].items)
    BY <1>4, <1>7
  <2>2. values[m][f] # NullValue
    BY <1>2, <1>7, WaitedFor DEF Awaiting
  <2> QED
    BY <1>7, <2>1, <2>2, ItemIs
<1>8. CASE Current.op \in FieldOps /\ WrittenType(Type) # "ok"
  <2>1. m \in ToSet(Composites) /\ f \in 1 .. Len(Members[m].fields) /\ Type = Members[m].fields[f].type
    BY <1>2, <1>8 DEF Fits, Type
  <2>2. m \in 1 .. Len(Members) /\ Members[m].kind \in {"struct", "class"}
    BY <1>1, <2>1, CompositesAre
  <2>3. Type \in TypesIn({"struct", "class"})
    BY <2>1, <2>2 DEF TypesIn
  <2>4. \/ Type.kind \in Scalars
        \/ Type.kind = "Custom" /\ (lang = "cpp" => Resolve(Type.ref) \in {"struct", "class", "enum"})
    BY <2>3 DEF Compilable
  <2>5. CASE lang = "cpp"
    <3>1. CxxType(Type) # "ok"
      BY <1>8, <2>5 DEF WrittenType
    <3> QED
      BY <2>4, <2>5, <3>1, IntKindsAre DEF CxxType, Scalars, Floats
  <2>6. CASE lang = "ts"
    <3>1. TsType(Type) # "ok"
      BY <1>8, <2>6 DEF WrittenType
    <3> QED
      BY <2>4, <2>6, <3>1, IntKindsAre DEF TsType, Scalars, Floats
  <2> QED
    BY <1>1, <2>5, <2>6
<1>9. CASE Current.op = "create" /\ mod.path = 0
  <2>1. lang = "cpp"
    BY <1>1, <1>2, <1>9 DEF Fits, SourceOps
  <2> QED
    BY <1>9, <2>1 DEF Compilable
<1>10. CASE Current.op \in LayoutOps /\ Current.m = 0
  <2>1. Current.m \in LayoutMembers /\ lang = "cpp"
    <3>1. Current.m \in LayoutMembers
      BY <1>2, <1>10 DEF Fits
    <3>2. ASSUME lang = "ts"
          PROVE  FALSE
      <4>1. Current \in TsJobs
        BY <1>1, <3>2, CurrentIs, TsScriptHolds
      <4>2. Current.op \in {"open", "classify", "fill", "enum", "item", "begin", "field"}
        <5>1. \A file, n : \A y \in EnumSet(file, n) : y.op \in {"fill", "enum", "item"}
          BY FieldJobsAre, JobHas DEF EnumSet
        <5>2. \A file, n : \A y \in BodyJobs(file, n) : y.op \in {"begin", "field"}
          BY FieldJobsAre, JobHas DEF BodyJobs
        <5> QED
          BY <4>1, <5>1, <5>2, JobHas DEF TsJobs
      <4> QED
        BY <1>10, <4>2 DEF LayoutOps
    <3> QED
      BY <1>1, <3>1, <3>2
  <2> QED
    BY <1>1, <1>10, <2>1, LayoutMembersAre DEF Defined
<1> QED
  BY <1>3, <1>5, <1>6, <1>7, <1>8, <1>9, <1>10 DEF Refused

\* How compile ended.
Ended ==
  /\ result = "done" => todo = << >>
  /\ result \notin {"running", "done"} /\ faults = MaxFaults /\ Defined =>
       ~Compilable(lang) \/ (result = "crashed" /\ Overflown)

\* Once it has ended it stays ended, and so does the module.
LEMMA EndedStep == IInv /\ CountedFromLastExplicit /\ Ended /\ [Next]_vars => Ended'
<1> SUFFICES ASSUME IInv, CountedFromLastExplicit, Ended, [Next]_vars
             PROVE  Ended'
  OBVIOUS
<1>1. /\ mod' = mod /\ lang' = lang /\ Members' = Members /\ (Defined' <=> Defined)
  BY ProgramStays, ScriptStays DEF Defined
<1>2. Compilable(lang)' <=> Compilable(lang)
  <2>1. \A ref : Resolve(ref)' = Resolve(ref)
    BY <1>1 DEF Resolve, Target
  <2>2. TypesIn({"struct", "class"})' = TypesIn({"struct", "class"})
    BY <1>1 DEF TypesIn
  <2>3. Len(Classes)' = Len(Classes) /\ Len(Structs)' = Len(Structs)
    BY <1>1, ScriptStays
  <2> QED
    BY <1>1, <2>1, <2>2, <2>3 DEF Compilable
<1>3. Overflown' <=> Overflown
  <2>1. \A m, i : GivenUpTo(m, i)' = GivenUpTo(m, i)
    BY <1>1 DEF GivenUpTo
  <2>2. \A m, i : LastGiven(m, i)' = LastGiven(m, i)
    BY <2>1 DEF LastGiven
  <2>3. \A m, i : Origin(m, i)' = Origin(m, i) /\ Distance(m, i)' = Distance(m, i)
    BY <1>1, <2>1, <2>2 DEF Origin, Distance
  <2>4. \A m, i : CountsTooFar(m, i)' = CountsTooFar(m, i)
    BY <2>3 DEF CountsTooFar
  <2> QED
    BY <1>1, <2>4 DEF Overflown
<1>4. CASE UNCHANGED vars
  BY <1>1, <1>2, <1>4, <1>3 DEF Ended, vars
<1>5. CASE Does
  BY <1>5 DEF Does, Advance, Ended
<1>6. CASE Halts
  <2>1. CASE Faulted
    <3>1. faults' # MaxFaults /\ result' # "done"
      BY <2>1, MaxFaultsAssumption DEF Faulted, IInv, TypeOK
    <3> QED
      BY <3>1 DEF Ended
  <2>2. CASE todo = << >> /\ result' = "done" /\ faults' = faults
    BY <1>6, <2>2 DEF Ended, Halts
  <2>3. CASE todo # << >> /\ Refused(result') /\ faults' = faults
    <3>1. result' # "done"
      <4>1. \A t : EnumBase(t) # "done" /\ FilledBase(t) # "done" /\ CxxType(t) # "done" /\ TsType(t) # "done"
        BY DEF EnumBase, FilledBase, CxxType, TsType
      <4>2. \A v : WrittenExpr(v) # "done"
        BY DEF WrittenExpr
      <4> QED
        BY <2>3, <4>1, <4>2 DEF Refused, WrittenType
    <3>2. Defined => ~Compilable(lang) \/ (result' = "crashed" /\ Overflown)
      BY <2>3, RefusedDoesNot
    <3> QED
      BY <1>1, <1>2, <1>3, <3>1, <3>2 DEF Ended
  <2> QED
    BY <1>6, <2>1, <2>2, <2>3 DEF Halts
<1> QED
  BY <1>4, <1>5, <1>6, Steps

\* compile succeeds on the compilable modules and on no others, unless a file
\* or an allocation fails or an enum counts past the largest I32 or I64, which
\* may stop it.
THEOREM CompilesWhatItShould == Spec => []CompilesExactly
<1>1. Init => Ended /\ CountedFromLastExplicit
  BY CountedInit DEF Init, Ended
<1>2. IInv /\ (Ended /\ CountedFromLastExplicit) /\ [Next]_vars => (Ended /\ CountedFromLastExplicit)'
  BY EndedStep, CountedStep DEF IInv
<1>3. IInv /\ Ended => CompilesExactly
  <2> SUFFICES ASSUME IInv, Ended, result # "running", faults = MaxFaults, Defined
               PROVE  /\ result = "done" => Compilable(lang)
                      /\ Compilable(lang) => result = "done" \/ (result = "crashed" /\ Overflown)
    BY DEF CompilesExactly, Defined
  <2>1. result = "done" => Compilable(lang)
    BY FinishedCompiles DEF Ended
  <2>2. result # "done" => ~Compilable(lang) \/ (result = "crashed" /\ Overflown)
    BY DEF Ended
  <2> QED
    BY <2>1, <2>2
<1> QED
  BY <1>1, <1>2, <1>3, Invariance, PTL DEF Spec

\* The two back ends do not disagree the wrong way round: every module the C++
\* back end compiles, the TypeScript back end compiles too.  (CompilesWhatItShould
\* shows that Compilable is what compile does.)
THEOREM CxxCompilableIsTsCompilable == Compilable("cpp") => Compilable("ts")
BY DEF Compilable
=============================================================================
