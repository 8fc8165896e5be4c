-------------------------- MODULE AstLifetimeProofs --------------------------
(***************************************************************************)
(* Proofs about who owns the AST: for every bound on the number of nodes,  *)
(* what is owned is live, what waits for its destructor is listed once,    *)
(* and the deferred destruction implements the life cycle of a node.       *)
(***************************************************************************)
EXTENDS AstLifetime, DataInduction

States == {"absent", "live", "listed", "destroyed"}

\* No garbage is forgotten: a node that lives has an owner.
LiveIsOwned == \A n \in Nodes : state[n] = "live" => Held(holds, n)

\* Only nodes that have not been destroyed own anything.
OwnersExist == \A p \in holds : p[1] \in Nodes => state[p[1]] \in {"live", "listed"}

\* The detached list and the list share no node, and neither has one twice.
WaitingOnce ==
  /\ IsInjective(batch) /\ IsInjective(list) /\ ToSet(batch) \cap ToSet(list) = {}
  /\ \A n \in Nodes : state[n] = "listed" <=> n \in ToSet(batch) \cup ToSet(list)

\* The calls of make_ast_node that are still to come make new nodes.
Fresh ==
  /\ \A n \in Nodes : n > made => state[n] = "absent"
  /\ clearing = "ctor" => made \in Nodes /\ state[made] = "absent"

\* The shape of the tree: what a node may own.
MayOwn(o, x) ==
  \/ kind[o] = "mod" /\ x = TheParser
  \/ /\ x \in Nodes
     /\ \/ kind[o] = "mod" /\ kind[x] = "decl"
        \/ kind[o] = "decl" /\ kind[x] = "field"
        \/ kind[o] = "field" /\ kind[x] = "type"
        \/ kind[o] = "type" /\ kind[x] = "type" /\ x < o
Shape ==
  \A p \in holds :
    /\ p[1] \in Nodes => MayOwn(p[1], p[2])
    /\ p[2] = Document => p[1] \in {Main, TheParser}

\* main's "mod" is a module, which the parser takes over as main holds it.
ModLocal ==
  /\ mod # Null => state[mod] # "absent" /\ kind[mod] = "mod"
  /\ phase \in {"begin", "parse", "compile"} => << Main, mod >> \in holds

\* The cases in which main, the parser and the compiler announce a node.
Announcing(k, owner, elements) ==
  \/ phase = "root" /\ k = "root" /\ owner = Main /\ elements = {}
  \/ phase \in {"mod1", "mod2"} /\ k = "mod" /\ owner = Main /\ elements = {}
  \/ phase = "parse" /\ k \in {"decl", "field"} /\ owner = Main /\ elements = {}
  \/ /\ phase = "parse" /\ k = "type"
     /\ owner \in Nodes /\ kind[owner] = "field" /\ << Main, owner >> \in holds
     /\ \A e \in elements : << owner, e >> \in holds
  \/ /\ phase = "compile" /\ k = "type" /\ elements = {}
     /\ owner \in Nodes /\ kind[owner] = "field" /\ Member(owner)

\* The node under construction is the one that was announced.
Announced == Announcing(job.kind, job.owner, job.elements)
Constructing ==
  /\ clearing = "ctor" <=> job # NoJob
  /\ clearing = "ctor" => doc = "alive" /\ Announced

\* Who keeps the parser and the document.
Roots ==
  /\ doc = "alive" <=> << Main, Document >> \in holds
  /\ doc # "alive" => Of(Main) = {} /\ phase = "exit" /\ clearing # "ctor"
  /\ clearing = "dtor" => doc = "reset" /\ Of(Document) = {}
  /\ phase \in {"root", "mod1", "mod2", "begin", "parse"} => << Main, TheParser >> \in holds
  /\ Of(TheParser) # {} => << Main, TheParser >> \in holds
  /\ Of(TheParser) # {} \/ phase \notin {"compile", "exit"} => \A p \in holds : p[2] = TheParser => p[1] = Main

IInv ==
  /\ TypeOK /\ OwnedIsLive /\ LiveIsOwned /\ OwnersExist /\ WaitingOnce /\ Fresh
  /\ Shape /\ ModLocal /\ Constructing /\ Roots

-----------------------------------------------------------------------------
(* Sequences without repetition. *)

\* Two sequences that repeat nothing and share nothing, one after the other.
LEMMA ConcatOnce ==
  ASSUME NEW S, NEW s \in Seq(S), NEW t \in Seq(S)
  PROVE  /\ s \o t \in Seq(S)
         /\ ToSet(s \o t) = ToSet(s) \cup ToSet(t)
         /\ IsInjective(s) /\ IsInjective(t) /\ ToSet(s) \cap ToSet(t) = {} => IsInjective(s \o t)
<1>1. s \o t \in Seq(S)
  OBVIOUS
<1>2. ToSet(s \o t) \subseteq ToSet(s) \cup ToSet(t)
  BY DEF ToSet
<1>3. ToSet(s) \subseteq ToSet(s \o t)
  BY DEF ToSet
<1>4. ASSUME NEW j \in 1 .. Len(t)
      PROVE  t[j] = (s \o t)[Len(s) + j] /\ Len(s) + j \in DOMAIN (s \o t)
  OBVIOUS
<1>5. ASSUME NEW x \in ToSet(t)
      PROVE  x \in ToSet(s \o t)
  <2>1. PICK j \in 1 .. Len(t) : t[j] = x
    BY DEF ToSet
  <2> QED
    BY <2>1, <1>4 DEF ToSet
<1>6. ASSUME IsInjective(s), IsInjective(t), ToSet(s) \cap ToSet(t) = {},
             NEW i \in DOMAIN (s \o t), NEW j \in DOMAIN (s \o t), (s \o t)[i] = (s \o t)[j]
      PROVE  i = j
  <2>1. \A a \in DOMAIN s, b \in DOMAIN t : s[a] # t[b]
    BY <1>6 DEF ToSet
  <2>2. /\ \A a, b \in DOMAIN s : s[a] = s[b] => a = b
        /\ \A a, b \in DOMAIN t : t[a] = t[b] => a = b
    BY <1>6 DEF IsInjective
  <2> QED
    BY <2>1, <2>2, <1>6
<1> QED
  BY <1>1, <1>2, <1>3, <1>5, <1>6 DEF IsInjective

\* What is left of a sequence without repetition when its head is taken.
LEMMA TailOnce ==
  ASSUME NEW S, NEW s \in Seq(S), s # << >>, IsInjective(s)
  PROVE  /\ Head(s) \in S /\ Head(s) \in ToSet(s)
         /\ Tail(s) \in Seq(S) /\ IsInjective(Tail(s))
         /\ ToSet(Tail(s)) = ToSet(s) \ {Head(s)}
<1>1. /\ Head(s) \in S /\ Head(s) = s[1] /\ 1 \in DOMAIN s
      /\ Tail(s) \in Seq(S) /\ Len(Tail(s)) = Len(s) - 1
      /\ \A i \in 1 .. Len(Tail(s)) : Tail(s)[i] = s[i + 1]
  OBVIOUS
<1>2. \A a, b \in DOMAIN s : s[a] = s[b] => a = b
  BY DEF IsInjective
<1>3. IsInjective(Tail(s))
  BY <1>1, <1>2 DEF IsInjective
<1>4. ToSet(Tail(s)) \subseteq ToSet(s) \ {Head(s)}
  BY <1>1, <1>2 DEF ToSet
<1>5. ASSUME NEW x \in ToSet(s) \ {Head(s)}
      PROVE  x \in ToSet(Tail(s))
  <2>1. PICK i \in DOMAIN s : s[i] = x
    BY DEF ToSet
  <2>2. i - 1 \in DOMAIN Tail(s) /\ Tail(s)[i - 1] = x
    BY <2>1, <1>1
  <2> QED
    BY <2>2 DEF ToSet
<1> QED
  BY <1>1, <1>3, <1>4, <1>5 DEF ToSet

\* An enumeration of a finite set is a sequence that has each of it once.
LEMMA Enumeration ==
  ASSUME NEW S, IsFiniteSet(S), NEW s \in SetToSeqs(S)
  PROVE  s \in Seq(S) /\ IsInjective(s) /\ ToSet(s) = S
<1> DEFINE D == 1 .. Cardinality(S)
<1>1. Cardinality(S) \in Nat
  BY FS_CardinalityType
<1>2. s \in [D -> S] /\ \A i, j \in D : i # j => s[i] # s[j]
  BY DEF SetToSeqs
<1>3. s \in Seq(S) /\ DOMAIN s = D
  BY <1>1, <1>2
<1>4. IsInjective(s)
  BY <1>2, <1>3 DEF IsInjective
<1>5. ToSet(s) \subseteq S
  BY <1>2 DEF ToSet
<1>6. ASSUME NEW x \in S, x \notin ToSet(s)
      PROVE  FALSE
  <2>1. IsFiniteSet(S \ {x}) /\ Cardinality(S \ {x}) = Cardinality(S) - 1
    BY FS_RemoveElement
  <2>2. IsFiniteSet(D) /\ Cardinality(D) = Cardinality(S)
    <3>1. IsFiniteSet(D) /\ Cardinality(D) = IF 1 > Cardinality(S) THEN 0 ELSE Cardinality(S) - 1 + 1
      BY <1>1, FS_Interval
    <3> QED
      BY <3>1, <1>1
  <2>3. s \in [D -> S \ {x}]
    BY <1>2, <1>6, <1>3 DEF ToSet
  <2>4. Cardinality(S \ {x}) < Cardinality(D)
    BY <2>1, <2>2, <1>1
  <2>5. PICK i, j \in D : i # j /\ s[i] = s[j]
    <3> HIDE DEF D
    <3> QED
      BY <2>1, <2>2, <2>3, <2>4, FS_PigeonHole, Zenon
  <2> QED
    BY <2>5, <1>2
<1> QED
  BY <1>3, <1>4, <1>5, <1>6

-----------------------------------------------------------------------------
(* What Reset does to owners, nodes, the list and the document. *)

\* The number of nodes is finite, and the other objects are no nodes.
LEMMA ObjectsDiffer ==
  /\ IsFiniteSet(Nodes)
  /\ Main \notin Nodes /\ TheParser \notin Nodes /\ Document \notin Nodes /\ Null \notin Nodes
  /\ Main # TheParser /\ Main # Document /\ TheParser # Document
  /\ Null \notin {Main, TheParser, Document}
  /\ Objects = Nodes \cup {Main, TheParser, Document}
  /\ Nodes \subseteq Nat
<1>1. MaxNodes \in Nat
  BY MaxNodesAssumption
<1>2. IsFiniteSet(Nodes)
  BY <1>1, FS_Interval DEF Nodes
<1> QED
  BY <1>1, <1>2 DEF Nodes, Main, TheParser, Document, Null, Objects

\* The nodes st has alive and the owners h do not own.
Unowned(h, st) == {n \in Nodes : st[n] = "live" /\ ~Held(h, n)}

\* Only the parser lets go of more than is taken from it, and only when nothing
\* owns it; exactly the live nodes left without an owner are put on the list.
LEMMA ResetEffect ==
  ASSUME NEW h \in SUBSET (Objects \X Objects), NEW st \in [Nodes -> States], Reset(h, st)
  PROVE  /\ holds' \subseteq h
         /\ \A p \in h \ holds' : p[1] = TheParser
         /\ Held(h, TheParser) => holds' = h
         /\ ~Held(h, TheParser) => \A p \in holds' : p[1] # TheParser
         /\ state' = [n \in Nodes |-> IF n \in Unowned(holds', st) THEN "listed" ELSE st[n]]
         /\ \E s \in Seq(Nodes) : list' = s \o list /\ IsInjective(s) /\ ToSet(s) = Unowned(holds', st)
         /\ doc' = IF doc = "alive" /\ ~Held(holds', Document) THEN "reset" ELSE doc
<1>1. /\ holds' = IF Held(h, TheParser) THEN h ELSE {p \in h : p[1] # TheParser}
      /\ state' = [n \in Nodes |-> IF n \in Unowned(holds', st) THEN "listed" ELSE st[n]]
      /\ \E s \in SetToSeqs(Unowned(holds', st)) : list' = s \o list
      /\ doc' = IF doc = "alive" /\ ~Held(holds', Document) THEN "reset" ELSE doc
  BY Zenon DEF Reset, Unowned
<1>2. /\ holds' \subseteq h
      /\ \A p \in h \ holds' : p[1] = TheParser
      /\ Held(h, TheParser) => holds' = h
      /\ ~Held(h, TheParser) => \A p \in holds' : p[1] # TheParser
  BY <1>1
<1>3. IsFiniteSet(Unowned(holds', st))
  BY ObjectsDiffer, FS_Subset DEF Unowned
<1>4. \E s \in Seq(Nodes) : list' = s \o list /\ IsInjective(s) /\ ToSet(s) = Unowned(holds', st)
  <2>1. PICK s \in SetToSeqs(Unowned(holds', st)) : list' = s \o list
    BY <1>1
  <2>2. s \in Seq(Unowned(holds', st)) /\ IsInjective(s) /\ ToSet(s) = Unowned(holds', st)
    BY <1>3, Enumeration
  <2>3. s \in Seq(Nodes)
    BY <2>2 DEF Unowned
  <2> QED
    BY <2>1, <2>2, <2>3
<1> QED
  BY <1>1, <1>2, <1>4

\* When every node that the owners h own is live, and the nodes that wait are
\* on the detached list or the list, then the same is true after Reset.
LEMMA ResetKeeps ==
  ASSUME NEW h \in SUBSET (Objects \X Objects), NEW st \in [Nodes -> States], Reset(h, st),
         TypeOK, batch' \in Seq(Nodes),
         \A n \in Nodes : Held(h, n) => st[n] = "live",
         \A p \in h : p[1] \in Nodes => st[p[1]] \in {"live", "listed"},
         IsInjective(batch'), IsInjective(list), ToSet(batch') \cap ToSet(list) = {},
         \A n \in Nodes : st[n] = "listed" <=> n \in ToSet(batch') \cup ToSet(list)
  PROVE  /\ holds' \subseteq Objects \X Objects
         /\ state' \in [Nodes -> States]
         /\ list' \in Seq(Nodes)
         /\ doc' \in {"alive", "reset", "dead"}
         /\ OwnedIsLive' /\ LiveIsOwned' /\ OwnersExist' /\ WaitingOnce'
         /\ \A n \in Nodes : state'[n] = "absent" <=> st[n] = "absent"
<1>1. /\ holds' \subseteq h
      /\ state' = [n \in Nodes |-> IF n \in Unowned(holds', st) THEN "listed" ELSE st[n]]
      /\ doc' = IF doc = "alive" /\ ~Held(holds', Document) THEN "reset" ELSE doc
  BY ResetEffect
<1>2. PICK s \in Seq(Nodes) : list' = s \o list /\ IsInjective(s) /\ ToSet(s) = Unowned(holds', st)
  BY ResetEffect
<1>3. list \in Seq(Nodes) /\ doc \in {"alive", "reset", "dead"}
  BY DEF TypeOK
<1>4. ToSet(s) \cap ToSet(list) = {} /\ ToSet(s) \cap ToSet(batch') = {}
  BY <1>2 DEF Unowned
<1>5. list' \in Seq(Nodes) /\ ToSet(list') = Unowned(holds', st) \cup ToSet(list) /\ IsInjective(list')
  BY <1>2, <1>3, <1>4, ConcatOnce
<1>6. state' \in [Nodes -> States]
  BY <1>1 DEF States, Unowned
<1>7. OwnedIsLive'
  BY <1>1 DEF OwnedIsLive, Held, Unowned
<1>8. LiveIsOwned'
  BY <1>1 DEF LiveIsOwned, Unowned
<1>9. OwnersExist'
  BY <1>1 DEF OwnersExist, Unowned
<1>10. WaitingOnce'
  <2>1. \A n \in Nodes : state'[n] = "listed" <=> n \in ToSet(batch') \cup ToSet(list')
    BY <1>1, <1>5 DEF Unowned
  <2>2. ToSet(batch') \cap ToSet(list') = {}
    BY <1>2, <1>4, <1>5
  <2> QED
    BY <2>1, <2>2, <1>5 DEF WaitingOnce
<1>11. \A n \in Nodes : state'[n] = "absent" <=> st[n] = "absent"
  BY <1>1 DEF Unowned
<1>12. doc' \in {"alive", "reset", "dead"}
  BY <1>1, <1>3
<1> QED
  BY <1>1, <1>5, <1>6, <1>7, <1>8, <1>9, <1>10, <1>11, <1>12

-----------------------------------------------------------------------------
(* Every step keeps the invariant. *)

\* What any Reset keeps, whatever else the action does.
Kept ==
  /\ holds' \subseteq Objects \X Objects
  /\ state' \in [Nodes -> States]
  /\ list' \in Seq(Nodes)
  /\ doc' \in {"alive", "reset", "dead"}
  /\ OwnedIsLive' /\ LiveIsOwned' /\ OwnersExist' /\ WaitingOnce'

\* After Reset, the owners h remain, but for the parser's share if nothing owns
\* the parser; the document enters its destructor when nothing owns it.
Settled(h) ==
  /\ holds' \subseteq h
  /\ \A p \in h \ holds' : p[1] = TheParser
  /\ ~Held(h, TheParser) => \A p \in holds' : p[1] # TheParser
  /\ doc' = IF doc = "alive" /\ ~Held(holds', Document) THEN "reset" ELSE doc

\* Reset in the two parts in which the proofs of the steps use it.
LEMMA ResetParts ==
  ASSUME NEW h \in SUBSET (Objects \X Objects), NEW st \in [Nodes -> States], Reset(h, st),
         TypeOK, batch' \in Seq(Nodes),
         \A n \in Nodes : Held(h, n) => st[n] = "live",
         \A p \in h : p[1] \in Nodes => st[p[1]] \in {"live", "listed"},
         IsInjective(batch'), IsInjective(list), ToSet(batch') \cap ToSet(list) = {},
         \A n \in Nodes : st[n] = "listed" <=> n \in ToSet(batch') \cup ToSet(list)
  PROVE  Kept /\ Settled(h) /\ \A n \in Nodes : state'[n] = "absent" <=> st[n] = "absent"
<1>1. Settled(h)
  BY ResetEffect DEF Settled
<1> QED
  BY <1>1, ResetKeeps DEF Kept

\* Owners only go, and the nodes stay as they are.
LEMMA ResetFewer ==
  ASSUME IInv, NEW h, h \subseteq holds, Reset(h, state), UNCHANGED batch
  PROVE  Kept /\ Settled(h) /\ \A n \in Nodes : state'[n] = "absent" <=> state[n] = "absent"
<1>1. /\ h \in SUBSET (Objects \X Objects) /\ state \in [Nodes -> States]
      /\ batch' \in Seq(Nodes)
  BY DEF IInv, TypeOK, States
<1>2. /\ \A n \in Nodes : Held(h, n) => state[n] = "live"
      /\ \A p \in h : p[1] \in Nodes => state[p[1]] \in {"live", "listed"}
  BY DEF IInv, OwnedIsLive, OwnersExist, Held
<1>3. /\ IsInjective(batch') /\ IsInjective(list) /\ ToSet(batch') \cap ToSet(list) = {}
      /\ \A n \in Nodes : state[n] = "listed" <=> n \in ToSet(batch') \cup ToSet(list)
  BY DEF IInv, WaitingOnce
<1> QED
  BY <1>1, <1>2, <1>3, ResetParts DEF IInv

\* The parts of the invariant that say what Reset does not touch, for actions
\* that construct nothing and only take owners away from nodes.
LEMMA FewerOwners ==
  ASSUME IInv, NEW h, h \subseteq holds, Kept, Settled(h),
         \A n \in Nodes : state'[n] = "absent" <=> state[n] = "absent",
         UNCHANGED << kind, made, mod, job >>,
         clearing' = "ctor" => clearing = "ctor"
  PROVE  Shape' /\ Fresh'
<1>1. \A p \in holds' : p \in holds
  BY DEF Settled
<1>2. Shape'
  BY <1>1 DEF IInv, Shape, MayOwn
<1>3. Fresh'
  BY DEF IInv, Fresh
<1> QED
  BY <1>2, <1>3

\* Detaching the list.
LEMMA TakeListStep == IInv /\ TakeList => IInv'
<1> SUFFICES ASSUME IInv, TakeList
             PROVE  IInv'
  OBVIOUS
<1>1. /\ batch = << >> /\ batch' = list /\ list' = << >>
      /\ UNCHANGED << phase, state, kind, made, holds, mod, job, clearing, doc >>
  BY DEF TakeList
<1>2. ToSet(<< >>) = {} /\ IsInjective(<< >>)
  BY DEF ToSet, IsInjective
<1>3. TypeOK'
  BY <1>1 DEF IInv, TypeOK
<1>4. WaitingOnce'
  BY <1>1, <1>2 DEF IInv, WaitingOnce
<1> QED
  BY <1>1, <1>3, <1>4 DEF IInv, OwnedIsLive, LiveIsOwned, OwnersExist, Fresh, Shape, MayOwn,
                          ModLocal, Constructing, Announced, Announcing, Member, Roots, Of, Held

\* Destroying the node at the head of the detached list.
LEMMA DestroyHeadStep == IInv /\ DestroyHead => IInv'
<1> SUFFICES ASSUME IInv, DestroyHead
             PROVE  IInv'
  OBVIOUS
<1> DEFINE i == Head(batch)
           h == holds \ Of(i)
           st == [state EXCEPT ![i] = "destroyed"]
<1>1. /\ clearing # "no" /\ batch # << >> /\ batch' = Tail(batch) /\ Reset(h, st)
      /\ UNCHANGED << phase, kind, made, mod, job, clearing >>
  BY DEF DestroyHead
<1>2. /\ i \in Nodes /\ i \in ToSet(batch)
      /\ batch' \in Seq(Nodes) /\ IsInjective(batch') /\ ToSet(batch') = ToSet(batch) \ {i}
  BY <1>1, TailOnce DEF IInv, TypeOK, WaitingOnce
<1>3. state[i] = "listed" /\ i \notin ToSet(list)
  BY <1>2 DEF IInv, WaitingOnce
<1>4. Kept /\ Settled(h) /\ \A n \in Nodes : state'[n] = "absent" <=> state[n] = "absent"
  <2>1. h \in SUBSET (Objects \X Objects) /\ st \in [Nodes -> States]
    BY <1>2 DEF IInv, TypeOK, States
  <2>2. /\ \A n \in Nodes : Held(h, n) => st[n] = "live"
        /\ \A p \in h : p[1] \in Nodes => st[p[1]] \in {"live", "listed"}
    BY <1>3 DEF IInv, TypeOK, OwnedIsLive, OwnersExist, Held, Of
  <2>3. /\ IsInjective(list) /\ ToSet(batch') \cap ToSet(list) = {}
        /\ \A n \in Nodes : st[n] = "listed" <=> n \in ToSet(batch') \cup ToSet(list)
    BY <1>2, <1>3 DEF IInv, TypeOK, WaitingOnce
  <2> HIDE DEF h, st
  <2>4. Kept /\ Settled(h) /\ \A n \in Nodes : state'[n] = "absent" <=> st[n] = "absent"
    BY <1>1, <1>2, <2>1, <2>2, <2>3, ResetParts DEF IInv
  <2>5. \A n \in Nodes : st[n] = "absent" <=> state[n] = "absent"
    BY <1>2, <1>3 DEF st, IInv, TypeOK
  <2> QED
    BY <2>4, <2>5
<1>5. /\ \A p \in holds' : p \in holds
      /\ \A x : << Main, x >> \in holds => << Main, x >> \in holds'
      /\ \A n \in Nodes : \A x : n # i /\ << n, x >> \in holds => << n, x >> \in holds'
  BY <1>2, <1>4, ObjectsDiffer DEF Settled, Of
<1>6. TypeOK'
  BY <1>1, <1>2, <1>4 DEF IInv, TypeOK, Kept, States
<1>7. Shape' /\ Fresh'
  BY <1>1, <1>4, FewerOwners
<1>8. ModLocal'
  BY <1>1, <1>4, <1>5 DEF IInv, TypeOK, ModLocal
<1>9. Roots'
  <2>1. doc' = doc
    BY <1>4, <1>5 DEF IInv, Roots, Settled, Held
  <2> QED
    BY <2>1, <1>1, <1>5 DEF IInv, Roots, Of
<1>10. Constructing'
  <2>1. << Main, job.owner >> \in holds /\ job.owner \in Nodes => job.owner # i
    BY <1>3 DEF IInv, OwnedIsLive, Held
  <2>3. phase = "compile" /\ Member(job.owner) => Member(job.owner)'
    <3> SUFFICES ASSUME phase = "compile", Member(job.owner)
                 PROVE  Member(job.owner)'
      OBVIOUS
    <3>1. PICK d \in Nodes : << mod, d >> \in holds /\ << d, job.owner >> \in holds
      BY DEF Member
    <3>2. << Main, mod >> \in holds /\ mod \in Nodes
      BY ObjectsDiffer DEF IInv, TypeOK, ModLocal
    <3>3. mod # i /\ d # i
      <4>1. Held(holds, mod) /\ Held(holds, d)
        BY <3>1, <3>2 DEF Held
      <4> QED
        BY <4>1, <3>2, <1>3 DEF IInv, OwnedIsLive
    <3> QED
      BY <3>1, <3>2, <3>3, <1>1, <1>5 DEF Member
  <2>2. doc = "alive" => doc' = "alive"
    BY <1>4, <1>5 DEF IInv, Roots, Settled, Held
  <2> QED
    BY <2>1, <2>2, <2>3, <1>1, <1>5 DEF IInv, Constructing, Announced, Announcing
<1> QED
  BY <1>4, <1>6, <1>7, <1>8, <1>9, <1>10 DEF IInv, Kept

\* The owners that remain when the node under construction is given away.
Given ==
  LET own == {<< job.owner, made >>} \cup {<< made, e >> : e \in job.elements}
      root == IF phase = "root" THEN {<< Document, made >>} ELSE {}
      old == IF job.kind = "mod" THEN {<< Main, mod >>} ELSE Replaced
  IN (holds \ old) \cup own \cup root

\* Which owners those are: a type's owner gives up what it owned, mod is
\* assigned over, the node gets its owner and its elements, the root module the
\* document as well.
LEMMA GivenPairs ==
  ASSUME IInv, clearing = "ctor"
  PROVE  /\ Announced /\ made \in Nodes /\ state[made] = "absent" /\ doc = "alive"
         /\ << job.owner, made >> \in Given
         /\ \A p \in Given :
              \/ p \in holds
              \/ p = << job.owner, made >>
              \/ p = << Document, made >> /\ phase = "root"
              \/ p[1] = made /\ p[2] \in job.elements
         /\ \A e \in job.elements : << made, e >> \in Given
         /\ \A p \in holds : p \notin Given =>
              \/ job.kind = "mod" /\ p = << Main, mod >>
              \/ job.kind = "type" /\ p[1] = job.owner
<1>1. Announced /\ made \in Nodes /\ state[made] = "absent" /\ doc = "alive"
  BY DEF IInv, Constructing, Fresh
<1>2. job.kind = "type" \/ Replaced = {}
  BY <1>1 DEF Announced, Announcing, Replaced
<1>3. \A p \in Replaced : p[1] = job.owner
  BY DEF Replaced, Of
<1> QED
  BY <1>1, <1>2, <1>3 DEF Given

\* The node under construction is given to its owner.
LEMMA ConstructedStep == IInv /\ Constructed => IInv'
<1> SUFFICES ASSUME IInv, Constructed
             PROVE  IInv'
  OBVIOUS
<1> DEFINE st == [state EXCEPT ![made] = "live"]
<1>1. /\ clearing = "ctor" /\ Reset(Given, st)
      /\ kind' = [kind EXCEPT ![made] = job.kind]
      /\ mod' = IF job.kind = "mod" THEN made ELSE mod
      /\ phase' = CASE phase = "root" -> "mod1" [] phase = "mod1" -> "mod2"
                    [] phase = "mod2" -> "begin" [] OTHER -> phase
      /\ job' = NoJob /\ clearing' = "no"
      /\ UNCHANGED << made, batch >>
  BY Zenon DEF Constructed, Given
<1>2. Announced /\ made \in Nodes /\ state[made] = "absent" /\ doc = "alive"
  BY <1>1, GivenPairs
<1>3. \A e \in job.elements : << job.owner, e >> \in holds /\ e \in Nodes /\ state[e] = "live" /\ e # made
  BY <1>2 DEF Announced, Announcing, IInv, TypeOK, OwnedIsLive, Held
<1>4. job.owner \in Nodes => state[job.owner] = "live" /\ job.owner # made
  <2> SUFFICES ASSUME job.owner \in Nodes
               PROVE  state[job.owner] = "live"
    BY <1>2
  <2>1. << Main, job.owner >> \in holds \/ Member(job.owner)
    BY <1>2, ObjectsDiffer DEF Announced, Announcing
  <2>2. Held(holds, job.owner)
    BY <2>1 DEF Held, Member
  <2> QED
    BY <2>2 DEF IInv, OwnedIsLive
<1>5. Given \in SUBSET (Objects \X Objects)
  <2>1. job.owner \in Objects
    BY ObjectsDiffer DEF IInv, TypeOK
  <2>2. \A p \in Given : p \in Objects \X Objects
    BY <1>1, <1>2, <1>3, <2>1, ObjectsDiffer DEF Given, IInv, TypeOK
  <2> QED
    BY <2>2
<1>6. Kept /\ Settled(Given) /\ \A n \in Nodes : state'[n] = "absent" <=> st[n] = "absent"
  <2>1. /\ st \in [Nodes -> States] /\ batch' \in Seq(Nodes)
    BY <1>1 DEF IInv, TypeOK, States
  <2>2. \A n \in Nodes : Held(Given, n) => st[n] = "live"
    <3> SUFFICES ASSUME NEW p \in Given, p[2] \in Nodes
                 PROVE  st[p[2]] = "live"
      BY DEF Held
    <3>1. p \in holds \/ p[2] = made \/ p[2] \in job.elements
      BY <1>1, GivenPairs
    <3> QED
      BY <3>1, <1>2, <1>3 DEF IInv, TypeOK, OwnedIsLive, Held
  <2>3. \A p \in Given : p[1] \in Nodes => st[p[1]] \in {"live", "listed"}
    <3> SUFFICES ASSUME NEW p \in Given, p[1] \in Nodes
                 PROVE  st[p[1]] \in {"live", "listed"}
      OBVIOUS
    <3>1. p \in holds \/ p[1] = job.owner \/ p[1] = made
      BY <1>1, GivenPairs, ObjectsDiffer
    <3> QED
      BY <3>1, <1>2, <1>4 DEF IInv, TypeOK, OwnersExist
  <2>4. /\ IsInjective(batch') /\ IsInjective(list) /\ ToSet(batch') \cap ToSet(list) = {}
        /\ \A n \in Nodes : st[n] = "listed" <=> n \in ToSet(batch') \cup ToSet(list)
    BY <1>1, <1>2 DEF IInv, TypeOK, WaitingOnce
  <2> HIDE DEF st
  <2> QED
    BY <1>1, <1>5, <2>1, <2>2, <2>3, <2>4, ResetParts DEF IInv
<1>7. \A n \in Nodes : n # made /\ state[n] = "absent" <=> state'[n] = "absent"
  BY <1>6, <1>2 DEF IInv, TypeOK
<1>8. /\ \A p \in holds' : p \in Given
      /\ \A p \in Given : p[1] # TheParser => p \in holds'
      /\ \A p \in Given : p[1] = Main => p \in holds'
  BY <1>6, ObjectsDiffer DEF Settled
<1>9. << job.owner, made >> \in holds'
  BY <1>8, <1>1, GivenPairs, ObjectsDiffer DEF IInv, TypeOK
<1>10. TypeOK'
  <2>1. phase' \in {"parser", "root", "mod1", "mod2", "begin", "parse", "compile", "exit"}
    BY <1>1 DEF IInv, TypeOK
  <2>2. kind' \in [Nodes -> {"none", "root", "mod", "decl", "field", "type"}]
    BY <1>1 DEF IInv, TypeOK
  <2>3. made' \in 0 .. MaxNodes /\ mod' \in Nodes \cup {Null} /\ batch' \in Seq(Nodes)
    BY <1>1, <1>2 DEF IInv, TypeOK
  <2>4. job' \in [ kind : {"none", "root", "mod", "decl", "field", "type"},
                   owner : Nodes \cup {Main}, elements : SUBSET Nodes ]
    BY <1>1 DEF NoJob
  <2> QED
    BY <2>1, <2>2, <2>3, <2>4, <1>1, <1>6 DEF TypeOK, Kept, States
<1>11. Fresh'
  BY <1>1, <1>2, <1>7, ObjectsDiffer DEF IInv, Fresh
<1>12. Shape'
  <2> SUFFICES ASSUME NEW p \in holds'
               PROVE  /\ p[1] \in Nodes => MayOwn(p[1], p[2])'
                      /\ p[2] = Document => p[1] \in {Main, TheParser}
    BY DEF Shape, MayOwn
  <2>1. CASE p \in holds
    <3>1. /\ p[1] \in Nodes => p[1] # made /\ MayOwn(p[1], p[2])
          /\ p[2] \in Nodes => p[2] # made
          /\ p[2] = Document => p[1] \in {Main, TheParser}
      BY <2>1, <1>2 DEF IInv, OwnersExist, OwnedIsLive, Held, Shape
    <3>2. \A n \in Nodes : n # made => kind'[n] = kind[n]
      BY <1>1 DEF IInv, TypeOK
    <3> QED
      BY <3>1, <3>2 DEF MayOwn
  <2>2. CASE p = << job.owner, made >>
    <3>1. p[1] \in Nodes => kind'[p[1]] = "field" /\ kind'[made] = "type"
      BY <2>2, <1>1, <1>2, <1>4, ObjectsDiffer DEF Announced, Announcing, IInv, TypeOK
    <3> QED
      BY <2>2, <3>1, <1>2, ObjectsDiffer DEF MayOwn
  <2>3. CASE p = << Document, made >>
    BY <2>3, <1>2, ObjectsDiffer
  <2>4. CASE p[1] = made /\ p[2] \in job.elements
    <3>1. job.kind = "type" /\ job.owner \in Nodes /\ kind[job.owner] = "field"
      BY <2>4, <1>2 DEF Announced, Announcing
    <3>2. p[2] \in Nodes /\ kind[p[2]] = "type" /\ p[2] # made
      BY <2>4, <3>1, <1>3, ObjectsDiffer DEF IInv, Shape, MayOwn
    <3>3. p[2] < made
      <4>1. state[p[2]] = "live"
        BY <2>4, <1>3
      <4>2. ~(p[2] > made)
        BY <4>1, <3>2 DEF IInv, Fresh
      <4>3. p[2] \in Nat /\ made \in Nat
        BY <3>2, <1>2, ObjectsDiffer
      <4> QED
        BY <4>2, <4>3, <3>2
    <3> QED
      BY <2>4, <3>1, <3>2, <3>3, <1>1, <1>2, ObjectsDiffer DEF MayOwn, IInv, TypeOK
  <2> QED
    BY <2>1, <2>2, <2>3, <2>4, <1>1, <1>8, GivenPairs
<1>13. ModLocal'
  <2>1. job.kind = "mod" => mod' = made /\ kind'[made] = "mod" /\ state'[made] # "absent" /\ << Main, made >> \in holds'
    <3>1. kind'[made] = job.kind /\ state'[made] # "absent"
      BY <1>1, <1>2, <1>7 DEF IInv, TypeOK
    <3>2. job.kind = "mod" => job.owner = Main
      BY <1>2 DEF Announced, Announcing
    <3> QED
      BY <3>1, <3>2, <1>1, <1>9
  <2>2. job.kind # "mod" => mod' = mod /\ phase' # "begin"
    BY <1>1, <1>2 DEF Announced, Announcing
  <2>3. mod # Null => mod # made /\ kind'[mod] = "mod" /\ state'[mod] # "absent"
    BY <1>1, <1>2, <1>7 DEF IInv, TypeOK, ModLocal
  <2>4. job.kind # "mod" /\ phase' \in {"parse", "compile"} => << Main, mod >> \in holds'
    <3>1. job.kind # "mod" /\ phase' \in {"parse", "compile"} => << Main, mod >> \in holds
      BY <1>1, <1>2 DEF Announced, Announcing, IInv, ModLocal
    <3>2. job.kind = "type" => job.owner # Main
      BY <1>2, ObjectsDiffer DEF Announced, Announcing
    <3> QED
      BY <3>1, <3>2, <1>1, <1>8, GivenPairs
  <2>5. job.kind = "mod" => phase' \notin {"parse", "compile"}
    BY <1>1, <1>2 DEF Announced, Announcing
  <2> QED
    BY <2>1, <2>2, <2>3, <2>4, <2>5 DEF ModLocal
<1>14. Constructing'
  BY <1>1 DEF Constructing, NoJob
<1>15. Roots'
  <2>1. \A x \in {TheParser, Document} : << Main, x >> \in holds <=> << Main, x >> \in holds'
    <3>1. \A x \in {TheParser, Document} : << Main, x >> \in holds => << Main, x >> \in Given
      <4>1. job.kind = "type" => job.owner # Main
        BY <1>2, ObjectsDiffer DEF Announced, Announcing
      <4> QED
        <5> SUFFICES ASSUME NEW x \in {TheParser, Document}, << Main, x >> \in holds
                     PROVE  << Main, x >> \in Given
          OBVIOUS
        <5>1. << Main, x >> # << Main, mod >>
          BY ObjectsDiffer DEF IInv, TypeOK
        <5> QED
          BY <5>1, <4>1, <1>1, GivenPairs
    <3>2. \A x \in {TheParser, Document} : << Main, x >> \in Given => << Main, x >> \in holds
      BY <1>1, <1>2, GivenPairs, ObjectsDiffer
    <3> QED
      BY <3>1, <3>2, <1>8
  <2>2. doc' = "alive"
    BY <2>1, <1>2, <1>6 DEF IInv, Roots, Settled, Held
  <2>3. \A p \in holds' : p[1] = TheParser \/ p[2] = TheParser => p \in holds
    <3>1. job.owner # TheParser /\ made # TheParser /\ Document # TheParser
      BY <1>2, ObjectsDiffer DEF IInv, TypeOK
    <3>2. \A e \in job.elements : e # TheParser
      BY <1>3, ObjectsDiffer
    <3> QED
      BY <3>1, <3>2, <1>1, <1>8, GivenPairs
  <2> QED
    BY <2>1, <2>2, <2>3, <1>1, <1>2 DEF IInv, Roots, Of
<1> QED
  BY <1>6, <1>10, <1>11, <1>12, <1>13, <1>14, <1>15 DEF IInv, Kept

\* Nothing was constructed.
LEMMA NotConstructedStep == IInv /\ NotConstructed => IInv'
<1> SUFFICES ASSUME IInv, NotConstructed
             PROVE  IInv'
  OBVIOUS
<1> DEFINE h == holds \ Replaced
<1>1. /\ clearing = "ctor" /\ Reset(h, state)
      /\ phase' = CASE phase \in {"root", "mod2", "compile"} -> "exit" [] phase = "mod1" -> "mod2"
                    [] OTHER -> phase
      /\ job' = NoJob /\ clearing' = "no"
      /\ UNCHANGED << kind, made, mod, batch >>
  BY Zenon DEF NotConstructed
<1>2. Announced /\ doc = "alive"
  BY <1>1, GivenPairs
<1>3. Kept /\ Settled(h) /\ \A n \in Nodes : state'[n] = "absent" <=> state[n] = "absent"
  BY <1>1, ResetFewer
<1>4. /\ \A p \in holds' : p \in holds
      /\ \A p \in holds : p[1] = Main => p \in holds'
  BY <1>2, <1>3, ObjectsDiffer DEF Settled, Replaced, Of, Announced, Announcing
<1>5. TypeOK'
  BY <1>1, <1>3 DEF IInv, TypeOK, Kept, States, NoJob
<1>6. Shape' /\ Fresh'
  BY <1>1, <1>3, <1>4 DEF IInv, Shape, MayOwn, Fresh
<1>7. ModLocal'
  BY <1>1, <1>2, <1>3, <1>4 DEF IInv, TypeOK, ModLocal, Announced, Announcing
<1>8. Constructing'
  BY <1>1 DEF Constructing, NoJob
<1>9. Roots'
  <2>1. doc' = "alive" /\ << Main, Document >> \in holds'
    BY <1>2, <1>3, <1>4 DEF IInv, Roots, Settled, Held
  <2> QED
    BY <2>1, <1>1, <1>2, <1>4 DEF IInv, Roots, Of, Announced, Announcing
<1> QED
  BY <1>3, <1>5, <1>6, <1>7, <1>8, <1>9 DEF IInv, Kept

\* main makes its parser.
LEMMA MakeParserStep == IInv /\ MakeParser => IInv'
<1> SUFFICES ASSUME IInv, MakeParser
             PROVE  IInv'
  OBVIOUS
<1>1. /\ phase = "parser" /\ UNCHANGED << state, kind, made, mod, job, clearing, list, batch, doc >>
      /\ \/ /\ holds' = holds \cup {<< Main, TheParser >>, << TheParser, Document >>}
            /\ phase' = "root"
         \/ phase' = "exit" /\ UNCHANGED holds
  BY DEF MakeParser
<1>2. doc = "alive" /\ clearing # "ctor"
  BY <1>1 DEF IInv, Roots, Constructing, Announced, Announcing
<1>3. /\ \A p \in holds : p \in holds'
      /\ \A p \in holds' : p \in holds \/ p = << Main, TheParser >> \/ p = << TheParser, Document >>
  BY <1>1
<1>4. \A n \in Nodes : Held(holds', n) <=> Held(holds, n)
  BY <1>3, ObjectsDiffer DEF Held
<1>5. TypeOK'
  BY <1>1, ObjectsDiffer DEF IInv, TypeOK
<1>6. OwnedIsLive' /\ LiveIsOwned' /\ OwnersExist' /\ WaitingOnce' /\ Fresh'
  BY <1>1, <1>3, <1>4, ObjectsDiffer DEF IInv, OwnedIsLive, LiveIsOwned, OwnersExist, WaitingOnce, Fresh
<1>7. Shape' /\ ModLocal' /\ Constructing'
  BY <1>1, <1>2, <1>3, ObjectsDiffer DEF IInv, Shape, MayOwn, ModLocal, Constructing, Announced, Announcing
<1>8. Roots'
  BY <1>1, <1>2, <1>3, ObjectsDiffer DEF IInv, Roots, Of
<1> QED
  BY <1>5, <1>6, <1>7, <1>8 DEF IInv

\* The actions that only announce a node: main's modules and the parser's nodes.
LEMMA ConstructStep ==
  ASSUME IInv, NEW k, NEW owner, NEW elements, Construct(k, owner, elements),
         UNCHANGED << phase, state, kind, holds, mod, list, batch, doc >>,
         k \in {"root", "mod", "decl", "field", "type"}, owner \in Nodes \cup {Main},
         elements \subseteq Nodes,
         Announcing(k, owner, elements)
  PROVE  IInv'
<1>1. /\ doc = "alive" /\ made < MaxNodes /\ made' = made + 1
      /\ job' = [kind |-> k, owner |-> owner, elements |-> elements] /\ clearing' = "ctor"
  BY DEF Construct, Idle
<1>2. made \in 0 .. MaxNodes /\ MaxNodes \in Nat
  BY MaxNodesAssumption DEF IInv, TypeOK
<1>3. made' \in Nodes /\ made' > made
  BY <1>1, <1>2 DEF Nodes
<1>4. TypeOK'
  BY <1>1, <1>3, <1>2 DEF IInv, TypeOK, Nodes
<1>5. Fresh'
  <2>1. \A n \in Nodes : n > made' => n > made
    BY <1>1, <1>2 DEF Nodes
  <2> QED
    BY <2>1, <1>3 DEF IInv, Fresh
<1>6. Constructing'
  <2>1. job' # NoJob /\ NoJob' = NoJob
    BY <1>1 DEF NoJob
  <2>2. job'.kind = k /\ job'.owner = owner /\ job'.elements = elements
    BY <1>1
  <2>3. phase' = phase /\ kind' = kind /\ holds' = holds /\ doc' = doc
    OBVIOUS
  <2> QED
    BY <2>1, <2>2, <2>3, <1>1 DEF Constructing, Announced, Announcing, Member
<1>7. OwnedIsLive' /\ LiveIsOwned' /\ OwnersExist' /\ WaitingOnce'
  BY DEF IInv, OwnedIsLive, LiveIsOwned, OwnersExist, WaitingOnce, Held
<1>8. Shape' /\ ModLocal'
  BY DEF IInv, Shape, MayOwn, ModLocal
<1>9. Roots'
  BY <1>1 DEF IInv, Roots, Of
<1> QED
  BY <1>4, <1>5, <1>6, <1>7, <1>8, <1>9 DEF IInv

\* main announces the root module and its two modules.
LEMMA MakeModulesStep == IInv /\ MakeModules => IInv'
<1> SUFFICES ASSUME IInv, MakeModules
             PROVE  IInv'
  OBVIOUS
<1>1. UNCHANGED << phase, state, kind, holds, mod, list, batch, doc >>
  BY DEF MakeModules
<1>2. CASE phase = "root" /\ Construct("root", Main, {})
  <2>1. Announcing("root", Main, {})
    BY <1>2 DEF Announcing
  <2> QED
    BY <1>1, <1>2, <2>1, ConstructStep
<1>3. CASE phase \in {"mod1", "mod2"} /\ Construct("mod", Main, {})
  <2>1. "mod" \in {"root", "mod", "decl", "field", "type"} /\ Main \in Nodes \cup {Main} /\ {} \subseteq Nodes
    OBVIOUS
  <2>2. Announcing("mod", Main, {})
    BY <1>3 DEF Announcing
  <2> QED
    BY <1>1, <1>3, <2>1, <2>2, ConstructStep
<1> QED
  BY <1>2, <1>3 DEF MakeModules

\* The parser announces a declaration, a field or a type.
LEMMA MakeNodeStep == IInv /\ MakeNode => IInv'
<1> SUFFICES ASSUME IInv, MakeNode
             PROVE  IInv'
  OBVIOUS
<1>0. phase = "parse" /\ UNCHANGED << phase, state, kind, holds, mod, list, batch, doc >>
  BY DEF MakeNode, Parsing
<1>1. CASE \E f \in Locals("field") : Construct("type", f, Elements(f))
  <2>1. PICK f \in Locals("field") : Construct("type", f, Elements(f))
    BY <1>1
  <2>2. f \in Nodes /\ << Main, f >> \in holds /\ kind[f] = "field"
    BY DEF Locals
  <2>3. ASSUME NEW e \in Elements(f)
        PROVE  << f, e >> \in holds
    <3>1. PICK p \in holds : p[1] = f /\ p[2] = e
      BY DEF Elements, Of
    <3>2. p = << f, e >>
      BY <3>1 DEF IInv, TypeOK
    <3> QED
      BY <3>1, <3>2
  <2>4. \A e \in Elements(f) : MayOwn(f, e)
    BY <2>2, <2>3 DEF IInv, Shape
  <2>5. Elements(f) \subseteq Nodes
    BY <2>2, <2>4 DEF MayOwn
  <2>6. Announcing("type", f, Elements(f))
    BY <1>0, <2>2, <2>3 DEF Announcing
  <2> HIDE DEF Elements
  <2> QED
    BY <2>1, <2>2, <2>5, <2>6, <1>0, ConstructStep
<1>2. CASE Construct("decl", Main, {})
  <2>1. "decl" \in {"root", "mod", "decl", "field", "type"} /\ Main \in Nodes \cup {Main} /\ {} \subseteq Nodes
    OBVIOUS
  <2>2. Announcing("decl", Main, {})
    BY <1>0 DEF Announcing
  <2> QED
    BY <1>2, <1>0, <2>1, <2>2, ConstructStep
<1>3. CASE Construct("field", Main, {})
  <2>1. "field" \in {"root", "mod", "decl", "field", "type"} /\ Main \in Nodes \cup {Main} /\ {} \subseteq Nodes
    OBVIOUS
  <2>2. Announcing("field", Main, {})
    BY <1>0 DEF Announcing
  <2> QED
    BY <1>3, <1>0, <2>1, <2>2, ConstructStep
<1> QED
  BY <1>1, <1>2, <1>3 DEF MakeNode

\* The parser takes over the module.
LEMMA BeginParseStep == IInv /\ BeginParse => IInv'
<1> SUFFICES ASSUME IInv, BeginParse
             PROVE  IInv'
  OBVIOUS
<1>1. /\ phase = "begin" /\ phase' = "parse" /\ holds' = holds \cup {<< TheParser, mod >>}
      /\ UNCHANGED << state, kind, made, mod, job, clearing, list, batch, doc >>
  BY DEF BeginParse
<1>2. << Main, mod >> \in holds /\ << Main, TheParser >> \in holds /\ clearing # "ctor"
  BY <1>1 DEF IInv, ModLocal, Roots, Constructing, Announced, Announcing
<1>3. mod \in Nodes
  BY <1>2, ObjectsDiffer DEF IInv, TypeOK
<1>4. \A x : Held(holds', x) <=> Held(holds, x)
  BY <1>1, <1>2 DEF Held
<1>5. TypeOK'
  BY <1>1, <1>3, ObjectsDiffer DEF IInv, TypeOK
<1>6. OwnedIsLive' /\ LiveIsOwned' /\ OwnersExist' /\ WaitingOnce' /\ Fresh'
  <2>1. \A p \in holds' : p \in holds \/ p[1] = TheParser
    BY <1>1
  <2>2. OwnersExist'
    BY <2>1, <1>1, ObjectsDiffer DEF IInv, OwnersExist
  <2>3. OwnedIsLive' /\ LiveIsOwned'
    BY <1>1, <1>4 DEF IInv, OwnedIsLive, LiveIsOwned
  <2> QED
    BY <2>2, <2>3, <1>1 DEF IInv, WaitingOnce, Fresh
<1>7. Shape' /\ ModLocal' /\ Constructing'
  BY <1>1, <1>2, <1>3, ObjectsDiffer DEF IInv, Shape, MayOwn, ModLocal, Constructing, Announced, Announcing
<1>8. Roots'
  <2>1. doc = "alive"
    BY <1>1 DEF IInv, Roots
  <2> QED
    BY <2>1, <1>1, <1>2, <1>3, ObjectsDiffer DEF IInv, Roots, Of
<1> QED
  BY <1>5, <1>6, <1>7, <1>8 DEF IInv

\* push_member: a local is given to the module or to a declaration.
LEMMA AdoptStep == IInv /\ Adopt => IInv'
<1> SUFFICES ASSUME IInv, Adopt
             PROVE  IInv'
  OBVIOUS
<1>1. /\ phase = "parse" /\ clearing = "no" /\ doc = "alive"
      /\ UNCHANGED << phase, state, kind, made, mod, job, clearing, list, batch, doc >>
  BY DEF Adopt, Parsing, Idle
<1>2. << Main, mod >> \in holds /\ mod \in Nodes /\ kind[mod] = "mod"
  BY <1>1, ObjectsDiffer DEF IInv, TypeOK, ModLocal
<1>3. PICK o \in Nodes, x \in Nodes :
        /\ holds' = holds \cup {<< o, x >>} /\ MayOwn(o, x)
        /\ << Main, o >> \in holds /\ << Main, x >> \in holds
  BY <1>2 DEF Adopt, Locals, MayOwn
<1>4. \A y : Held(holds', y) <=> Held(holds, y)
  BY <1>3 DEF Held
<1>5. TypeOK'
  BY <1>1, <1>3, ObjectsDiffer DEF IInv, TypeOK
<1>6. OwnersExist'
  <2>1. state[o] = "live"
    BY <1>3 DEF IInv, OwnedIsLive, Held
  <2> QED
    BY <2>1, <1>1, <1>3 DEF IInv, OwnersExist
<1>7. OwnedIsLive' /\ LiveIsOwned' /\ WaitingOnce' /\ Fresh'
  BY <1>1, <1>4 DEF IInv, OwnedIsLive, LiveIsOwned, WaitingOnce, Fresh
<1>8. Shape' /\ ModLocal' /\ Constructing'
  BY <1>1, <1>3, ObjectsDiffer DEF IInv, Shape, MayOwn, ModLocal, Constructing, Announced, Announcing
<1>9. Roots'
  BY <1>1, <1>3, ObjectsDiffer DEF IInv, Roots, Of
<1> QED
  BY <1>5, <1>6, <1>7, <1>8, <1>9 DEF IInv

\* A local of the parser goes out of scope.
LEMMA DropStep == IInv /\ Drop => IInv'
<1> SUFFICES ASSUME IInv, Drop
             PROVE  IInv'
  OBVIOUS
<1>1. /\ phase = "parse" /\ clearing = "no" /\ doc = "alive"
      /\ UNCHANGED << phase, kind, made, mod, job, clearing, batch >>
  BY DEF Drop, Parsing, Idle
<1>2. PICK n \in Locals("field") \cup Locals("decl") : Reset(holds \ {<< Main, n >>}, state)
  BY DEF Drop
<1>3. n \in Nodes /\ kind[n] \in {"field", "decl"}
  BY DEF Locals
<1> DEFINE h == holds \ {<< Main, n >>}
<1>4. Kept /\ Settled(h) /\ \A m \in Nodes : state'[m] = "absent" <=> state[m] = "absent"
  BY <1>1, <1>2, ResetFewer
<1>5. /\ \A p \in holds' : p \in holds
      /\ \A x : x # n /\ << Main, x >> \in holds => << Main, x >> \in holds'
  BY <1>4, ObjectsDiffer DEF Settled
<1>6. TypeOK'
  BY <1>1, <1>4 DEF IInv, TypeOK, Kept, States
<1>7. Shape' /\ Fresh'
  BY <1>1, <1>4, FewerOwners
<1>8. ModLocal'
  <2>1. mod # n
    BY <1>1, <1>3, ObjectsDiffer DEF IInv, TypeOK, ModLocal
  <2> QED
    BY <2>1, <1>1, <1>4, <1>5 DEF IInv, TypeOK, ModLocal
<1>9. Constructing'
  BY <1>1 DEF IInv, Constructing
<1>10. Roots'
  <2>1. << Main, Document >> \in holds' /\ << Main, TheParser >> \in holds'
    BY <1>1, <1>3, <1>5, ObjectsDiffer DEF IInv, Roots
  <2>2. doc' = "alive"
    BY <2>1, <1>1, <1>4 DEF Settled, Held
  <2> QED
    BY <2>1, <2>2, <1>1, <1>5 DEF IInv, Roots, Of
<1> QED
  BY <1>4, <1>6, <1>7, <1>8, <1>9, <1>10 DEF IInv, Kept

\* parse_program returns an error, and main goes on to compile.
LEMMA InterruptedStep == IInv /\ Interrupted => IInv'
<1> SUFFICES ASSUME IInv, Interrupted
             PROVE  IInv'
  OBVIOUS
<1>1. /\ phase = "parse" /\ phase' = "compile" /\ clearing = "no" /\ doc = "alive"
      /\ UNCHANGED << state, kind, made, holds, mod, job, clearing, list, batch, doc >>
  BY DEF Interrupted, Parsing, Idle
<1> QED
  BY <1>1 DEF IInv, TypeOK, OwnedIsLive, LiveIsOwned, OwnersExist, WaitingOnce, Fresh, Shape, MayOwn,
              ModLocal, Constructing, Announced, Announcing, Member, Roots, Of, Held

\* The compiler announces the value of an enum item.
LEMMA FillEnumStep == IInv /\ FillEnum => IInv'
<1> SUFFICES ASSUME IInv, FillEnum
             PROVE  IInv'
  OBVIOUS
<1>1. phase = "compile" /\ UNCHANGED << phase, state, kind, holds, mod, list, batch, doc >>
  BY DEF FillEnum
<1>2. PICK f \in Nodes : Member(f) /\ Construct("type", f, {})
  BY DEF FillEnum
<1>3. kind[f] = "field"
  <2>1. PICK d \in Nodes : << mod, d >> \in holds /\ << d, f >> \in holds
    BY <1>2 DEF Member
  <2>2. mod \in Nodes /\ kind[mod] = "mod"
    BY <1>1, ObjectsDiffer DEF IInv, TypeOK, ModLocal
  <2>3. kind[d] = "decl"
    BY <2>1, <2>2, ObjectsDiffer DEF IInv, Shape, MayOwn
  <2> QED
    BY <2>1, <2>3, ObjectsDiffer DEF IInv, Shape, MayOwn
<1>4. Announcing("type", f, {})
  BY <1>1, <1>2, <1>3 DEF Announcing
<1> QED
  BY <1>1, <1>2, <1>4, ConstructStep

\* compile returns.
LEMMA CompiledStep == IInv /\ Compiled => IInv'
<1> SUFFICES ASSUME IInv, Compiled
             PROVE  IInv'
  OBVIOUS
<1>1. /\ phase = "compile" /\ phase' = "exit" /\ clearing = "no" /\ doc = "alive"
      /\ UNCHANGED << state, kind, made, holds, mod, job, clearing, list, batch, doc >>
  BY DEF Compiled, Idle
<1> QED
  BY <1>1 DEF IInv, TypeOK, OwnedIsLive, LiveIsOwned, OwnersExist, WaitingOnce, Fresh, Shape, MayOwn,
              ModLocal, Constructing, Announced, Announcing, Member, Roots, Of, Held

\* set_parser: the module takes the parser over, which lets go of the rest.
LEMMA SetParserStep == IInv /\ SetParser => IInv'
<1> SUFFICES ASSUME IInv, SetParser
             PROVE  IInv'
  OBVIOUS
<1> DEFINE h == (holds \ Of(TheParser)) \cup {<< mod, TheParser >>}
<1>1. /\ phase = "parse" /\ phase' = "compile" /\ clearing = "no" /\ doc = "alive" /\ job = NoJob
      /\ Reset(h, state)
      /\ UNCHANGED << kind, made, mod, job, clearing, batch >>
  BY DEF SetParser, Parsing, Idle
<1>2. << Main, mod >> \in holds /\ mod \in Nodes /\ kind[mod] = "mod" /\ state[mod] = "live"
  <2>1. << Main, mod >> \in holds /\ mod \in Nodes /\ kind[mod] = "mod"
    BY <1>1, ObjectsDiffer DEF IInv, TypeOK, ModLocal
  <2>2. Held(holds, mod)
    BY <2>1 DEF Held
  <2> QED
    BY <2>1, <2>2 DEF IInv, OwnedIsLive
<1>3. \A p \in h : p = << mod, TheParser >> \/ (p \in holds /\ p[1] # TheParser)
  BY DEF Of
<1>4. Kept /\ Settled(h) /\ \A n \in Nodes : state'[n] = "absent" <=> state[n] = "absent"
  <2>1. h \in SUBSET (Objects \X Objects) /\ state \in [Nodes -> States] /\ batch' \in Seq(Nodes)
    BY <1>1, <1>2, ObjectsDiffer DEF IInv, TypeOK, States
  <2>2. \A n \in Nodes : Held(h, n) => state[n] = "live"
    <3>1. \A n \in Nodes : Held(h, n) => Held(holds, n)
      BY <1>3, ObjectsDiffer DEF Held
    <3> QED
      BY <3>1 DEF IInv, OwnedIsLive
  <2>3. \A p \in h : p[1] \in Nodes => state[p[1]] \in {"live", "listed"}
    BY <1>2, <1>3 DEF IInv, OwnersExist
  <2>4. /\ IsInjective(batch') /\ IsInjective(list) /\ ToSet(batch') \cap ToSet(list) = {}
        /\ \A n \in Nodes : state[n] = "listed" <=> n \in ToSet(batch') \cup ToSet(list)
    BY <1>1 DEF IInv, WaitingOnce
  <2> HIDE DEF h
  <2> QED
    BY <1>1, <2>1, <2>2, <2>3, <2>4, ResetParts DEF IInv
<1>5. /\ \A p \in holds' : p = << mod, TheParser >> \/ (p \in holds /\ p[1] # TheParser)
      /\ \A x : << Main, x >> \in holds => << Main, x >> \in holds'
  BY <1>3, <1>4, ObjectsDiffer DEF Settled, Of
<1>6. TypeOK'
  BY <1>1, <1>4 DEF IInv, TypeOK, Kept, States
<1>7. Shape'
  BY <1>1, <1>2, <1>5, ObjectsDiffer DEF IInv, Shape, MayOwn
<1>8. Fresh' /\ ModLocal' /\ Constructing'
  BY <1>1, <1>2, <1>4, <1>5 DEF IInv, TypeOK, Fresh, ModLocal, Constructing, NoJob
<1>9. Roots'
  <2>1. << Main, Document >> \in holds'
    BY <1>1, <1>5 DEF IInv, Roots
  <2>2. doc' = "alive"
    BY <2>1, <1>1, <1>4 DEF Settled, Held
  <2>3. \A p \in holds' : p[1] # TheParser
    BY <1>2, <1>5, ObjectsDiffer
  <2> QED
    BY <2>1, <2>2, <2>3, <1>1 DEF Roots, Of
<1> QED
  BY <1>4, <1>6, <1>7, <1>8, <1>9 DEF IInv, Kept

\* A local of main goes out of scope, the document last.
LEMMA ExitStep == IInv /\ Exit => IInv'
<1> SUFFICES ASSUME IInv, Exit
             PROVE  IInv'
  OBVIOUS
<1>1. /\ phase = "exit" /\ clearing = "no" /\ doc = "alive" /\ job = NoJob
      /\ UNCHANGED << phase, kind, made, mod, job, clearing, batch >>
  BY DEF Exit, Idle
<1>2. PICK x \in Objects :
        /\ << Main, x >> \in holds /\ Reset(holds \ {<< Main, x >>}, state)
        /\ x = Document => \A o \in Objects : o # Document => << Main, o >> \notin holds
  BY ObjectsDiffer DEF Exit, IInv, TypeOK
<1> DEFINE h == holds \ {<< Main, x >>}
<1>3. Kept /\ Settled(h) /\ \A m \in Nodes : state'[m] = "absent" <=> state[m] = "absent"
  BY <1>1, <1>2, ResetFewer
<1>4. /\ \A p \in holds' : p \in holds /\ p # << Main, x >>
      /\ \A y : y # x /\ << Main, y >> \in holds => << Main, y >> \in holds'
  BY <1>3, ObjectsDiffer DEF Settled
<1>5. TypeOK'
  BY <1>1, <1>3 DEF IInv, TypeOK, Kept, States
<1>6. Shape' /\ Fresh'
  BY <1>1, <1>3, FewerOwners
<1>7. ModLocal' /\ Constructing'
  BY <1>1, <1>3 DEF IInv, TypeOK, ModLocal, Constructing, NoJob
<1>8. Roots'
  <2>1. Of(TheParser)' # {} => Of(TheParser) # {}
    BY <1>4 DEF Of
  <2>2. Of(TheParser)' # {} => << Main, TheParser >> \in holds'
    <3>1. CASE x = TheParser
      <4>1. Of(TheParser) # {} => ~Held(h, TheParser)
        BY <3>1 DEF IInv, TypeOK, Roots, Held
      <4>2. ~Held(h, TheParser) => Of(TheParser)' = {}
        BY <1>3 DEF Settled, Of
      <4> QED
        BY <4>1, <4>2, <2>1
    <3>2. CASE x # TheParser
      BY <3>2, <2>1, <1>4 DEF IInv, Roots
    <3> QED
      BY <3>1, <3>2
  <2>3. CASE x = Document
    <3>1. \A p \in holds' : p[1] # Main
      <4> SUFFICES ASSUME NEW p \in holds', p[1] = Main
                   PROVE  FALSE
        OBVIOUS
      <4>1. p \in holds /\ p = << Main, p[2] >> /\ p[2] \in Objects
        BY <1>4 DEF IInv, TypeOK
      <4>2. p[2] # Document
        BY <4>1, <2>3, <1>4
      <4> QED
        BY <4>1, <4>2, <2>3, <1>2
    <3>2. ~Held(holds', Document)
      <4>1. \A p \in holds' : p[2] = Document => p[1] = TheParser
        BY <3>1, <1>4 DEF IInv, Shape
      <4>2. Of(TheParser)' = {}
        BY <2>2, <3>1
      <4> QED
        BY <4>1, <4>2 DEF Held, Of
    <3>3. doc' = "reset"
      BY <3>2, <1>1, <1>3 DEF Settled
    <3> QED
      BY <2>1, <2>2, <3>1, <3>3, <1>1, <1>4 DEF IInv, Roots, Of
  <2>4. CASE x # Document
    <3>1. << Main, Document >> \in holds'
      BY <2>4, <1>1, <1>4 DEF IInv, Roots
    <3>2. doc' = "alive"
      BY <3>1, <1>1, <1>3 DEF Settled, Held
    <3> QED
      BY <2>1, <2>2, <3>1, <3>2, <1>1, <1>4 DEF IInv, Roots
  <2> QED
    BY <2>3, <2>4
<1> QED
  BY <1>3, <1>5, <1>6, <1>7, <1>8 DEF IInv, Kept

\* ~Document resets root_module.
LEMMA ResetRootStep == IInv /\ ResetRoot => IInv'
<1> SUFFICES ASSUME IInv, ResetRoot
             PROVE  IInv'
  OBVIOUS
<1> DEFINE h == holds \ Of(Document)
<1>1. /\ doc = "reset" /\ clearing = "no" /\ clearing' = "dtor" /\ Reset(h, state)
      /\ UNCHANGED << phase, kind, made, mod, job, batch >>
  BY DEF ResetRoot
<1>2. Kept /\ Settled(h) /\ \A m \in Nodes : state'[m] = "absent" <=> state[m] = "absent"
  BY <1>1, ResetFewer
<1>3. /\ \A p \in holds' : p \in holds /\ p[1] # Document
      /\ doc' = "reset"
  BY <1>1, <1>2 DEF Settled, Of
<1>4. phase = "exit" /\ Of(Main) = {} /\ job = NoJob
  BY <1>1 DEF IInv, Roots, Constructing
<1>5. TypeOK'
  BY <1>1, <1>2 DEF IInv, TypeOK, Kept, States
<1>6. Shape' /\ Fresh'
  BY <1>1, <1>2, FewerOwners
<1>7. ModLocal' /\ Constructing'
  BY <1>1, <1>2, <1>4 DEF IInv, TypeOK, ModLocal, Constructing, NoJob
<1>8. Roots'
  BY <1>1, <1>3, <1>4 DEF IInv, Roots, Of
<1> QED
  BY <1>2, <1>5, <1>6, <1>7, <1>8 DEF IInv, Kept

\* The destructor of the document returns.
LEMMA DocumentDestroyedStep == IInv /\ DocumentDestroyed => IInv'
<1> SUFFICES ASSUME IInv, DocumentDestroyed
             PROVE  IInv'
  OBVIOUS
<1>1. /\ clearing = "dtor" /\ doc' = "dead" /\ clearing' = "no"
      /\ UNCHANGED << phase, state, kind, made, holds, mod, job, list, batch >>
  BY DEF DocumentDestroyed
<1>2. doc = "reset"
  BY <1>1 DEF IInv, Roots
<1> QED
  BY <1>1, <1>2 DEF IInv, TypeOK, OwnedIsLive, LiveIsOwned, OwnersExist, WaitingOnce, Fresh, Shape, MayOwn,
                    ModLocal, Constructing, Announced, Announcing, Member, Roots, Of, Held

-----------------------------------------------------------------------------
(* The invariant, and what follows from it. *)

\* main starts with its document and nothing else.
LEMMA IInvInit == Init => IInv
<1> SUFFICES ASSUME Init
             PROVE  IInv
  OBVIOUS
<1>1. ToSet(<< >>) = {} /\ IsInjective(<< >>)
  BY DEF ToSet, IsInjective
<1>2. \A p \in holds : p[1] = Main /\ p[2] = Document
  BY DEF Init
<1>3. TypeOK
  BY MaxNodesAssumption, ObjectsDiffer DEF Init, TypeOK, NoJob
<1>4. OwnedIsLive /\ LiveIsOwned /\ OwnersExist
  BY <1>2, ObjectsDiffer DEF Init, OwnedIsLive, LiveIsOwned, OwnersExist, Held
<1>5. WaitingOnce /\ Fresh /\ Constructing
  BY <1>1 DEF Init, WaitingOnce, Fresh, Constructing, Announced, Announcing
<1>6. Shape /\ ModLocal /\ Roots
  BY <1>2, ObjectsDiffer DEF Init, Shape, ModLocal, Roots, Of
<1> QED
  BY <1>3, <1>4, <1>5, <1>6 DEF IInv

\* Every step of the program keeps the invariant.
LEMMA IInvNext == IInv /\ [Next]_vars => IInv'
<1> SUFFICES ASSUME IInv, [Next]_vars
             PROVE  IInv'
  OBVIOUS
<1>1. CASE UNCHANGED vars
  <2>1. TypeOK' /\ WaitingOnce' /\ Fresh' /\ Shape' /\ ModLocal' /\ Roots'
    BY <1>1 DEF vars, IInv, TypeOK, WaitingOnce, Fresh, Shape, MayOwn, ModLocal, Roots, Of
  <2>2. OwnedIsLive' /\ LiveIsOwned' /\ OwnersExist'
    BY <1>1 DEF vars, IInv, OwnedIsLive, LiveIsOwned, OwnersExist, Held
  <2>3. Constructing'
    BY <1>1 DEF vars, IInv, Constructing, Announced, Announcing, Member
  <2> QED
    BY <2>1, <2>2, <2>3 DEF IInv
<1>2. CASE Terminating
  BY <1>1, <1>2 DEF Terminating
<1> QED
  BY <1>1, <1>2, TakeListStep, DestroyHeadStep, ConstructedStep, NotConstructedStep, MakeParserStep,
     MakeModulesStep, ExitStep, BeginParseStep, MakeNodeStep, AdoptStep, DropStep, SetParserStep,
     InterruptedStep, FillEnumStep, CompiledStep, ResetRootStep, DocumentDestroyedStep DEF Next

\* The invariant holds in every reachable state.
THEOREM Invariance == Spec => []IInv
<1>1. Init => IInv
  BY IInvInit
<1>2. IInv /\ [Next]_vars => IInv'
  BY IInvNext
<1> QED
  BY <1>1, <1>2, PTL DEF Spec

\* The variables keep their types, whatever is made and let go.
THEOREM TypeCorrect == Spec => []TypeOK
<1>1. IInv => TypeOK
  BY DEF IInv
<1> QED
  BY <1>1, Invariance, PTL

\* No SharedPtr dangles: what is owned is neither destroyed nor waiting to be.
THEOREM NothingDangles == Spec => []OwnedIsLive
<1>1. IInv => OwnedIsLive
  BY DEF IInv
<1> QED
  BY <1>1, Invariance, PTL

\* The intrusive list and what the inner loop has still to walk hold every node
\* that waits for its destructor once, and no other node.
THEOREM OneDestructorCall == Spec => []ListedOnce
<1>1. ASSUME IInv
      PROVE  ListedOnce
  <2> DEFINE w == batch \o list
  <2>1. w \in Seq(Nodes) /\ IsInjective(w) /\ ToSet(w) = ToSet(batch) \cup ToSet(list)
    BY <1>1, ConcatOnce DEF IInv, TypeOK, WaitingOnce
  <2> SUFFICES ASSUME NEW n \in Nodes
               PROVE  Cardinality({i \in 1 .. Len(w) : w[i] = n}) = IF state[n] = "listed" THEN 1 ELSE 0
    BY DEF ListedOnce
  <2>2. DOMAIN w = 1 .. Len(w)
    BY <2>1
  <2> HIDE DEF w
  <2>3. CASE state[n] = "listed"
    <3>1. n \in ToSet(w)
      BY <1>1, <2>1, <2>3 DEF IInv, WaitingOnce
    <3>2. PICK i \in 1 .. Len(w) : w[i] = n
      BY <3>1, <2>2 DEF ToSet
    <3>3. {j \in 1 .. Len(w) : w[j] = n} = {i}
      BY <3>2, <2>1, <2>2 DEF IsInjective
    <3> QED
      BY <3>3, <2>3, FS_Singleton
  <2>4. CASE state[n] # "listed"
    <3>1. n \notin ToSet(w)
      BY <1>1, <2>1, <2>4 DEF IInv, WaitingOnce
    <3>2. {j \in 1 .. Len(w) : w[j] = n} = {}
      BY <3>1, <2>2 DEF ToSet
    <3> QED
      BY <3>2, <2>4, FS_EmptySet
  <2> QED
    BY <2>3, <2>4
<1> QED
  BY <1>1, Invariance, PTL

-----------------------------------------------------------------------------
(* The deferred destruction implements the life cycle of a node. *)

\* Letting go of owners discards the nodes that had no other.
LEMMA ResetDiscards ==
  ASSUME TypeOK, NEW h \in SUBSET (Objects \X Objects), Reset(h, state), doc # "dead"
  PROVE  L!LNext
<1> DEFINE S == Unowned(holds', state)
<1>1. state' = [n \in Nodes |-> IF n \in S THEN "listed" ELSE state[n]]
  BY ResetEffect DEF TypeOK, States
<1>2. doc' # "dead"
  BY ResetEffect DEF TypeOK, States
<1>3. \A n \in S : n \in Nodes /\ state[n] = "live"
  BY DEF Unowned
<1> HIDE DEF S
<1>4. S \in SUBSET InState("live")
  BY <1>3 DEF InState
<1>5. InState("live")' = InState("live") \ S
  BY <1>1, <1>3 DEF InState
<1>6. InState("listed")' = InState("listed") \cup S
  BY <1>1, <1>3 DEF InState
<1>7. InState("destroyed")' = InState("destroyed")
  BY <1>1, <1>3 DEF InState
<1>8. L!Discard(S)
  BY <1>2, <1>5, <1>6, <1>7 DEF L!Discard
<1> QED
  BY <1>4, <1>8 DEF L!LNext

\* The head of the detached list is garbage, and destroyed.
LEMMA DestroyHeadDestroys == IInv /\ DestroyHead => L!LNext
<1> SUFFICES ASSUME IInv, DestroyHead
             PROVE  L!LNext
  OBVIOUS
<1> DEFINE i == Head(batch)
           st == [state EXCEPT ![i] = "destroyed"]
           S == Unowned(holds', st)
<1>1. i \in Nodes /\ state[i] = "listed"
  BY TailOnce DEF DestroyHead, IInv, TypeOK, WaitingOnce
<1>2. /\ state' = [n \in Nodes |-> IF n \in S THEN "listed" ELSE st[n]]
      /\ doc' = "dead" <=> doc = "dead"
  <2>1. holds \ Of(i) \in SUBSET (Objects \X Objects) /\ st \in [Nodes -> States]
    BY <1>1 DEF IInv, TypeOK, States
  <2>2. Reset(holds \ Of(i), st)
    BY DEF DestroyHead
  <2> HIDE DEF st
  <2> QED
    <3>1. state' = [n \in Nodes |-> IF n \in S THEN "listed" ELSE st[n]]
      BY <2>1, <2>2, ResetEffect
    <3>2. doc' = IF doc = "alive" /\ ~Held(holds', Document) THEN "reset" ELSE doc
      BY <2>1, <2>2, ResetEffect
    <3> QED
      BY <3>1, <3>2
<1>3. \A n \in S : n \in Nodes /\ st[n] = "live"
  BY DEF Unowned
<1>4. \A n \in Nodes : st[n] = IF n = i THEN "destroyed" ELSE state[n]
  BY DEF IInv, TypeOK
<1> HIDE DEF S, st
<1>5. S \in SUBSET InState("live")
  BY <1>3, <1>4 DEF InState
<1>6. InState("live")' = InState("live") \ S
  BY <1>1, <1>2, <1>3, <1>4 DEF InState
<1>7. InState("listed")' = (InState("listed") \ {i}) \cup S
  BY <1>1, <1>2, <1>3, <1>4 DEF InState
<1>8. InState("destroyed")' = InState("destroyed") \cup {i}
  BY <1>1, <1>2, <1>3, <1>4 DEF InState
<1>9. (doc = "dead")' = (doc = "dead")
  BY <1>2
<1>10. i \in InState("listed")
  BY <1>1 DEF InState
<1> HIDE DEF i
<1>11. L!Destroy(i, S)
  BY <1>6, <1>7, <1>8, <1>9, <1>10 DEF L!Destroy
<1> QED
  BY <1>1, <1>5, <1>11 DEF L!LNext

\* A node is constructed; the module or the type it replaces may be discarded.
LEMMA ConstructedCreates == IInv /\ Constructed => L!LNext
<1> SUFFICES ASSUME IInv, Constructed
             PROVE  L!LNext
  OBVIOUS
<1> DEFINE st == [state EXCEPT ![made] = "live"]
           S == Unowned(holds', st)
<1>1. clearing = "ctor" /\ Reset(Given, st)
  BY Zenon DEF Constructed, Given
<1>2. made \in Nodes /\ state[made] = "absent" /\ doc = "alive"
  BY <1>1, GivenPairs
<1>3. Given \in SUBSET (Objects \X Objects)
  <2>1. job.owner \in Objects /\ \A e \in job.elements : e \in Objects
    BY ObjectsDiffer DEF IInv, TypeOK
  <2>2. \A p \in Given : p \in Objects \X Objects
    BY <1>2, <2>1, ObjectsDiffer DEF Given, IInv, TypeOK
  <2> QED
    BY <2>2
<1>4. /\ state' = [n \in Nodes |-> IF n \in S THEN "listed" ELSE st[n]]
      /\ doc' # "dead"
      /\ \A p \in Given \ holds' : p[1] = TheParser
  <2>1. st \in [Nodes -> States]
    BY <1>2 DEF IInv, TypeOK, States
  <2> HIDE DEF st
  <2> QED
    BY <1>1, <1>2, <1>3, <2>1, ResetEffect
<1>5. made \notin S
  <2>1. << job.owner, made >> \in Given /\ job.owner # TheParser
    BY <1>1, GivenPairs, ObjectsDiffer DEF IInv, TypeOK
  <2>2. Held(holds', made)
    BY <2>1, <1>4 DEF Held
  <2> QED
    BY <2>2 DEF Unowned
<1>6. \A n \in S : n \in Nodes /\ st[n] = "live"
  BY DEF Unowned
<1>7. \A n \in Nodes : st[n] = IF n = made THEN "live" ELSE state[n]
  BY DEF IInv, TypeOK
<1> HIDE DEF S, st
<1>8. S \in SUBSET InState("live")
  BY <1>5, <1>6, <1>7 DEF InState
<1>9. InState("live")' = (InState("live") \ S) \cup {made}
  BY <1>2, <1>4, <1>5, <1>6, <1>7 DEF InState
<1>10. InState("listed")' = InState("listed") \cup S
  BY <1>2, <1>4, <1>5, <1>6, <1>7 DEF InState
<1>11. InState("destroyed")' = InState("destroyed")
  BY <1>2, <1>4, <1>5, <1>6, <1>7 DEF InState
<1>12. made \notin InState("live") \cup InState("listed") \cup InState("destroyed")
  BY <1>2 DEF InState
<1>13. L!Create(made, S)
  BY <1>2, <1>4, <1>9, <1>10, <1>11, <1>12 DEF L!Create
<1> QED
  BY <1>2, <1>8, <1>13 DEF L!LNext

\* When the destructor of the document has cleared the list, no node is left:
\* an owner would have to be a node, and ownership goes down from a module to
\* its declarations, their fields, the types of those, and older types.
LEMMA NoneSurvives ==
  ASSUME IInv, clearing = "dtor", Cleared
  PROVE  InState("live") = {} /\ InState("listed") = {}
<1>1. ToSet(batch) = {} /\ ToSet(list) = {}
  BY DEF Cleared, ToSet
<1>2. \A n \in Nodes : state[n] # "listed"
  BY <1>1 DEF IInv, WaitingOnce
<1>3. \A p \in holds : p[1] \in Nodes
  <2>1. Of(Main) = {} /\ Of(Document) = {}
    BY DEF IInv, Roots
  <2>2. Of(TheParser) = {}
    <3>1. << Main, TheParser >> \notin holds
      BY <2>1 DEF Of
    <3> QED
      BY <3>1 DEF IInv, Roots
  <2> QED
    BY <2>1, <2>2, ObjectsDiffer DEF Of, IInv, TypeOK
<1>4. ASSUME NEW n \in Nodes, state[n] = "live"
      PROVE  \E o \in Nodes : state[o] = "live" /\ MayOwn(o, n)
  <2>1. PICK p \in holds : p[2] = n
    BY <1>4 DEF IInv, LiveIsOwned, Held
  <2>2. state[p[1]] = "live" /\ MayOwn(p[1], n)
    BY <2>1, <1>2, <1>3 DEF IInv, OwnersExist, Shape
  <2> QED
    BY <2>2, <1>3
<1>5. \A n \in Nodes : state[n] = "live" => kind[n] # "mod"
  BY <1>4, ObjectsDiffer DEF MayOwn
<1>6. \A n \in Nodes : state[n] = "live" => kind[n] # "decl"
  BY <1>4, <1>5, ObjectsDiffer DEF MayOwn
<1>7. \A n \in Nodes : state[n] = "live" => kind[n] # "field"
  BY <1>4, <1>6, ObjectsDiffer DEF MayOwn
<1>8. \A n \in Nodes : state[n] = "live" => \E o \in Nodes : state[o] = "live" /\ n < o
  BY <1>4, <1>5, <1>6, <1>7, ObjectsDiffer DEF MayOwn
<1>9. InState("live") = {}
  <2> SUFFICES ASSUME InState("live") # {}
               PROVE  FALSE
    OBVIOUS
  <2>1. InState("live") \subseteq 0 .. MaxNodes /\ MaxNodes \in Nat
    BY MaxNodesAssumption DEF InState, Nodes
  <2>2. PICK m \in InState("live") : \A k \in InState("live") : k <= m
    BY <2>1, GreatestNatural, Zenon
  <2>3. PICK o \in Nodes : state[o] = "live" /\ m < o
    BY <2>2, <1>8 DEF InState
  <2>4. o <= m
    BY <2>2, <2>3 DEF InState
  <2>5. m \in Nat /\ o \in Nat
    BY <2>1, <2>2, ObjectsDiffer
  <2> QED
    BY <2>3, <2>4, <2>5
<1> QED
  BY <1>2, <1>9 DEF InState

\* The destructor of the document returns when no node is left.
LEMMA DocumentDestroyedRetires == IInv /\ DocumentDestroyed => L!LNext
<1> SUFFICES ASSUME IInv, DocumentDestroyed
             PROVE  L!LNext
  OBVIOUS
<1>1. InState("live") = {} /\ InState("listed") = {}
  BY NoneSurvives DEF DocumentDestroyed
<1>2. doc = "reset" /\ doc' = "dead" /\ UNCHANGED state
  BY DEF DocumentDestroyed, IInv, Roots
<1>3. \A s : InState(s)' = InState(s)
  BY <1>2 DEF InState
<1>4. L!Retire
  BY <1>1, <1>2, <1>3 DEF L!Retire
<1> QED
  BY <1>4 DEF L!LNext

\* Every step of the program is a step of a node's life cycle, or none.
LEMMA LifecycleStep == IInv /\ [Next]_vars => [L!LNext]_(L!lifecycle)
<1> SUFFICES ASSUME IInv, [Next]_vars
             PROVE  L!LNext \/ UNCHANGED L!lifecycle
  OBVIOUS
<1>1. UNCHANGED << state, doc >> => UNCHANGED L!lifecycle
  BY DEF L!lifecycle, InState
<1>2. UNCHANGED vars \/ TakeList \/ MakeParser \/ MakeModules \/ BeginParse \/ MakeNode \/ Adopt
        \/ Interrupted \/ FillEnum \/ Compiled \/ Terminating => UNCHANGED << state, doc >>
  BY DEF vars, TakeList, MakeParser, MakeModules, BeginParse, MakeNode, Adopt, Interrupted, FillEnum, Compiled,
         Terminating
<1>3. NotConstructed => L!LNext
  <2>1. NotConstructed => /\ holds \ Replaced \in SUBSET (Objects \X Objects) /\ Reset(holds \ Replaced, state)
                          /\ doc # "dead"
    BY GivenPairs DEF NotConstructed, IInv, TypeOK
  <2> QED
    BY <2>1, ResetDiscards DEF IInv
<1>4. Exit => L!LNext
  <2>1. Exit => \E x \in Objects : /\ holds \ {<< Main, x >>} \in SUBSET (Objects \X Objects)
                                   /\ Reset(holds \ {<< Main, x >>}, state) /\ doc # "dead"
    BY DEF Exit, Idle, IInv, TypeOK
  <2> QED
    BY <2>1, ResetDiscards DEF IInv
<1>5. Drop => L!LNext
  <2>1. Drop => \E n \in Nodes : /\ holds \ {<< Main, n >>} \in SUBSET (Objects \X Objects)
                                 /\ Reset(holds \ {<< Main, n >>}, state) /\ doc # "dead"
    BY DEF Drop, Locals, Parsing, Idle, IInv, TypeOK
  <2> QED
    BY <2>1, ResetDiscards DEF IInv
<1>6. SetParser => L!LNext
  <2> SUFFICES ASSUME SetParser
               PROVE  L!LNext
    OBVIOUS
  <2>1. << Main, mod >> \in holds
    BY DEF SetParser, Parsing, IInv, ModLocal
  <2>2. (holds \ Of(TheParser)) \cup {<< mod, TheParser >>} \in SUBSET (Objects \X Objects)
    BY <2>1, ObjectsDiffer DEF IInv, TypeOK
  <2>3. Reset((holds \ Of(TheParser)) \cup {<< mod, TheParser >>}, state) /\ doc # "dead"
    BY DEF SetParser, Parsing, Idle
  <2> QED
    BY <2>2, <2>3, ResetDiscards DEF IInv
<1>7. ResetRoot => L!LNext
  <2>1. ResetRoot => /\ holds \ Of(Document) \in SUBSET (Objects \X Objects)
                     /\ Reset(holds \ Of(Document), state) /\ doc # "dead"
    BY DEF ResetRoot, IInv, TypeOK
  <2> QED
    BY <2>1, ResetDiscards DEF IInv
<1> QED
  BY <1>1, <1>2, <1>3, <1>4, <1>5, <1>6, <1>7, DestroyHeadDestroys, ConstructedCreates,
     DocumentDestroyedRetires DEF Next

\* The deferred destruction implements the safety part of the life cycle: a node
\* is created and destroyed once, becomes garbage only when it loses its last
\* owner, and none survives the document.
THEOREM ImplementsLifecycle == Spec => L!LSafety
<1>1. Init => L!LInit
  <2> SUFFICES ASSUME Init
               PROVE  L!LInit
    OBVIOUS
  <2>1. InState("live") = {} /\ InState("listed") = {} /\ InState("destroyed") = {}
    BY DEF Init, InState
  <2>2. (doc = "dead") = FALSE
    BY DEF Init
  <2> QED
    BY <2>1, <2>2 DEF L!LInit
<1>2. IInv /\ [Next]_vars => [L!LNext]_(L!lifecycle)
  BY LifecycleStep
<1> QED
  BY <1>1, <1>2, Invariance, PTL DEF Spec, L!LSafety
=============================================================================
