---------------------------- MODULE ParserProofs ----------------------------
(* Proofs about Parser, for every set of names and every token list: its     *)
(* inductive invariant, what a silent parse has done, and that it progresses. *)
EXTENDS Parser, TLAPS

-----------------------------------------------------------------------------
(* The operations on the AST. *)

\* make_ast_node returns a node of the AST's type.
LEMMA NewNodeType ==
  ASSUME NEW k \in {"root", "class", "struct", "enum", "import", "var", "item"},
         NEW name \in Keys
  PROVE  NewNode(k, name) \in Node
BY DEF NewNode, Node, Index

\* The AST grows at its end: the nodes that are there stay as they are.
LEMMA AppendType ==
  ASSUME NEW ns \in Seq(Node), NEW n \in Node
  PROVE  /\ Append(ns, n) \in Seq(Node)
         /\ Len(Append(ns, n)) = Len(ns) + 1
         /\ Append(ns, n)[Len(ns) + 1] = n
         /\ \A i \in 1 .. Len(ns) : Append(ns, n)[i] = ns[i]
OBVIOUS

\* push_member keeps the AST's type and makes no node.
LEMMA PushMemberType ==
  ASSUME NEW ns \in Seq(Node), NEW p \in 1 .. Len(ns), NEW m \in Nat
  PROVE  /\ PushMember(ns, p, m) \in Seq(Node)
         /\ Len(PushMember(ns, p, m)) = Len(ns)
<1>1. ns[p] \in Node
  OBVIOUS
<1>2. Append(ns[p].members, m) \in Seq(Nat)
  BY <1>1 DEF Node
<1>3. [ns[p] EXCEPT !.members = Append(ns[p].members, m)] \in Node
  BY <1>1, <1>2 DEF Node
<1> QED
  BY <1>3 DEF PushMember

\* index_member keeps the AST's type and makes no node, whatever the position.
LEMMA IndexMemberType ==
  ASSUME NEW ns \in Seq(Node), NEW p \in 1 .. Len(ns), NEW i \in Nat
  PROVE  /\ IndexMember(ns, p, i) \in Seq(Node)
         /\ Len(IndexMember(ns, p, i)) = Len(ns)
<1> DEFINE k == ns[ns[p].members[i]].name
<1>1. ns[p] \in Node
  OBVIOUS
<1>2. [ns[p].index EXCEPT ![k] = i] \in Index
  BY <1>1 DEF Node, Index
<1>3. [ns[p] EXCEPT !.index = [ns[p].index EXCEPT ![k] = i]] \in Node
  BY <1>1, <1>2 DEF Node
<1>4. IndexMember(ns, p, i) = [ns EXCEPT ![p] = [ns[p] EXCEPT !.index = [ns[p].index EXCEPT ![k] = i]]]
  BY <1>1 DEF IndexMember, Node
<1> QED
  BY <1>3, <1>4

\* An assignment to a node keeps the AST's type; one to no node does nothing.
LEMMA ExceptType ==
  ASSUME NEW ns \in Seq(Node), NEW n \in Nat, NEW x,
         n \in 1 .. Len(ns) => x \in Node
  PROVE  /\ [ns EXCEPT ![n] = x] \in Seq(Node)
         /\ Len([ns EXCEPT ![n] = x]) = Len(ns)
<1>1. CASE n \in 1 .. Len(ns)
  BY <1>1
<1>2. CASE n \notin 1 .. Len(ns)
  <2>1. [ns EXCEPT ![n] = x] = ns
    BY <1>2
  <2> QED
    BY <2>1
<1> QED
  BY <1>1, <1>2

-----------------------------------------------------------------------------
(* What each operation changes, field by field. *)

\* Node q of ns2 has the name and the kind of node q of ns1, or its data.
SameName(ns1, ns2, q) == ns2[q].name = ns1[q].name /\ ns2[q].kind = ns1[q].kind
SameData(ns1, ns2, q) == ns2[q].type = ns1[q].type /\ ns2[q].ranged = ns1[q].ranged

\* ns2 is ns1 with other types, values or ranges.
SameLinks(ns1, ns2) ==
  /\ ns2 \in Seq(Node) /\ Len(ns2) = Len(ns1)
  /\ \A q \in 1 .. Len(ns1) :
       /\ ns2[q].name = ns1[q].name /\ ns2[q].kind = ns1[q].kind
       /\ ns2[q].members = ns1[q].members /\ ns2[q].index = ns1[q].index

\* push_member appends to the members of p and changes nothing else.
LEMMA PushMemberEffect ==
  ASSUME NEW ns \in Seq(Node), NEW p \in 1 .. Len(ns), NEW m \in Nat,
         NEW q \in 1 .. Len(ns)
  PROVE  LET ns2 == PushMember(ns, p, m) IN
         /\ SameName(ns, ns2, q) /\ SameData(ns, ns2, q)
         /\ ns2[q].index = ns[q].index
         /\ ns2[q].members = IF q = p THEN Append(ns[q].members, m) ELSE ns[q].members
<1> DEFINE x == [ns[p] EXCEPT !.members = Append(ns[p].members, m)]
<1>1. ns[p] \in Node
  OBVIOUS
<1>2. PushMember(ns, p, m) = [ns EXCEPT ![p] = x]
  BY <1>1 DEF PushMember, Node
<1>3. /\ x.name = ns[p].name /\ x.kind = ns[p].kind /\ x.type = ns[p].type
      /\ x.ranged = ns[p].ranged /\ x.index = ns[p].index
      /\ x.members = Append(ns[p].members, m)
  BY <1>1 DEF Node
<1> HIDE DEF x
<1>4. /\ q = p => PushMember(ns, p, m)[q] = x
      /\ q # p => PushMember(ns, p, m)[q] = ns[q]
  BY <1>2
<1> QED
  BY <1>3, <1>4 DEF SameName, SameData

\* index_member changes one entry of the index of p and nothing else.
LEMMA IndexMemberEffect ==
  ASSUME NEW ns \in Seq(Node), NEW p \in 1 .. Len(ns), NEW i \in Nat,
         NEW q \in 1 .. Len(ns)
  PROVE  LET ns2 == IndexMember(ns, p, i)
             k == ns[ns[p].members[i]].name
         IN
         /\ SameName(ns, ns2, q) /\ SameData(ns, ns2, q)
         /\ ns2[q].members = ns[q].members
         /\ ns2[q].index = IF q = p THEN [ns[q].index EXCEPT ![k] = i] ELSE ns[q].index
<1> DEFINE k == ns[ns[p].members[i]].name
           f == [ns[p].index EXCEPT ![k] = i]
           x == [ns[p] EXCEPT !.index = f]
<1>1. ns[p] \in Node
  OBVIOUS
<1>2. IndexMember(ns, p, i) = [ns EXCEPT ![p] = x]
  BY <1>1 DEF IndexMember, Node
<1>3. /\ x.name = ns[p].name /\ x.kind = ns[p].kind /\ x.type = ns[p].type
      /\ x.ranged = ns[p].ranged /\ x.members = ns[p].members
      /\ x.index = f
  <2> HIDE DEF f
  <2> QED
    BY <1>1 DEF Node
<1> HIDE DEF x
<1>4. /\ q = p => IndexMember(ns, p, i)[q] = x
      /\ q # p => IndexMember(ns, p, i)[q] = ns[q]
  BY <1>2
<1> QED
  BY <1>3, <1>4 DEF SameName, SameData

\* b is the node a with another type, value or range.
SameMember(a, b) ==
  /\ b \in Node
  /\ b.name = a.name /\ b.kind = a.kind /\ b.members = a.members /\ b.index = a.index

\* A node replaced by one with the same name, kind, members and index leaves the
\* links of the AST alone.
LEMMA SetNode ==
  ASSUME NEW ns \in Seq(Node), NEW n \in Nat, NEW x,
         n \in 1 .. Len(ns) => SameMember(ns[n], x)
  PROVE  SameLinks(ns, [ns EXCEPT ![n] = x])
<1> DEFINE ns2 == [ns EXCEPT ![n] = x]
<1>1. ns2 \in Seq(Node) /\ Len(ns2) = Len(ns)
  BY ExceptType DEF SameMember
<1>2. \A q \in 1 .. Len(ns) : (q = n => ns2[q] = x) /\ (q # n => ns2[q] = ns[q])
  OBVIOUS
<1>3. SameLinks(ns, ns2)
  <2> HIDE DEF ns2
  <2> QED
    BY <1>1, <1>2 DEF SameLinks, SameMember
<1> QED
  BY <1>3

\* parse_type_name writes a type and no link.
LEMMA SetTypeLinks ==
  ASSUME NEW ns \in Seq(Node), NEW n \in Nat,
         NEW t \in {"null", "builtin", "custom", "array"}
  PROVE  SameLinks(ns, [ns EXCEPT ![n].type = t])
<1> DEFINE x == [ns[n] EXCEPT !.type = t]
<1>1. ASSUME n \in 1 .. Len(ns)
      PROVE  SameMember(ns[n], x)
  <2>1. ns[n] \in Node
    BY <1>1
  <2> QED
    BY <2>1 DEF Node, SameMember
<1> HIDE DEF x
<1>2. SameLinks(ns, [ns EXCEPT ![n] = x])
  BY <1>1, SetNode
<1> QED
  BY <1>2 DEF x

\* parse_expr writes the value of an item and no link.
LEMMA SetValueLinks ==
  ASSUME NEW ns \in Seq(Node), NEW n \in Nat,
         NEW v \in {"null", "lit", "bad"}
  PROVE  SameLinks(ns, [ns EXCEPT ![n].value = v])
<1> DEFINE x == [ns[n] EXCEPT !.value = v]
<1>1. ASSUME n \in 1 .. Len(ns)
      PROVE  SameMember(ns[n], x)
  <2>1. ns[n] \in Node
    BY <1>1
  <2> QED
    BY <2>1 DEF Node, SameMember
<1> HIDE DEF x
<1>2. SameLinks(ns, [ns EXCEPT ![n] = x])
  BY <1>1, SetNode
<1> QED
  BY <1>2 DEF x

\* The scope guards write token_range and no link.
LEMMA SetRangedLinks ==
  ASSUME NEW ns \in Seq(Node), NEW n \in Nat
  PROVE  SameLinks(ns, [ns EXCEPT ![n].ranged = TRUE])
<1> DEFINE x == [ns[n] EXCEPT !.ranged = TRUE]
<1>1. ASSUME n \in 1 .. Len(ns)
      PROVE  SameMember(ns[n], x)
  <2>1. ns[n] \in Node
    BY <1>1
  <2> QED
    BY <2>1 DEF Node, SameMember
<1> HIDE DEF x
<1>2. SameLinks(ns, [ns EXCEPT ![n] = x])
  BY <1>1, SetNode
<1> QED
  BY <1>2 DEF x

-----------------------------------------------------------------------------
(* The index stays sound under every operation. *)

\* A node that is a member of nothing leaves the index sound.
LEMMA SoundAppend ==
  ASSUME NEW ns \in Seq(Node), Sound(ns), NEW name \in Keys,
         NEW k \in {"root", "class", "struct", "enum", "import", "var", "item"}
  PROVE  Sound(Append(ns, NewNode(k, name)))
<1> DEFINE ns2 == Append(ns, NewNode(k, name))
<1>1. /\ ns2 \in Seq(Node) /\ Len(ns2) = Len(ns) + 1
      /\ ns2[Len(ns) + 1] = NewNode(k, name)
      /\ \A i \in 1 .. Len(ns) : ns2[i] = ns[i]
  BY NewNodeType, AppendType
<1> SUFFICES ASSUME NEW p \in 1 .. Len(ns2), NEW x \in Keys, ns2[p].index[x] # 0
             PROVE  /\ ns2[p].index[x] \in 1 .. Len(ns2[p].members)
                    /\ ns2[p].members[ns2[p].index[x]] \in 1 .. Len(ns2)
                    /\ ns2[ns2[p].members[ns2[p].index[x]]].name = x
  BY DEF Sound, Indexed
<1>2. p \in 1 .. Len(ns)
  BY <1>1 DEF NewNode
<1>3. ns2[p] = ns[p] /\ ns[p].index[x] # 0
  BY <1>1, <1>2
<1> HIDE DEF ns2
<1> QED
  BY <1>1, <1>2, <1>3 DEF Sound, Indexed

\* push_member leaves the index sound: the positions it holds stay good.
LEMMA SoundPush ==
  ASSUME NEW ns \in Seq(Node), Sound(ns), NEW p \in 1 .. Len(ns), NEW m \in Nat
  PROVE  Sound(PushMember(ns, p, m))
<1> DEFINE ns2 == PushMember(ns, p, m)
<1>1. ns2 \in Seq(Node) /\ Len(ns2) = Len(ns)
  BY PushMemberType
<1> SUFFICES ASSUME NEW q \in 1 .. Len(ns), NEW x \in Keys, ns2[q].index[x] # 0
             PROVE  /\ ns2[q].index[x] \in 1 .. Len(ns2[q].members)
                    /\ ns2[q].members[ns2[q].index[x]] \in 1 .. Len(ns2)
                    /\ ns2[ns2[q].members[ns2[q].index[x]]].name = x
  BY <1>1 DEF Sound, Indexed
<1>2. /\ ns2[q].index = ns[q].index
      /\ ns2[q].members = IF q = p THEN Append(ns[q].members, m) ELSE ns[q].members
  BY PushMemberEffect
<1>3. /\ ns[q].index[x] \in 1 .. Len(ns[q].members)
      /\ ns[q].members[ns[q].index[x]] \in 1 .. Len(ns)
      /\ ns[ns[q].members[ns[q].index[x]]].name = x
  BY <1>2 DEF Sound, Indexed
<1>4. ns[q].members \in Seq(Nat)
  <2>1. ns[q] \in Node
    OBVIOUS
  <2> QED
    BY <2>1 DEF Node
<1>5. /\ ns2[q].index[x] \in 1 .. Len(ns2[q].members)
      /\ ns2[q].members[ns2[q].index[x]] = ns[q].members[ns[q].index[x]]
  BY <1>2, <1>3, <1>4
<1>6. ns2[ns[q].members[ns[q].index[x]]].name = x
  BY <1>3, PushMemberEffect DEF SameName
<1> QED
  BY <1>1, <1>3, <1>5, <1>6

\* index_member leaves the index sound when the position is that of a member that
\* is not null.
LEMMA SoundIndex ==
  ASSUME NEW ns \in Seq(Node), Sound(ns), NEW p \in 1 .. Len(ns),
         NEW i \in 1 .. Len(ns[p].members), ns[p].members[i] \in 1 .. Len(ns)
  PROVE  Sound(IndexMember(ns, p, i))
<1> DEFINE ns2 == IndexMember(ns, p, i)
           k == ns[ns[p].members[i]].name
<1>1. ns2 \in Seq(Node) /\ Len(ns2) = Len(ns)
  BY IndexMemberType
<1> SUFFICES ASSUME NEW q \in 1 .. Len(ns), NEW x \in Keys, ns2[q].index[x] # 0
             PROVE  /\ ns2[q].index[x] \in 1 .. Len(ns2[q].members)
                    /\ ns2[q].members[ns2[q].index[x]] \in 1 .. Len(ns2)
                    /\ ns2[ns2[q].members[ns2[q].index[x]]].name = x
  BY <1>1 DEF Sound, Indexed
<1>2. /\ ns2[q].members = ns[q].members
      /\ ns2[q].index = IF q = p THEN [ns[q].index EXCEPT ![k] = i] ELSE ns[q].index
  BY IndexMemberEffect
<1>3. ns[q].index \in [Keys -> Nat]
  <2>1. ns[q] \in Node
    OBVIOUS
  <2> QED
    BY <2>1 DEF Node, Index
<1>4. \A r \in 1 .. Len(ns) : ns2[r].name = ns[r].name
  <2> TAKE r \in 1 .. Len(ns)
  <2>1. SameName(ns, IndexMember(ns, p, i), r)
    <3> HIDE DEF ns2
    <3>1. i \in Nat
      BY DEF Node
    <3> QED
      BY <3>1, IndexMemberEffect
  <2> QED
    BY <2>1 DEF SameName
<1>5. CASE q = p /\ x = k
  <2>1. ns2[q].index[x] = i
    BY <1>2, <1>3, <1>5
  <2> QED
    BY <2>1, <1>1, <1>2, <1>4, <1>5
<1>6. CASE ~(q = p /\ x = k)
  <2>1. ns2[q].index[x] = ns[q].index[x]
    BY <1>2, <1>3, <1>6
  <2>2. /\ ns[q].index[x] \in 1 .. Len(ns[q].members)
        /\ ns[q].members[ns[q].index[x]] \in 1 .. Len(ns)
        /\ ns[ns[q].members[ns[q].index[x]]].name = x
    BY <2>1 DEF Sound, Indexed
  <2> QED
    BY <2>1, <2>2, <1>1, <1>2, <1>4
<1> QED
  BY <1>5, <1>6

\* Whether the index is sound depends on the links only.
LEMMA SoundSameLinks ==
  ASSUME NEW ns \in Seq(Node), NEW ns2, Sound(ns), SameLinks(ns, ns2)
  PROVE  Sound(ns2)
<1> SUFFICES ASSUME NEW q \in 1 .. Len(ns), NEW x \in Keys, ns2[q].index[x] # 0
             PROVE  /\ ns2[q].index[x] \in 1 .. Len(ns2[q].members)
                    /\ ns2[q].members[ns2[q].index[x]] \in 1 .. Len(ns)
                    /\ ns2[ns2[q].members[ns2[q].index[x]]].name = x
  BY DEF Sound, Indexed, SameLinks
<1>1. ns2[q].members = ns[q].members /\ ns2[q].index = ns[q].index
  BY DEF SameLinks
<1>2. /\ ns[q].index[x] \in 1 .. Len(ns[q].members)
      /\ ns[q].members[ns[q].index[x]] \in 1 .. Len(ns)
      /\ ns[ns[q].members[ns[q].index[x]]].name = x
  BY <1>1 DEF Sound, Indexed
<1>3. ns2[ns[q].members[ns[q].index[x]]].name = x
  BY <1>2 DEF SameLinks
<1> QED
  BY <1>1, <1>2, <1>3

-----------------------------------------------------------------------------
(* Tokens and errors. *)

\* An identifier is no keyword and not the empty name.
LEMMA NamesAreNotKinds ==
  /\ "End" \notin Names /\ "type" \notin Names /\ "lit" \notin Names
  /\ "" \notin Names /\ Names \subseteq Keys /\ "" \in Keys
BY NamesAssumption DEF Kinds, Keys

\* A token that is not the End token has a token after it.
LEMMA Peek ==
  ASSUME TypeOK, EndNotConsumed
  PROVE  /\ cur + 1 \in 1 .. Len(tokens)
         /\ Tok # "End" => cur + 1 < Len(tokens)
         /\ Tok # "End" /\ Tok2 # "End" => cur + 2 < Len(tokens)
BY DEF TypeOK, EndNotConsumed, EndsOnce, Tok, Tok2

\* The errors the parser throws have their type.
LEMMA ErrorAtType ==
  /\ \A k \in ErrorKind : ErrorAt(k) \in Error
  /\ NoError \in Error
  /\ ErrorAt("OutOfMemory") \in Error
BY DEF ErrorAt, Error, ErrorKind, NoError

\* The conflict of a node of the AST is an error.
LEMMA ConflictType ==
  ASSUME TypeOK, NEW n \in 1 .. Len(nodes)
  PROVE  Conflict(n) \in Error
<1>1. nodes[n] \in Node
  BY DEF TypeOK
<1>2. nodes[n].ranged \in BOOLEAN
  BY <1>1 DEF Node
<1> QED
  BY <1>2 DEF Conflict, Error, ErrorKind

\* The three ways to leave a place keep the variables they write typed.
Exited == pc' \in PCs /\ pending' \in Error /\ oom' \in 0 .. MaxOOM

\* Every way out of a function goes to a place of the parser with an error or none.
LEMMA ExitsType ==
  ASSUME TypeOK
  PROVE  /\ \A to \in PCs : Goto(to) => Exited
         /\ \A to \in PCs, e \in Error : Throw(e, to) => Exited
         /\ \A to \in PCs : OutOfMemory(to) => Exited
         /\ Landing[ctx] \in PCs /\ Return[ctx] \in PCs
<1> USE DEF TypeOK, Exited
<1>1. ASSUME NEW to \in PCs, Goto(to) PROVE Exited
  BY <1>1 DEF Goto
<1>2. ASSUME NEW to \in PCs, NEW e \in Error, Throw(e, to) PROVE Exited
  BY <1>2 DEF Throw
<1>3. ASSUME NEW to \in PCs, OutOfMemory(to) PROVE Exited
  BY <1>3, ErrorAtType, MaxOOMAssumption DEF OutOfMemory
<1>4. Landing[ctx] \in PCs /\ Return[ctx] \in PCs
  BY DEF Landing, Return, PCs
<1> QED
  BY <1>1, <1>2, <1>3, <1>4

\* What it takes for a step that appends no node to keep the types.
LEMMA TypeFrame ==
  ASSUME TypeOK, Exited, UNCHANGED tokens,
         cur' \in Nat, ctx' \in {"module", "import", "field", "base"},
         nodes' \in Seq(Node), Len(nodes') >= Len(nodes),
         decl' \in 1 .. Len(nodes'), slot' \in Nat, field' \in 0 .. Len(nodes'),
         errors' \in Seq(Error), path' \in {"null", "parsed", "set"},
         result' \in {"none", "ok", "error"}, attached' \in BOOLEAN
  PROVE  TypeOK'
BY DEF TypeOK, Exited

-----------------------------------------------------------------------------
(* Type correctness. *)

\* Initially the types are right and no token has been consumed.
LEMMA TypeInit == Init => TypeOK /\ EndNotConsumed
<1> SUFFICES ASSUME Init PROVE TypeOK /\ EndNotConsumed
  OBVIOUS
<1>1. NewNode("root", "") \in Node
  BY NewNodeType, NamesAreNotKinds
<1>2. NoError \in Error
  BY ErrorAtType DEF NoError, ErrorKind
<1>3. EndsOnce(tokens)
  BY InputsAssumption DEF Init
<1>4. Len(tokens) > 0
  BY <1>3 DEF EndsOnce
<1>5. nodes \in Seq(Node) /\ Len(nodes) = 1 /\ nodes # << >>
  <2>1. \A x \in Node : << x >> \in Seq(Node) /\ Len(<< x >>) = 1 /\ << x >> # << >>
    OBVIOUS
  <2> QED
    BY <1>1, <2>1 DEF Init
<1>6. errors \in Seq(Error)
  <2>1. << >> \in Seq(Error)
    OBVIOUS
  <2> QED
    BY <2>1 DEF Init
<1>7. oom \in 0 .. MaxOOM
  <2>1. MaxOOM \in 0 .. MaxOOM
    BY MaxOOMAssumption
  <2> QED
    BY <2>1 DEF Init
<1>8. /\ cur = 0 /\ pc = "begin" /\ ctx = "module" /\ decl = 1 /\ slot = 0 /\ field = 0
      /\ pending = NoError /\ path = "null" /\ result = "none" /\ attached = TRUE
  BY DEF Init, Root
<1> QED
  BY <1>2, <1>3, <1>4, <1>5, <1>6, <1>7, <1>8 DEF TypeOK, EndNotConsumed, PCs

\* The steps that leave the AST alone.
LEMMA TypeControl ==
  ASSUME TypeOK, EndNotConsumed,
         \/ ParseProgram \/ CatchModule \/ ModuleSemi \/ IdRefScope \/ IdRefName
         \/ BaseColon \/ BodyOpen \/ FieldColon \/ CatchField \/ ItemAssign
         \/ Comma \/ BodyClose \/ BeginImport \/ ImportSemi \/ NotADecl
         \/ CatchStmt \/ Finish \/ DestroyParser \/ Terminating
  PROVE  TypeOK' /\ EndNotConsumed' /\ UNCHANGED << nodes, decl, slot >>
<1>a. /\ \A to \in PCs : Goto(to) => Exited
      /\ \A k \in ErrorKind, to \in PCs : Throw(ErrorAt(k), to) => Exited
      /\ \A to \in PCs : Throw(NoError, to) => Exited
      /\ \A to \in PCs : OutOfMemory(to) => Exited
      /\ Landing[ctx] \in PCs /\ Return[ctx] \in PCs
  BY ErrorAtType, ExitsType DEF TypeOK
<1>b. /\ cur + 1 \in 1 .. Len(tokens)
      /\ Tok # "End" => cur + 1 < Len(tokens)
      /\ Tok # "End" /\ Tok2 # "End" => cur + 2 < Len(tokens)
      /\ "End" \notin Names
  BY Peek, NamesAreNotKinds
<1>c. Exited
  <2> USE <1>a
  <2>1. CASE ParseProgram
    BY <2>1 DEF ParseProgram, PCs, ErrorKind
  <2>2. CASE CatchModule
    BY <2>2 DEF CatchModule, PCs, ErrorKind
  <2>3. CASE ModuleSemi
    BY <2>3 DEF ModuleSemi, PCs, ErrorKind
  <2>4. CASE IdRefScope
    BY <2>4 DEF IdRefScope, PCs, ErrorKind
  <2>5. CASE IdRefName
    BY <2>5 DEF IdRefName, PCs, ErrorKind
  <2>6. CASE BaseColon
    BY <2>6 DEF BaseColon, PCs, ErrorKind
  <2>7. CASE BodyOpen
    BY <2>7 DEF BodyOpen, PCs, ErrorKind
  <2>8. CASE FieldColon
    BY <2>8 DEF FieldColon, PCs, ErrorKind
  <2>9. CASE CatchField
    BY <2>9 DEF CatchField, PCs, ErrorKind
  <2>10. CASE ItemAssign
    BY <2>10 DEF ItemAssign, PCs, ErrorKind
  <2>11. CASE Comma
    BY <2>11 DEF Comma, PCs, ErrorKind
  <2>12. CASE BodyClose
    BY <2>12 DEF BodyClose, PCs, ErrorKind
  <2>13. CASE BeginImport
    BY <2>13 DEF BeginImport, PCs, ErrorKind
  <2>14. CASE ImportSemi
    BY <2>14 DEF ImportSemi, PCs, ErrorKind
  <2>15. CASE NotADecl
    BY <2>15 DEF NotADecl, PCs, ErrorKind
  <2>16. CASE CatchStmt
    BY <2>16 DEF CatchStmt, PCs, ErrorKind
  <2>17. CASE Finish
    BY <2>17 DEF Finish, PCs, ErrorKind
  <2>18. CASE DestroyParser
    BY <2>18 DEF DestroyParser, PCs, ErrorKind
  <2>19. CASE Terminating
    BY <2>19 DEF Terminating, vars, Exited, TypeOK
  <2> QED
    BY <2>1, <2>2, <2>3, <2>4, <2>5, <2>6, <2>7, <2>8, <2>9, <2>10, <2>11,
       <2>12, <2>13, <2>14, <2>15, <2>16, <2>17, <2>18, <2>19
<1>d. /\ UNCHANGED << tokens, nodes, decl, slot >>
      /\ cur' \in Nat /\ cur' < Len(tokens)
      /\ ctx' \in {"module", "import", "field", "base"}
      /\ field' \in 0 .. Len(nodes)
      /\ path' \in {"null", "parsed", "set"}
  <2> USE <1>b DEF Consume, TypeOK, EndNotConsumed
  <2>1. CASE ParseProgram
    BY <2>1 DEF ParseProgram
  <2>2. CASE CatchModule
    BY <2>2 DEF CatchModule
  <2>3. CASE ModuleSemi
    BY <2>3 DEF ModuleSemi
  <2>4. CASE IdRefScope
    BY <2>4 DEF IdRefScope
  <2>5. CASE IdRefName
    BY <2>5 DEF IdRefName
  <2>6. CASE BaseColon
    BY <2>6 DEF BaseColon
  <2>7. CASE BodyOpen
    BY <2>7 DEF BodyOpen
  <2>8. CASE FieldColon
    BY <2>8 DEF FieldColon
  <2>9. CASE CatchField
    BY <2>9 DEF CatchField
  <2>10. CASE ItemAssign
    BY <2>10 DEF ItemAssign
  <2>11. CASE Comma
    BY <2>11 DEF Comma
  <2>12. CASE BodyClose
    BY <2>12 DEF BodyClose
  <2>13. CASE BeginImport
    BY <2>13 DEF BeginImport
  <2>14. CASE ImportSemi
    BY <2>14 DEF ImportSemi
  <2>15. CASE NotADecl
    BY <2>15 DEF NotADecl
  <2>16. CASE CatchStmt
    BY <2>16 DEF CatchStmt
  <2>17. CASE Finish
    BY <2>17 DEF Finish
  <2>18. CASE DestroyParser
    BY <2>18 DEF DestroyParser
  <2>19. CASE Terminating
    BY <2>19 DEF Terminating, vars
  <2> QED
    BY <2>1, <2>2, <2>3, <2>4, <2>5, <2>6, <2>7, <2>8, <2>9, <2>10, <2>11,
       <2>12, <2>13, <2>14, <2>15, <2>16, <2>17, <2>18, <2>19
<1>e. /\ errors' \in Seq(Error)
      /\ result' \in {"none", "ok", "error"} /\ attached' \in BOOLEAN
  <2>0. errors \in Seq(Error) /\ Append(errors, pending) \in Seq(Error)
    BY DEF TypeOK
  <2> USE <2>0 DEF TypeOK
  <2>1. CASE ParseProgram
    BY <2>1 DEF ParseProgram
  <2>2. CASE CatchModule
    BY <2>2 DEF CatchModule
  <2>3. CASE ModuleSemi
    BY <2>3 DEF ModuleSemi
  <2>4. CASE IdRefScope
    BY <2>4 DEF IdRefScope
  <2>5. CASE IdRefName
    BY <2>5 DEF IdRefName
  <2>6. CASE BaseColon
    BY <2>6 DEF BaseColon
  <2>7. CASE BodyOpen
    BY <2>7 DEF BodyOpen
  <2>8. CASE FieldColon
    BY <2>8 DEF FieldColon
  <2>9. CASE CatchField
    BY <2>9 DEF CatchField
  <2>10. CASE ItemAssign
    BY <2>10 DEF ItemAssign
  <2>11. CASE Comma
    BY <2>11 DEF Comma
  <2>12. CASE BodyClose
    BY <2>12 DEF BodyClose
  <2>13. CASE BeginImport
    BY <2>13 DEF BeginImport
  <2>14. CASE ImportSemi
    BY <2>14 DEF ImportSemi
  <2>15. CASE NotADecl
    BY <2>15 DEF NotADecl
  <2>16. CASE CatchStmt
    BY <2>16 DEF CatchStmt
  <2>17. CASE Finish
    BY <2>17 DEF Finish
  <2>18. CASE DestroyParser
    BY <2>18 DEF DestroyParser
  <2>19. CASE Terminating
    BY <2>19 DEF Terminating, vars
  <2> QED
    BY <2>1, <2>2, <2>3, <2>4, <2>5, <2>6, <2>7, <2>8, <2>9, <2>10, <2>11,
       <2>12, <2>13, <2>14, <2>15, <2>16, <2>17, <2>18, <2>19
<1>f. TypeOK'
  BY <1>c, <1>d, <1>e, TypeFrame DEF TypeOK
<1> QED
  BY <1>d, <1>f DEF EndNotConsumed

-----------------------------------------------------------------------------
(* The AST grows: every operation keeps what is there. *)

Extends(ns, ns2) ==
  /\ ns2 \in Seq(Node) /\ Len(ns2) >= Len(ns)
  /\ Sound(ns2)
  /\ \A i \in 1 .. Len(ns[Root].members) :
       i \in 1 .. Len(ns2[Root].members) /\ ns2[Root].members[i] = ns[Root].members[i]

\* The types of the parts of a node the index is about.
LEMMA MembersType ==
  ASSUME NEW ns \in Seq(Node), NEW p \in 1 .. Len(ns)
  PROVE  ns[p].members \in Seq(Nat) /\ ns[p].name \in Keys /\ ns[p].index \in [Keys -> Nat]
<1>1. ns[p] \in Node
  OBVIOUS
<1> QED
  BY <1>1 DEF Node, Index

\* An AST with a sound index extends itself.
LEMMA ExtendsRefl ==
  ASSUME NEW ns \in Seq(Node), Sound(ns)
  PROVE  Extends(ns, ns)
BY DEF Extends

\* A step that extends an extension is an extension.
LEMMA ExtendsTrans ==
  ASSUME NEW a \in Seq(Node), NEW b, NEW c, Extends(a, b), Extends(b, c)
  PROVE  Extends(a, c)
<1>1. \A i \in 1 .. Len(a[Root].members) :
        i \in 1 .. Len(b[Root].members) /\ b[Root].members[i] = a[Root].members[i]
  BY DEF Extends
<1>2. \A i \in 1 .. Len(b[Root].members) :
        i \in 1 .. Len(c[Root].members) /\ c[Root].members[i] = b[Root].members[i]
  BY DEF Extends
<1>3. c \in Seq(Node) /\ Sound(c) /\ Len(c) >= Len(a)
  BY DEF Extends
<1> QED
  BY <1>1, <1>2, <1>3 DEF Extends

\* make_ast_node extends the AST.
LEMMA ExtendsAppend ==
  ASSUME NEW ns \in Seq(Node), Root \in 1 .. Len(ns), Sound(ns), NEW name \in Keys,
         NEW k \in {"root", "class", "struct", "enum", "import", "var", "item"}
  PROVE  Extends(ns, Append(ns, NewNode(k, name)))
<1> DEFINE ns2 == Append(ns, NewNode(k, name))
<1>1. ns2 \in Seq(Node) /\ Len(ns2) = Len(ns) + 1 /\ ns2[Root] = ns[Root]
  BY NewNodeType, AppendType
<1>2. Sound(ns2)
  BY SoundAppend
<1>3. Extends(ns, ns2)
  <2> HIDE DEF ns2
  <2> QED
    BY <1>1, <1>2 DEF Extends
<1> QED
  BY <1>3

\* push_member extends the AST, whatever the member, null included.
LEMMA ExtendsPush ==
  ASSUME NEW ns \in Seq(Node), Root \in 1 .. Len(ns), Sound(ns),
         NEW p \in 1 .. Len(ns), NEW m \in Nat
  PROVE  LET ns2 == PushMember(ns, p, m) IN
         /\ Extends(ns, ns2)
         /\ Len(ns2) = Len(ns)
         /\ Len(ns2[p].members) = Len(ns[p].members) + 1
         /\ ns2[p].members[Len(ns[p].members) + 1] = m
<1> DEFINE ns2 == PushMember(ns, p, m)
<1>1. ns2 \in Seq(Node) /\ Len(ns2) = Len(ns)
  BY PushMemberType
<1>2. Sound(ns2)
  BY SoundPush
<1>3. /\ PushMember(ns, p, m)[p].members = Append(ns[p].members, m)
      /\ Root # p => PushMember(ns, p, m)[Root].members = ns[Root].members
  <2>1. PushMember(ns, p, m)[p].members = Append(ns[p].members, m)
    <3> HIDE DEF ns2
    <3> QED
      BY PushMemberEffect
  <2>2. ASSUME Root # p
        PROVE  PushMember(ns, p, m)[Root].members = ns[Root].members
    <3> HIDE DEF ns2
    <3> QED
      BY <2>2, PushMemberEffect
  <2> QED
    BY <2>1, <2>2
<1>4. ns[p].members \in Seq(Nat) /\ ns[Root].members \in Seq(Nat)
  BY MembersType
<1>5. \A i \in 1 .. Len(ns[Root].members) :
        i \in 1 .. Len(ns2[Root].members) /\ ns2[Root].members[i] = ns[Root].members[i]
  <2>1. CASE Root = p
    BY <2>1, <1>3, <1>4
  <2>2. CASE Root # p
    BY <2>2, <1>3, <1>4
  <2> QED
    BY <2>1, <2>2
<1>6. /\ Len(ns2[p].members) = Len(ns[p].members) + 1
      /\ ns2[p].members[Len(ns[p].members) + 1] = m
  BY <1>3, <1>4
<1>7. Extends(ns, ns2)
  <2> HIDE DEF ns2
  <2> QED
    BY <1>1, <1>2, <1>5 DEF Extends
<1> QED
  BY <1>1, <1>6, <1>7

\* index_member extends the AST when its position is that of a member.
LEMMA ExtendsIndex ==
  ASSUME NEW ns \in Seq(Node), Root \in 1 .. Len(ns), Sound(ns), NEW p \in 1 .. Len(ns),
         NEW i \in 1 .. Len(ns[p].members), ns[p].members[i] \in 1 .. Len(ns)
  PROVE  Extends(ns, IndexMember(ns, p, i)) /\ Len(IndexMember(ns, p, i)) = Len(ns)
<1> DEFINE ns2 == IndexMember(ns, p, i)
<1>0. i \in Nat
  BY MembersType
<1>1. ns2 \in Seq(Node) /\ Len(ns2) = Len(ns)
  BY <1>0, IndexMemberType
<1>2. Sound(ns2)
  BY SoundIndex
<1>3. ASSUME NEW q \in 1 .. Len(ns)
      PROVE  ns2[q].members = ns[q].members
  <2>1. /\ ns2[q].members = ns[q].members
        /\ ns2[q].index = IF q = p THEN [ns[q].index EXCEPT ![ns[ns[p].members[i]].name] = i] ELSE ns[q].index
    BY <1>0, IndexMemberEffect
  <2> QED
    BY <2>1
<1>4. Extends(ns, ns2)
  <2> HIDE DEF ns2
  <2> QED
    BY <1>1, <1>2, <1>3 DEF Extends
<1> QED
  BY <1>1, <1>4

\* Writing types, values and ranges extends the AST.
LEMMA ExtendsSameLinks ==
  ASSUME NEW ns \in Seq(Node), Root \in 1 .. Len(ns), Sound(ns), NEW ns2, SameLinks(ns, ns2)
  PROVE  Extends(ns, ns2) /\ Len(ns2) = Len(ns)
<1>1. Sound(ns2)
  BY SoundSameLinks
<1>2. ns2[Root].members = ns[Root].members /\ ns2 \in Seq(Node) /\ Len(ns2) = Len(ns)
  BY DEF SameLinks
<1> QED
  BY <1>1, <1>2 DEF Extends

\* A new node that is a member of the root.
LEMMA ExtendsNewMember ==
  ASSUME NEW ns \in Seq(Node), Root \in 1 .. Len(ns), Sound(ns), NEW name \in Keys,
         NEW k \in {"root", "class", "struct", "enum", "import", "var", "item"}
  PROVE  LET n == Len(ns) + 1
             i == Len(ns[Root].members) + 1
             ns2 == PushMember(Append(ns, NewNode(k, name)), Root, n)
         IN  /\ Extends(ns, ns2) /\ Len(ns2) = n
             /\ i \in 1 .. Len(ns2[Root].members) /\ ns2[Root].members[i] = n
             /\ Extends(ns, IndexMember(ns2, Root, i)) /\ Len(IndexMember(ns2, Root, i)) = n
<1> DEFINE n == Len(ns) + 1
           i == Len(ns[Root].members) + 1
           ns1 == Append(ns, NewNode(k, name))
           ns2 == PushMember(ns1, Root, n)
           ns3 == IndexMember(ns2, Root, i)
<1>1. ns1 \in Seq(Node) /\ Len(ns1) = n /\ ns1[Root] = ns[Root]
  BY NewNodeType, AppendType
<1>2. Extends(ns, ns1)
  BY ExtendsAppend
<1> HIDE DEF ns1
<1>3. Sound(ns1) /\ Root \in 1 .. Len(ns1)
  BY <1>1, <1>2 DEF Extends
<1>4. /\ Extends(ns1, ns2) /\ Len(ns2) = Len(ns1)
      /\ Len(ns2[Root].members) = Len(ns1[Root].members) + 1
      /\ ns2[Root].members[Len(ns1[Root].members) + 1] = n
  BY <1>1, <1>3, ExtendsPush
<1> HIDE DEF ns2
<1>5. Extends(ns, ns2) /\ Len(ns2) = n
  BY <1>1, <1>2, <1>4, ExtendsTrans
<1>6. i \in 1 .. Len(ns2[Root].members) /\ ns2[Root].members[i] = n
  BY <1>1, <1>4, MembersType
<1>7. ns2 \in Seq(Node) /\ Sound(ns2) /\ Root \in 1 .. Len(ns2) /\ n \in 1 .. Len(ns2)
  BY <1>1, <1>3, <1>4, <1>5 DEF Extends
<1>8. Extends(ns2, ns3) /\ Len(ns3) = Len(ns2)
  BY <1>6, <1>7, ExtendsIndex
<1>9. Extends(ns, ns3)
  BY <1>5, <1>8, ExtendsTrans
<1> QED
  BY <1>5, <1>6, <1>8, <1>9 DEF ns1, ns2, ns3

-----------------------------------------------------------------------------
(* The steps that change the AST. *)

AstStep ==
  \/ TypeName \/ CustomType \/ TypeSuffix \/ FieldName \/ LeaveField
  \/ ItemName \/ ItemValue \/ LeaveItem \/ LinkMember \/ LeaveBody
  \/ DeclIndex \/ ImportMember
  \/ \E k \in {"class", "struct", "enum"} : BeginDecl(k)

\* The control part: where the step goes and what it consumes.
LEMMA AstControl ==
  ASSUME TypeOK, EndNotConsumed, AstStep
  PROVE  /\ Exited
         /\ cur' \in Nat /\ cur' < Len(tokens)
         /\ UNCHANGED << tokens, ctx, errors, path, result, attached >>
<1>a. /\ \A to \in PCs : Goto(to) => Exited
      /\ \A k \in ErrorKind, to \in PCs : Throw(ErrorAt(k), to) => Exited
      /\ \A to \in PCs : OutOfMemory(to) => Exited
      /\ Landing[ctx] \in PCs
  BY ErrorAtType, ExitsType DEF TypeOK
<1>b. /\ cur + 1 \in 1 .. Len(tokens)
      /\ Tok # "End" => cur + 1 < Len(tokens)
      /\ Tok # "End" /\ Tok2 # "End" => cur + 2 < Len(tokens)
      /\ "End" \notin Names
  BY Peek, NamesAreNotKinds
<1>x. Conflict(decl) \in Error /\ (field # 0 => Conflict(field) \in Error)
  BY ConflictType DEF TypeOK
<1>y. \A to \in PCs, e \in Error : Throw(e, to) => Exited
  BY ExitsType DEF TypeOK
<1>c. Exited
  <2> USE <1>a
  <2>1. CASE TypeName
    BY <2>1 DEF TypeName, PCs, ErrorKind
  <2>2. CASE CustomType
    BY <2>2 DEF CustomType, PCs, ErrorKind
  <2>3. CASE TypeSuffix
    BY <2>3 DEF TypeSuffix, PCs, ErrorKind
  <2>4. CASE FieldName
    BY <2>4 DEF FieldName, PCs, ErrorKind
  <2>5. CASE LeaveField
    BY <2>5 DEF LeaveField, PCs, ErrorKind
  <2>6. CASE ItemName
    BY <2>6 DEF ItemName, PCs, ErrorKind
  <2>7. CASE ItemValue
    BY <2>7 DEF ItemValue, PCs, ErrorKind
  <2>8. CASE LeaveItem
    BY <2>8 DEF LeaveItem, PCs, ErrorKind
  <2>9. CASE LinkMember
    BY <2>9, <1>x, <1>y DEF LinkMember, PCs, ErrorKind
  <2>10. CASE LeaveBody
    BY <2>10 DEF LeaveBody, PCs, ErrorKind
  <2>11. CASE DeclIndex
    BY <2>11, <1>x, <1>y DEF DeclIndex, PCs, ErrorKind
  <2>12. CASE ImportMember
    BY <2>12 DEF ImportMember, PCs, ErrorKind
  <2>13. CASE \E k \in {"class", "struct", "enum"} : BeginDecl(k)
    BY <2>13 DEF BeginDecl, PCs, ErrorKind
  <2> QED
    BY <2>1, <2>2, <2>3, <2>4, <2>5, <2>6, <2>7, <2>8, <2>9, <2>10, <2>11,
       <2>12, <2>13 DEF AstStep
<1>d. /\ cur' \in Nat /\ cur' < Len(tokens)
      /\ UNCHANGED << tokens, ctx, errors, path, result, attached >>
  <2> USE <1>b DEF Consume, TypeOK, EndNotConsumed
  <2>1. CASE TypeName
    BY <2>1 DEF TypeName
  <2>2. CASE CustomType
    BY <2>2 DEF CustomType
  <2>3. CASE TypeSuffix
    BY <2>3 DEF TypeSuffix
  <2>4. CASE FieldName
    <3>1. /\ UNCHANGED << tokens, ctx, errors, path, result, attached >>
          /\ \/ cur' = cur
             \/ Tok # "End" /\ cur' = cur + 1
             \/ Tok # "End" /\ Tok2 # "End" /\ cur' = cur + 2
      BY <2>4 DEF FieldName
    <3> QED
      BY <3>1
  <2>5. CASE LeaveField
    BY <2>5 DEF LeaveField
  <2>6. CASE ItemName
    BY <2>6 DEF ItemName
  <2>7. CASE ItemValue
    BY <2>7 DEF ItemValue
  <2>8. CASE LeaveItem
    BY <2>8 DEF LeaveItem
  <2>9. CASE LinkMember
    BY <2>9 DEF LinkMember
  <2>10. CASE LeaveBody
    BY <2>10 DEF LeaveBody
  <2>11. CASE DeclIndex
    BY <2>11 DEF DeclIndex
  <2>12. CASE ImportMember
    <3>1. /\ UNCHANGED << tokens, ctx, errors, path, result, attached >>
          /\ \/ cur' = cur
             \/ Tok # "End" /\ cur' = cur + 1
             \/ Tok # "End" /\ Tok2 # "End" /\ cur' = cur + 2
      BY <2>12 DEF ImportMember
    <3> QED
      BY <3>1
  <2>13. CASE \E k \in {"class", "struct", "enum"} : BeginDecl(k)
    <3>1. /\ UNCHANGED << tokens, ctx, errors, path, result, attached >>
          /\ \/ cur' = cur
             \/ Tok # "End" /\ cur' = cur + 1
             \/ Tok # "End" /\ Tok2 # "End" /\ cur' = cur + 2
      BY <2>13 DEF BeginDecl
    <3> QED
      BY <3>1
  <2> QED
    BY <2>1, <2>2, <2>3, <2>4, <2>5, <2>6, <2>7, <2>8, <2>9, <2>10, <2>11,
       <2>12, <2>13 DEF AstStep
<1> QED
  BY <1>c, <1>d

\* The data part: the AST grows, the locals stay in it, and idx_member is the
\* position of a root member once a declaration has set it.
LocalsOK ==
  /\ decl' \in 1 .. Len(nodes') /\ field' \in 0 .. Len(nodes')
  /\ slot' \in Nat
  /\ (slot' = slot /\ decl' = decl) \/ LinkedAt(nodes', slot', decl')

\* The facts about the types that the steps on the AST rest on.
LEMMA AstTypes ==
  ASSUME TypeOK
  PROVE  /\ nodes \in Seq(Node) /\ Root \in 1 .. Len(nodes)
         /\ decl \in 1 .. Len(nodes) /\ decl \in Nat
         /\ field \in 0 .. Len(nodes) /\ field \in Nat
         /\ slot \in Nat
         /\ TypeOwner \in Nat
BY DEF TypeOK, Root, TypeOwner

\* A step that writes types, values or ranges.
LEMMA AstSameLinks ==
  ASSUME TypeOK, Sound(nodes), SameLinks(nodes, nodes'), UNCHANGED << decl, slot, field >>
  PROVE  Extends(nodes, nodes') /\ LocalsOK
<1>1. Extends(nodes, nodes') /\ Len(nodes') = Len(nodes)
  BY AstTypes, ExtendsSameLinks
<1> QED
  BY <1>1, AstTypes DEF LocalsOK

\* A step that leaves the AST as it is.
LEMMA AstUnchanged ==
  ASSUME TypeOK, Sound(nodes), UNCHANGED << nodes, decl, slot >>, field' \in 0 .. Len(nodes)
  PROVE  Extends(nodes, nodes') /\ LocalsOK
<1>1. Extends(nodes, nodes') /\ Len(nodes') = Len(nodes)
  BY AstTypes, ExtendsRefl
<1> QED
  BY <1>1, AstTypes DEF LocalsOK

\* A step that makes a field or an item.
LEMMA AstAppend ==
  ASSUME TypeOK, Sound(nodes), NEW name \in Keys, NEW k \in {"var", "item"},
         nodes' = Append(nodes, NewNode(k, name)),
         field' = Len(nodes) + 1, UNCHANGED << decl, slot >>
  PROVE  Extends(nodes, nodes') /\ LocalsOK
<1>1. Extends(nodes, nodes')
  BY AstTypes, ExtendsAppend
<1>2. Len(nodes') = Len(nodes) + 1
  BY AstTypes, NewNodeType, AppendType
<1> QED
  BY <1>1, <1>2, AstTypes DEF LocalsOK

\* The data part: every step on the AST extends it, and decl, idx_member and
\* member_field stay good.
LEMMA AstData ==
  ASSUME TypeOK, Sound(nodes), AstStep, pc = "decl_index" => LinkedAt(nodes, slot, decl)
  PROVE  Extends(nodes, nodes') /\ LocalsOK
<1>a. /\ nodes \in Seq(Node) /\ Root \in 1 .. Len(nodes)
      /\ decl \in 1 .. Len(nodes) /\ decl \in Nat
      /\ field \in 0 .. Len(nodes) /\ field \in Nat
      /\ slot \in Nat
      /\ TypeOwner \in Nat
  BY AstTypes
<1>b. Names \subseteq Keys /\ "" \in Keys
  BY NamesAreNotKinds
<1>t. ASSUME NEW t \in {"null", "builtin", "custom", "array"}, SetType(t),
             UNCHANGED << decl, slot, field >>
      PROVE  Extends(nodes, nodes') /\ LocalsOK
  <2>1. SameLinks(nodes, nodes')
    BY <1>a, <1>t, SetTypeLinks DEF SetType
  <2> QED
    BY <2>1, <1>t, AstSameLinks
<1>u. ASSUME UNCHANGED << nodes, decl, slot, field >>
      PROVE  Extends(nodes, nodes') /\ LocalsOK
  BY <1>a, <1>u, AstUnchanged
<1>v. ASSUME NEW q \in Nat, nodes' = [nodes EXCEPT ![q].ranged = TRUE],
             UNCHANGED << decl, slot, field >>
      PROVE  Extends(nodes, nodes') /\ LocalsOK
  <2>1. SameLinks(nodes, nodes')
    BY <1>a, <1>v, SetRangedLinks
  <2> QED
    BY <2>1, <1>v, AstSameLinks
<1>1. CASE TypeName
  <2>1. /\ SetType("builtin") \/ UNCHANGED nodes
        /\ UNCHANGED << decl, slot, field >>
    BY <1>1 DEF TypeName
  <2> QED
    BY <2>1, <1>t, <1>u
<1>2. CASE CustomType
  <2>1. /\ SetType("custom") \/ UNCHANGED nodes
        /\ UNCHANGED << decl, slot, field >>
    BY <1>2 DEF CustomType
  <2> QED
    BY <2>1, <1>t, <1>u
<1>3. CASE TypeSuffix
  <2>1. /\ SetType("array") \/ SetType("null") \/ UNCHANGED nodes
        /\ UNCHANGED << decl, slot, field >>
    BY <1>3 DEF TypeSuffix
  <2> QED
    BY <2>1, <1>t, <1>u
<1>4. CASE FieldName
  <2>1. /\ UNCHANGED << decl, slot >>
        /\ \/ UNCHANGED << nodes, field >>
           \/ UNCHANGED nodes /\ field' = 0
           \/ \E name \in Keys : /\ nodes' = Append(nodes, NewNode("var", name))
                                /\ field' = Len(nodes) + 1
    BY <1>4, <1>b DEF FieldName
  <2> QED
    BY <2>1, <1>a, <1>u, AstUnchanged, AstAppend
<1>5. CASE LeaveField
  BY <1>5, <1>a, <1>v DEF LeaveField
<1>6. CASE ItemName
  <2>1. /\ UNCHANGED << decl, slot >>
        /\ \/ UNCHANGED << nodes, field >>
           \/ \E name \in Keys : /\ nodes' = Append(nodes, NewNode("item", name))
                                /\ field' = Len(nodes) + 1
    BY <1>6, <1>b DEF ItemName
  <2> QED
    BY <2>1, <1>a, <1>u, AstUnchanged, AstAppend
<1>7. CASE ItemValue
  <2>1. /\ UNCHANGED << decl, slot, field >>
        /\ \/ UNCHANGED nodes
           \/ \E v \in {"lit", "bad"} : nodes' = [nodes EXCEPT ![field].value = v]
    BY <1>7 DEF ItemValue
  <2>2. ASSUME NEW v \in {"lit", "bad"}, nodes' = [nodes EXCEPT ![field].value = v]
        PROVE  SameLinks(nodes, nodes')
    <3>1. SameLinks(nodes, [nodes EXCEPT ![field].value = v])
      BY <1>a, SetValueLinks
    <3> QED
      BY <3>1, <2>2
  <2> QED
    BY <2>1, <2>2, <1>u, AstSameLinks
<1>8. CASE LeaveItem
  BY <1>8, <1>a, <1>v DEF LeaveItem
<1>9. CASE LeaveBody
  BY <1>9, <1>a, <1>v DEF LeaveBody
<1>10. CASE LinkMember
  <2> DEFINE pushed == PushMember(nodes, decl, field)
             i == Len(nodes[decl].members) + 1
  <2>1. /\ Extends(nodes, pushed) /\ Len(pushed) = Len(nodes)
        /\ Len(pushed[decl].members) = i /\ pushed[decl].members[i] = field
    BY <1>a, ExtendsPush
  <2>2. /\ UNCHANGED << decl, slot, field >>
        /\ \/ UNCHANGED nodes
           \/ nodes' = pushed
           \/ field # 0 /\ nodes' = IndexMember(pushed, decl, Len(pushed[decl].members))
    BY <1>10 DEF LinkMember
  <2>3. pushed \in Seq(Node) /\ Sound(pushed)
    BY <2>1 DEF Extends
  <2> HIDE DEF pushed
  <2>4. i \in 1 .. Len(pushed[decl].members)
    BY <2>1, <1>a, MembersType
  <2>5. ASSUME field # 0
        PROVE  /\ Extends(nodes, IndexMember(pushed, decl, i))
               /\ Len(IndexMember(pushed, decl, i)) = Len(nodes)
    <3>1. field \in 1 .. Len(nodes)
      BY <1>a, <2>5
    <3>2. /\ Extends(pushed, IndexMember(pushed, decl, i))
          /\ Len(IndexMember(pushed, decl, i)) = Len(pushed)
      BY <1>a, <2>1, <2>3, <2>4, <3>1, ExtendsIndex
    <3> QED
      BY <1>a, <2>1, <3>2, ExtendsTrans
  <2> HIDE DEF i
  <2>6. Extends(nodes, nodes') /\ Len(nodes') = Len(nodes)
    BY <1>a, <2>1, <2>2, <2>5, ExtendsRefl
  <2> QED
    BY <1>a, <2>2, <2>6 DEF LocalsOK
<1>11. CASE DeclIndex
  <2>1. /\ UNCHANGED << decl, slot, field >> /\ pc = "decl_index"
        /\ UNCHANGED nodes \/ nodes' = IndexMember(nodes, Root, slot)
    BY <1>11 DEF DeclIndex
  <2>2. /\ Extends(nodes, IndexMember(nodes, Root, slot))
        /\ Len(IndexMember(nodes, Root, slot)) = Len(nodes)
    BY <1>a, <2>1, ExtendsIndex DEF LinkedAt
  <2>3. Extends(nodes, nodes') /\ Len(nodes') = Len(nodes)
    BY <1>a, <2>1, <2>2, ExtendsRefl
  <2> QED
    BY <1>a, <2>1, <2>3 DEF LocalsOK
<1>12. CASE ImportMember
  <2> DEFINE n == Len(nodes) + 1
             i == Len(nodes[Root].members) + 1
             Pushed(name) == PushMember(Append(nodes, NewNode("import", name)), Root, n)
  <2>1. ASSUME NEW name \in Keys
        PROVE  /\ Extends(nodes, Pushed(name)) /\ Len(Pushed(name)) = n
               /\ Extends(nodes, IndexMember(Pushed(name), Root, i))
               /\ Len(IndexMember(Pushed(name), Root, i)) = n
    BY <1>a, ExtendsNewMember
  <2>2. /\ UNCHANGED << decl, slot, field >>
        /\ \/ UNCHANGED nodes
           \/ \E name \in Keys : \/ nodes' = Pushed(name)
                                \/ nodes' = IndexMember(Pushed(name), Root, i)
    BY <1>12, <1>b DEF ImportMember
  <2> HIDE DEF n, i, Pushed
  <2>3. Extends(nodes, nodes') /\ Len(nodes') \in {Len(nodes), n}
    BY <1>a, <2>1, <2>2, ExtendsRefl
  <2> USE DEF n
  <2> QED
    BY <1>a, <2>2, <2>3 DEF LocalsOK
<1>13. ASSUME NEW k \in {"class", "struct", "enum"}, BeginDecl(k)
       PROVE  Extends(nodes, nodes') /\ LocalsOK
  <2> DEFINE n == Len(nodes) + 1
             i == Len(nodes[Root].members) + 1
             Pushed(name) == PushMember(Append(nodes, NewNode(k, name)), Root, n)
  <2>1. ASSUME NEW name \in Keys
        PROVE  /\ Extends(nodes, Pushed(name)) /\ Len(Pushed(name)) = n
               /\ i \in 1 .. Len(Pushed(name)[Root].members)
               /\ Pushed(name)[Root].members[i] = n
    BY <1>a, ExtendsNewMember
  <2>2. /\ UNCHANGED field
        /\ \/ UNCHANGED << nodes, decl, slot >>
           \/ /\ decl' = n /\ slot' = i
              /\ \E name \in Keys : nodes' = Pushed(name)
    BY <1>13, <1>b DEF BeginDecl
  <2>3. CASE UNCHANGED << nodes, decl, slot >>
    BY <2>2, <2>3, <1>u
  <2>4. CASE decl' = n /\ slot' = i /\ \E name \in Keys : nodes' = Pushed(name)
    <3>1. PICK name \in Keys : nodes' = Pushed(name)
      BY <2>4
    <3>2. n \in 1 .. n /\ n \in Nat /\ n > Len(nodes)
      BY <1>a
    <3>3. i \in Nat
      BY <1>a
    <3> HIDE DEF n, i, Pushed
    <3>4. /\ Extends(nodes, nodes') /\ Len(nodes') = n
          /\ i \in 1 .. Len(nodes'[Root].members)
          /\ nodes'[Root].members[i] = n
      BY <2>1, <3>1
    <3> QED
      BY <2>2, <2>4, <3>2, <3>3, <3>4, <1>a DEF LocalsOK, LinkedAt
  <2> QED
    BY <2>2, <2>3, <2>4
<1> QED
  BY <1>1, <1>2, <1>3, <1>4, <1>5, <1>6, <1>7, <1>8, <1>9, <1>10, <1>11, <1>12, <1>13
     DEF AstStep

-----------------------------------------------------------------------------
(* The inductive invariant: the index is sound as long as idx_member is the  *)
(* position of a member, and that is so because of where the parser is.      *)

IInv == TypeOK /\ EndNotConsumed /\ IndexSound /\ SlotLinked

\* The inductive invariant holds initially.
LEMMA IInvInit == Init => IInv
<1> SUFFICES ASSUME Init PROVE IInv
  OBVIOUS
<1>1. TypeOK /\ EndNotConsumed
  BY TypeInit
<1>2. IndexSound
  <2>1. nodes = << NewNode("root", "") >>
    BY DEF Init
  <2>2. \A x : Len(<< x >>) = 1 /\ << x >>[1] = x
    OBVIOUS
  <2>3. ASSUME NEW p \in 1 .. Len(nodes)
        PROVE  nodes[p] = NewNode("root", "")
    <3>1. Len(nodes) = 1 /\ nodes[1] = NewNode("root", "")
      BY <2>1, <2>2, Zenon
    <3>2. p = 1
      <4>1. p \in 1 .. 1
        BY <3>1, Zenon
      <4> QED
        BY <4>1
    <3> QED
      BY <3>1, <3>2
  <2>4. \A k \in Keys : NewNode("root", "").index[k] = 0
    BY DEF NewNode
  <2>5. \A p \in 1 .. Len(nodes), k \in Keys : ~Indexed(nodes, p, k)
    BY <2>3, <2>4 DEF Indexed
  <2> QED
    BY <2>5 DEF IndexSound, Sound
<1>3. SlotLinked
  BY DEF Init, SlotLinked, BodyPCs
<1> QED
  BY <1>1, <1>2, <1>3 DEF IInv

\* idx_member is set before the parser enters the body of a declaration, and
\* the contexts that lead back into a body are set inside it.
LEMMA SlotStep ==
  ASSUME IInv, Next, slot' # 0 \/ slot' = slot
  PROVE  pc' \in BodyPCs \/ ctx' \in {"field", "base"} => slot' # 0
<1> SUFFICES ASSUME slot = 0, slot' = 0
             PROVE  pc' \notin BodyPCs /\ ctx' \notin {"field", "base"}
  BY DEF IInv, SlotLinked
<1>1. pc \notin BodyPCs /\ ctx \in {"module", "import"}
  BY DEF IInv, SlotLinked, TypeOK
<1>2. /\ Landing[ctx] \in {"catch_module", "catch_stmt"}
      /\ Return[ctx] \in {"module_semi", "import_member"}
  BY <1>1 DEF Landing, Return
<1>3. Len(nodes[Root].members) + 1 # 0
  BY MembersType, AstTypes DEF IInv
<1> USE <1>1, <1>2 DEF Goto, Throw, OutOfMemory, BodyPCs
<1>4. CASE ParseProgram
  BY <1>4 DEF ParseProgram
<1>5. CASE CatchModule
  BY <1>5 DEF CatchModule
<1>6. CASE ModuleSemi
  BY <1>6 DEF ModuleSemi
<1>7. CASE IdRefScope
  BY <1>7 DEF IdRefScope
<1>8. CASE IdRefName
  BY <1>8 DEF IdRefName
<1>9. CASE BaseColon
  BY <1>9 DEF BaseColon
<1>10. CASE BodyOpen
  BY <1>10 DEF BodyOpen
<1>11. CASE FieldColon
  BY <1>11 DEF FieldColon
<1>12. CASE CatchField
  BY <1>12 DEF CatchField
<1>13. CASE ItemAssign
  BY <1>13 DEF ItemAssign
<1>14. CASE Comma
  BY <1>14 DEF Comma
<1>15. CASE BodyClose
  BY <1>15 DEF BodyClose
<1>16. CASE BeginImport
  BY <1>16 DEF BeginImport
<1>17. CASE ImportSemi
  BY <1>17 DEF ImportSemi
<1>18. CASE NotADecl
  BY <1>18 DEF NotADecl
<1>19. CASE CatchStmt
  BY <1>19 DEF CatchStmt
<1>20. CASE Finish
  BY <1>20 DEF Finish
<1>21. CASE DestroyParser
  BY <1>21 DEF DestroyParser
<1>22. CASE Terminating
  BY <1>22 DEF Terminating, vars
<1>23. CASE TypeName
  BY <1>23 DEF TypeName
<1>24. CASE CustomType
  BY <1>24 DEF CustomType
<1>25. CASE TypeSuffix
  BY <1>25 DEF TypeSuffix
<1>26. CASE FieldName
  BY <1>26 DEF FieldName
<1>27. CASE LeaveField
  BY <1>27 DEF LeaveField
<1>28. CASE ItemName
  BY <1>28 DEF ItemName
<1>29. CASE ItemValue
  BY <1>29 DEF ItemValue
<1>30. CASE LeaveItem
  BY <1>30 DEF LeaveItem
<1>31. CASE LinkMember
  BY <1>31 DEF LinkMember
<1>32. CASE LeaveBody
  BY <1>32 DEF LeaveBody
<1>33. CASE DeclIndex
  BY <1>33 DEF DeclIndex
<1>34. CASE ImportMember
  BY <1>34 DEF ImportMember
<1>35. ASSUME NEW k \in {"class", "struct", "enum"}, BeginDecl(k)
      PROVE  pc' \notin BodyPCs /\ ctx' \notin {"field", "base"}
  BY <1>35, <1>3 DEF BeginDecl
<1> QED
  BY <1>4, <1>5, <1>6, <1>7, <1>8, <1>9, <1>10, <1>11, <1>12, <1>13, <1>14,
     <1>15, <1>16, <1>17, <1>18, <1>19, <1>20, <1>21, <1>22, <1>23, <1>24,
     <1>25, <1>26, <1>27, <1>28, <1>29, <1>30, <1>31, <1>32, <1>33, <1>34, <1>35
     DEF Next

\* Every step of the parser keeps the inductive invariant.
LEMMA IInvStep == IInv /\ [Next]_vars => IInv'
<1> SUFFICES ASSUME IInv, [Next]_vars PROVE IInv'
  OBVIOUS
<1>a. /\ TypeOK /\ EndNotConsumed /\ Sound(nodes)
      /\ pc = "decl_index" => LinkedAt(nodes, slot, decl)
  BY DEF IInv, IndexSound, SlotLinked, BodyPCs
<1>1. CASE UNCHANGED vars
  BY <1>1 DEF vars, IInv, TypeOK, EndNotConsumed, IndexSound, Sound, Indexed,
     SlotLinked, LinkedAt
<1>2. CASE Next
  <2>1. AstStep \/ \/ ParseProgram \/ CatchModule \/ ModuleSemi \/ IdRefScope \/ IdRefName
                    \/ BaseColon \/ BodyOpen \/ FieldColon \/ CatchField \/ ItemAssign
                    \/ Comma \/ BodyClose \/ BeginImport \/ ImportSemi \/ NotADecl
                    \/ CatchStmt \/ Finish \/ DestroyParser \/ Terminating
    BY <1>2 DEF Next, AstStep
  <2>2. TypeOK' /\ EndNotConsumed' /\ Extends(nodes, nodes')
        /\ ((slot' = slot /\ decl' = decl) \/ LinkedAt(nodes', slot', decl'))
    <3>1. CASE AstStep
      <4>1. /\ Exited /\ cur' \in Nat /\ cur' < Len(tokens)
            /\ UNCHANGED << tokens, ctx, errors, path, result, attached >>
        BY <3>1, <1>a, AstControl
      <4>2. Extends(nodes, nodes') /\ LocalsOK
        BY <3>1, <1>a, AstData
      <4>3. TypeOK'
        BY <4>1, <4>2, <1>a, TypeFrame DEF Extends, LocalsOK, TypeOK
      <4> QED
        BY <4>1, <4>2, <4>3 DEF EndNotConsumed, LocalsOK
    <3>2. CASE ~AstStep
      <4>1. TypeOK' /\ EndNotConsumed' /\ UNCHANGED << nodes, decl, slot >>
        BY <2>1, <3>2, <1>a, TypeControl
      <4>2. Extends(nodes, nodes)
        BY <1>a, AstTypes, ExtendsRefl
      <4> QED
        BY <4>1, <4>2
    <3> QED
      BY <3>1, <3>2
  <2>3. slot' # 0 \/ slot' = slot
    BY <2>2 DEF LinkedAt
  <2>4. pc' \in BodyPCs \/ ctx' \in {"field", "base"} => slot' # 0
    BY <1>2, <2>3, SlotStep
  <2>5. slot' # 0 => LinkedAt(nodes', slot', decl')
    <3>1. CASE slot' = slot /\ decl' = decl
      BY <2>2, <3>1 DEF IInv, SlotLinked, LinkedAt, Extends
    <3> QED
      BY <3>1, <2>2
  <2> QED
    BY <2>2, <2>4, <2>5 DEF IInv, IndexSound, SlotLinked, Extends
<1> QED
  BY <1>1, <1>2

\* The inductive invariant holds throughout: the types, the End token, the index
\* and idx_member depend on one another and are proved together.
THEOREM Invariance == Spec => []IInv
BY IInvInit, IInvStep, PTL DEF Spec

\* Type correctness: the parser's locals always name nodes of the AST.
THEOREM TypeCorrect == Spec => []TypeOK
<1>1. IInv => TypeOK
  BY DEF IInv
<1> QED
  BY <1>1, Invariance, PTL

\* The parser never reads past the End token, whatever the input.
THEOREM NeverPastEnd == Spec => []EndNotConsumed
<1>1. IInv => EndNotConsumed
  BY DEF IInv
<1> QED
  BY <1>1, Invariance, PTL

\* member_indices leads to the member it names, whatever failed before.
THEOREM IndexCorrect == Spec => []IndexSound
<1>1. IInv => IndexSound
  BY DEF IInv
<1> QED
  BY <1>1, Invariance, PTL

\* idx_member is still right when the body of the declaration is complete.
THEOREM SlotCorrect == Spec => []SlotLinked
<1>1. IInv => SlotLinked
  BY DEF IInv
<1> QED
  BY <1>1, Invariance, PTL

-----------------------------------------------------------------------------
(* No error is dropped: between the place that returns an error and the      *)
(* handler that takes it only scope guards run.                              *)

ErrorPCs == { "catch_module", "catch_field", "catch_stmt", "leave_field",
              "leave_item", "leave_body", "returned", "crashed", "aborted",
              "destroyed" }
InFlight == pending # NoError => pc \in ErrorPCs

\* What NoErrorDropped says of a step.
Kept ==
  pending # NoError /\ pending' # pending =>
    \/ pending' = NoError /\ errors' = Append(errors, pending)
    \/ pending' = ErrorAt("OutOfMemory") /\ oom' < oom

\* An error in flight is at a handler or at a scope guard, and a step from there
\* keeps it, records it or replaces it by an out-of-memory error.
LEMMA InFlightStep ==
  ASSUME TypeOK, InFlight, Next
  PROVE  InFlight' /\ Kept
<1>1. /\ Landing[ctx] \in ErrorPCs
      /\ oom \in Nat
  BY MaxOOMAssumption DEF TypeOK, Landing, ErrorPCs
<1> USE <1>1 DEF Goto, Throw, OutOfMemory, ErrorPCs, InFlight, Kept
<1>2. CASE ParseProgram
  BY <1>2 DEF ParseProgram
<1>3. CASE CatchModule
  BY <1>3 DEF CatchModule
<1>4. CASE ModuleSemi
  BY <1>4 DEF ModuleSemi
<1>5. CASE IdRefScope
  BY <1>5 DEF IdRefScope
<1>6. CASE IdRefName
  BY <1>6 DEF IdRefName
<1>7. CASE BaseColon
  BY <1>7 DEF BaseColon
<1>8. CASE BodyOpen
  BY <1>8 DEF BodyOpen
<1>9. CASE FieldColon
  BY <1>9 DEF FieldColon
<1>10. CASE CatchField
  BY <1>10 DEF CatchField
<1>11. CASE ItemAssign
  BY <1>11 DEF ItemAssign
<1>12. CASE Comma
  BY <1>12 DEF Comma
<1>13. CASE BodyClose
  BY <1>13 DEF BodyClose
<1>14. CASE BeginImport
  BY <1>14 DEF BeginImport
<1>15. CASE ImportSemi
  BY <1>15 DEF ImportSemi
<1>16. CASE NotADecl
  BY <1>16 DEF NotADecl
<1>17. CASE CatchStmt
  BY <1>17 DEF CatchStmt
<1>18. CASE Finish
  BY <1>18 DEF Finish
<1>19. CASE DestroyParser
  BY <1>19 DEF DestroyParser
<1>20. CASE Terminating
  BY <1>20 DEF Terminating, vars
<1>21. CASE TypeName
  BY <1>21 DEF TypeName
<1>22. CASE CustomType
  BY <1>22 DEF CustomType
<1>23. CASE TypeSuffix
  BY <1>23 DEF TypeSuffix
<1>24. CASE FieldName
  BY <1>24 DEF FieldName
<1>25. CASE LeaveField
  BY <1>25 DEF LeaveField
<1>26. CASE ItemName
  BY <1>26 DEF ItemName
<1>27. CASE ItemValue
  BY <1>27 DEF ItemValue
<1>28. CASE LeaveItem
  BY <1>28 DEF LeaveItem
<1>29. CASE LinkMember
  BY <1>29 DEF LinkMember
<1>30. CASE LeaveBody
  BY <1>30 DEF LeaveBody
<1>31. CASE DeclIndex
  BY <1>31 DEF DeclIndex
<1>32. CASE ImportMember
  BY <1>32 DEF ImportMember
<1>33. ASSUME NEW k \in {"class", "struct", "enum"}, BeginDecl(k)
      PROVE  InFlight' /\ Kept
  BY <1>33 DEF BeginDecl
<1> QED
  BY <1>2, <1>3, <1>4, <1>5, <1>6, <1>7, <1>8, <1>9, <1>10, <1>11, <1>12, <1>13,
     <1>14, <1>15, <1>16, <1>17, <1>18, <1>19, <1>20, <1>21, <1>22, <1>23,
     <1>24, <1>25, <1>26, <1>27, <1>28, <1>29, <1>30, <1>31, <1>32, <1>33 DEF
     Next

\* No handler drops the error in flight: it is recorded in syntax_errors, or
\* gives way to an out-of-memory error, or is returned to main.
THEOREM ErrorsKept == Spec => NoErrorDropped
<1>1. Init => InFlight
  BY DEF Init, InFlight
<1>2. TypeOK /\ InFlight /\ [Next]_vars => InFlight'
  <2>1. UNCHANGED vars /\ InFlight => InFlight'
    BY DEF vars, InFlight
  <2> QED
    BY <2>1, InFlightStep
<1>3. TypeOK /\ InFlight /\ [Next]_vars => [Kept]_vars
  BY InFlightStep
<1>4. Spec => [][Kept]_vars
  BY <1>1, <1>2, <1>3, TypeCorrect, PTL DEF Spec
<1> QED
  BY <1>4 DEF NoErrorDropped, Kept

-----------------------------------------------------------------------------
(* What a silent parse leaves behind.  The AST is complete but for the member *)
(* the parser is working on: the declaration whose body is not closed yet.    *)

\* Member i of node p of ns is one the generators can work on.
GoodMember(ns, p, i) ==
  LET m == ns[p].members[i] IN
  /\ m \in 1 .. Len(ns)
  /\ ns[m].kind # "import" => ns[p].index[ns[m].name] = i
  /\ ns[m].kind \in {"var", "enum"} => ns[m].type # "null"

\* All members are good, except the ones at the places X.
GoodBut(ns, X) ==
  \A p \in 1 .. Len(ns) : \A i \in 1 .. Len(ns[p].members) :
    << p, i >> \in X \/ GoodMember(ns, p, i)

\* ns2 has the types of ns where it has not better ones.
KeepsTypes(ns, ns2) ==
  \A q \in 1 .. Len(ns) : ns[q].type # "null" => ns2[q].type # "null"

\* More places may be left out.
LEMMA GoodButMore ==
  ASSUME NEW ns, NEW X, NEW Y, GoodBut(ns, X), X \subseteq Y
  PROVE  GoodBut(ns, Y)
BY DEF GoodBut

\* A new node has no members and disturbs none.
LEMMA GoodButAppend ==
  ASSUME NEW ns \in Seq(Node), NEW X, GoodBut(ns, X), NEW name \in Keys,
         NEW k \in {"root", "class", "struct", "enum", "import", "var", "item"}
  PROVE  GoodBut(Append(ns, NewNode(k, name)), X)
<1> DEFINE ns2 == Append(ns, NewNode(k, name))
<1>1. /\ ns2 \in Seq(Node) /\ Len(ns2) = Len(ns) + 1
      /\ ns2[Len(ns) + 1] = NewNode(k, name)
      /\ \A q \in 1 .. Len(ns) : ns2[q] = ns[q]
  BY NewNodeType, AppendType
<1>2. NewNode(k, name).members = << >>
  BY DEF NewNode
<1> SUFFICES ASSUME NEW p \in 1 .. Len(ns2), NEW i \in 1 .. Len(ns2[p].members),
                    << p, i >> \notin X
             PROVE  GoodMember(ns2, p, i)
  BY DEF GoodBut
<1>3. p \in 1 .. Len(ns)
  BY <1>1, <1>2
<1>4. ns2[p] = ns[p] /\ GoodMember(ns, p, i)
  BY <1>1, <1>3 DEF GoodBut
<1> HIDE DEF ns2
<1> QED
  BY <1>1, <1>4 DEF GoodMember

\* Types that are written, values and ranges spoil no member.
LEMMA GoodButSameLinks ==
  ASSUME NEW ns \in Seq(Node), NEW ns2, NEW X, GoodBut(ns, X),
         SameLinks(ns, ns2), KeepsTypes(ns, ns2)
  PROVE  GoodBut(ns2, X)
<1> SUFFICES ASSUME NEW p \in 1 .. Len(ns), NEW i \in 1 .. Len(ns[p].members),
                    << p, i >> \notin X
             PROVE  GoodMember(ns2, p, i)
  BY DEF GoodBut, SameLinks
<1>1. GoodMember(ns, p, i)
  BY DEF GoodBut
<1> QED
  BY <1>1 DEF GoodMember, SameLinks, KeepsTypes

\* push_member adds one place that may not be good; that of an import is.
LEMMA GoodButPush ==
  ASSUME NEW ns \in Seq(Node), NEW X, GoodBut(ns, X), NEW p \in 1 .. Len(ns),
         NEW m \in Nat
  PROVE  LET n == Len(ns[p].members) + 1 IN
         /\ GoodBut(PushMember(ns, p, m), X \cup {<< p, n >>})
         /\ m \in 1 .. Len(ns) /\ ns[m].kind = "import" => GoodBut(PushMember(ns, p, m), X)
<1> DEFINE n == Len(ns[p].members) + 1
           ns2 == PushMember(ns, p, m)
<1>1. ns2 \in Seq(Node) /\ Len(ns2) = Len(ns)
  BY PushMemberType
<1>2. ASSUME NEW q \in 1 .. Len(ns)
      PROVE  /\ ns2[q].name = ns[q].name /\ ns2[q].kind = ns[q].kind
             /\ ns2[q].type = ns[q].type /\ ns2[q].index = ns[q].index
             /\ ns2[q].members = IF q = p THEN Append(ns[q].members, m) ELSE ns[q].members
  BY PushMemberEffect DEF SameName, SameData
<1> HIDE DEF ns2
<1>3. ASSUME NEW q \in 1 .. Len(ns), NEW i \in 1 .. Len(ns2[q].members),
             << q, i >> # << p, n >>
      PROVE  i \in 1 .. Len(ns[q].members) /\ ns2[q].members[i] = ns[q].members[i]
  <2>1. ns[q].members \in Seq(Nat) /\ ns[p].members \in Seq(Nat)
    BY MembersType
  <2>2. CASE q = p
    <3>1. ns2[q].members = Append(ns[q].members, m) /\ i # n
      BY <1>2, <1>3, <2>2
    <3> QED
      BY <3>1, <2>1, <2>2
  <2>3. CASE q # p
    BY <1>2, <2>3
  <2> QED
    BY <2>2, <2>3
<1>4. ASSUME NEW q \in 1 .. Len(ns), NEW i \in 1 .. Len(ns2[q].members),
             << q, i >> # << p, n >>, << q, i >> \notin X
      PROVE  GoodMember(ns2, q, i)
  <2>1. i \in 1 .. Len(ns[q].members) /\ ns2[q].members[i] = ns[q].members[i]
    BY <1>3, <1>4
  <2>2. GoodMember(ns, q, i)
    BY <2>1, <1>4 DEF GoodBut
  <2> QED
    BY <1>1, <1>2, <2>1, <2>2 DEF GoodMember
<1>5. ASSUME m \in 1 .. Len(ns), ns[m].kind = "import"
      PROVE  GoodMember(ns2, p, n)
  <2>1. ns2[p].members = Append(ns[p].members, m) /\ ns[p].members \in Seq(Nat)
    BY <1>2, MembersType
  <2>2. ns2[p].members[n] = m
    BY <2>1
  <2> QED
    BY <1>1, <1>2, <1>5, <2>2 DEF GoodMember
<1> HIDE DEF n
<1>6. GoodBut(ns2, X \cup {<< p, n >>})
  BY <1>1, <1>4 DEF GoodBut
<1>7. ASSUME m \in 1 .. Len(ns), ns[m].kind = "import"
      PROVE  GoodBut(ns2, X)
  BY <1>1, <1>4, <1>5, <1>7 DEF GoodBut
<1> QED
  BY <1>6, <1>7 DEF n, ns2

\* index_member makes a member good when its name was not taken and its type is
\* there; the others stay good because the name was not taken.
LEMMA GoodButIndex ==
  ASSUME NEW ns \in Seq(Node), NEW X, GoodBut(ns, X), NEW p \in 1 .. Len(ns),
         NEW i \in 1 .. Len(ns[p].members), NEW m \in 1 .. Len(ns),
         ns[p].members[i] = m, ~Indexed(ns, p, ns[m].name),
         ns[m].kind \in {"var", "enum"} => ns[m].type # "null"
  PROVE  GoodBut(IndexMember(ns, p, i), X \ {<< p, i >>})
<1> DEFINE ns2 == IndexMember(ns, p, i)
           k == ns[m].name
<1>0. i \in Nat
  BY MembersType
<1>1. ns2 \in Seq(Node) /\ Len(ns2) = Len(ns)
  BY <1>0, IndexMemberType
<1>2. ASSUME NEW q \in 1 .. Len(ns)
      PROVE  /\ ns2[q].name = ns[q].name /\ ns2[q].kind = ns[q].kind
             /\ ns2[q].type = ns[q].type /\ ns2[q].members = ns[q].members
             /\ ns2[q].index = IF q = p THEN [ns[q].index EXCEPT ![k] = i] ELSE ns[q].index
  <2>1. /\ ns2[q].members = ns[q].members
        /\ ns2[q].index = IF q = p THEN [ns[q].index EXCEPT ![ns[ns[p].members[i]].name] = i]
                         ELSE ns[q].index
    BY <1>0, IndexMemberEffect
  <2>2. SameName(ns, IndexMember(ns, p, i), q) /\ SameData(ns, IndexMember(ns, p, i), q)
    <3> HIDE DEF ns2
    <3> QED
      BY <1>0, IndexMemberEffect
  <2> QED
    BY <2>1, <2>2 DEF SameName, SameData
<1>3. ns[p].index \in [Keys -> Nat] /\ k \in Keys
  BY MembersType
<1> HIDE DEF ns2
<1> SUFFICES ASSUME NEW q \in 1 .. Len(ns), NEW j \in 1 .. Len(ns[q].members),
                    << q, j >> \notin X \ {<< p, i >>}
             PROVE  GoodMember(ns2, q, j)
  BY <1>1, <1>2 DEF GoodBut, ns2
<1>4. CASE << q, j >> = << p, i >>
  <2>1. q = p /\ j = i
    BY <1>4
  <2>2. ns2[p].index[k] = i
    BY <1>2, <1>3
  <2>3. ns2[m].name = k /\ ns2[m].kind = ns[m].kind /\ ns2[m].type = ns[m].type
    BY <1>2
  <2>4. ns2[p].members[i] = m
    BY <1>2
  <2> QED
    BY <1>1, <2>1, <2>2, <2>3, <2>4 DEF GoodMember
<1>5. CASE << q, j >> # << p, i >>
  <2>1. GoodMember(ns, q, j)
    BY <1>5 DEF GoodBut
  <2> DEFINE r == ns[q].members[j]
  <2>2. /\ r \in 1 .. Len(ns)
        /\ ns[r].kind # "import" => ns[q].index[ns[r].name] = j
        /\ ns[r].kind \in {"var", "enum"} => ns[r].type # "null"
    BY <2>1 DEF GoodMember
  <2>3. ns2[q].members[j] = r
    BY <1>2
  <2> HIDE DEF r
  <2>4. ASSUME ns[r].kind # "import"
        PROVE  ns2[q].index[ns[r].name] = j
    <3>1. ns[r].name \in Keys /\ j # 0
      BY <2>2, MembersType
    <3>2. CASE q = p
      <4>1. ns[r].name # k
        BY <2>2, <2>4, <3>1, <3>2 DEF Indexed
      <4> QED
        BY <1>2, <1>3, <2>2, <2>4, <3>1, <3>2, <4>1
    <3>3. CASE q # p
      BY <1>2, <2>2, <2>4, <3>3
    <3> QED
      BY <3>2, <3>3
  <2>5. ns2[r].name = ns[r].name /\ ns2[r].kind = ns[r].kind /\ ns2[r].type = ns[r].type
    BY <1>2, <2>2
  <2> QED
    BY <1>1, <2>2, <2>3, <2>4, <2>5 DEF GoodMember
<1> QED
  BY <1>4, <1>5

\* Nothing has gone wrong so far.
Silent == pending = NoError /\ errors = << >>

\* The parser is between the name of a declaration and the end of its body.
InDecl == pc \in BodyPCs \/ (pc \in {"id_ref", "id_ref_name"} /\ ctx \in {"field", "base"})

\* The declaration in work is the one member that need not be complete.
OpenPlace == IF InDecl THEN {<< Root, slot >>} ELSE {}

\* An alias has been indexed, over the member that had its name perhaps, and will
\* be refused because it was not consumed.
AliasLeft == pc = "import_semi" /\ Tok # "Semicolon"

NothingMissing == pc # "crashed" /\ ~AliasLeft => GoodBut(nodes, OpenPlace)

\* An enum has its base type from the end of its base clause on.
TypePCs == {"type", "id_ref", "id_ref_name", "custom_type"}
BasePassed == InDecl /\ pc # "base_colon" /\ ~(pc \in TypePCs /\ ctx = "base")
BaseTyped == BasePassed /\ nodes[decl].kind \in {"var", "enum"} => nodes[decl].type # "null"

\* What is about to be linked is a field with its type, or an item.
ItemPCs == {"item_assign", "item_value", "leave_item"}
TypePassed == (pc = "suffix" /\ ctx = "field") \/ pc = "leave_field"
FieldTyped ==
  field # 0 =>
    /\ TypePassed => nodes[field].type # "null"
    /\ pc \in ItemPCs => nodes[field].kind = "item"
    /\ pc = "member" /\ nodes[field].kind \in {"var", "enum"} => nodes[field].type # "null"

\* Who calls parse_type_name, and what a parse that has succeeded has left to do.
Places ==
  /\ pc \in {"type", "custom_type", "suffix"} => ctx \in {"field", "base"}
  /\ result = "ok" => pc \in {"returned", "aborted", "destroyed"} /\ pending = NoError

SilentInv ==
  /\ IInv /\ InFlight /\ Places
  /\ Silent => NothingMissing /\ BaseTyped /\ FieldTyped

\* The errors that are thrown are errors.
LEMMA ThrownNotNone ==
  /\ \A k \in ErrorKind : k # "none" => ErrorAt(k) # NoError
  /\ \A n : Conflict(n) # NoError
BY DEF ErrorAt, NoError, Conflict

\* parse_type_name is called for a field or a base only, and after success the
\* parser is only destroyed.
LEMMA PlacesStep ==
  ASSUME TypeOK, InFlight, Places, Next
  PROVE  Places'
<1>0. /\ ctx \in {"field", "base"} => Landing[ctx] \in {"leave_field", "leave_body"}
      /\ Landing[ctx] \in {"catch_module", "catch_stmt", "leave_field", "leave_body"}
      /\ Return[ctx] \in {"module_semi", "import_member", "custom_type"}
      /\ Return[ctx] = "custom_type" => ctx \in {"field", "base"}
  BY DEF TypeOK, Landing, Return
<1>1. pc = "stmt" => pending = NoError
  BY DEF InFlight, ErrorPCs
<1> USE <1>0, <1>1 DEF Places, Goto, Throw, OutOfMemory
<1>2. CASE ParseProgram
  BY <1>2 DEF ParseProgram
<1>3. CASE CatchModule
  BY <1>3 DEF CatchModule
<1>4. CASE ModuleSemi
  BY <1>4 DEF ModuleSemi
<1>5. CASE IdRefScope
  BY <1>5 DEF IdRefScope
<1>6. CASE IdRefName
  BY <1>6 DEF IdRefName
<1>7. CASE BaseColon
  BY <1>7 DEF BaseColon
<1>8. CASE BodyOpen
  BY <1>8 DEF BodyOpen
<1>9. CASE FieldColon
  BY <1>9 DEF FieldColon
<1>10. CASE CatchField
  BY <1>10 DEF CatchField
<1>11. CASE ItemAssign
  BY <1>11 DEF ItemAssign
<1>12. CASE Comma
  BY <1>12 DEF Comma
<1>13. CASE BodyClose
  BY <1>13 DEF BodyClose
<1>14. CASE BeginImport
  BY <1>14 DEF BeginImport
<1>15. CASE ImportSemi
  BY <1>15 DEF ImportSemi
<1>16. CASE NotADecl
  BY <1>16 DEF NotADecl
<1>17. CASE CatchStmt
  BY <1>17 DEF CatchStmt
<1>18. CASE Finish
  BY <1>18 DEF Finish
<1>19. CASE DestroyParser
  BY <1>19 DEF DestroyParser
<1>20. CASE Terminating
  BY <1>20 DEF Terminating, vars, Ended
<1>21. CASE TypeName
  BY <1>21 DEF TypeName
<1>22. CASE CustomType
  BY <1>22 DEF CustomType
<1>23. CASE TypeSuffix
  BY <1>23 DEF TypeSuffix
<1>24. CASE FieldName
  BY <1>24 DEF FieldName
<1>25. CASE LeaveField
  BY <1>25 DEF LeaveField
<1>26. CASE ItemName
  BY <1>26 DEF ItemName
<1>27. CASE ItemValue
  BY <1>27 DEF ItemValue
<1>28. CASE LeaveItem
  BY <1>28 DEF LeaveItem
<1>29. CASE LinkMember
  BY <1>29 DEF LinkMember
<1>30. CASE LeaveBody
  BY <1>30 DEF LeaveBody
<1>31. CASE DeclIndex
  BY <1>31 DEF DeclIndex
<1>32. CASE ImportMember
  BY <1>32 DEF ImportMember
<1>33. ASSUME NEW k \in {"class", "struct", "enum"}, BeginDecl(k)
      PROVE  Places'
  BY <1>33 DEF BeginDecl
<1> QED
  BY <1>2, <1>3, <1>4, <1>5, <1>6, <1>7, <1>8, <1>9, <1>10, <1>11, <1>12,
     <1>13, <1>14, <1>15, <1>16, <1>17, <1>18, <1>19, <1>20, <1>21, <1>22,
     <1>23, <1>24, <1>25, <1>26, <1>27, <1>28, <1>29, <1>30, <1>31, <1>32, <1>33
     DEF Next

\* The list of errors grows at its end, by the pending error.
LEMMA ErrorsGrow ==
  ASSUME Next
  PROVE  errors' = errors \/ errors' = Append(errors, pending)
<1>1. CASE ParseProgram
  BY <1>1 DEF ParseProgram
<1>2. CASE CatchModule
  BY <1>2 DEF CatchModule
<1>3. CASE ModuleSemi
  BY <1>3 DEF ModuleSemi
<1>4. CASE IdRefScope
  BY <1>4 DEF IdRefScope
<1>5. CASE IdRefName
  BY <1>5 DEF IdRefName
<1>6. CASE BaseColon
  BY <1>6 DEF BaseColon
<1>7. CASE BodyOpen
  BY <1>7 DEF BodyOpen
<1>8. CASE FieldColon
  BY <1>8 DEF FieldColon
<1>9. CASE CatchField
  BY <1>9 DEF CatchField
<1>10. CASE ItemAssign
  BY <1>10 DEF ItemAssign
<1>11. CASE Comma
  BY <1>11 DEF Comma
<1>12. CASE BodyClose
  BY <1>12 DEF BodyClose
<1>13. CASE BeginImport
  BY <1>13 DEF BeginImport
<1>14. CASE ImportSemi
  BY <1>14 DEF ImportSemi
<1>15. CASE NotADecl
  BY <1>15 DEF NotADecl
<1>16. CASE CatchStmt
  BY <1>16 DEF CatchStmt
<1>17. CASE Finish
  BY <1>17 DEF Finish
<1>18. CASE DestroyParser
  BY <1>18 DEF DestroyParser
<1>19. CASE Terminating
  BY <1>19 DEF Terminating, vars, Ended
<1>20. CASE TypeName
  BY <1>20 DEF TypeName
<1>21. CASE CustomType
  BY <1>21 DEF CustomType
<1>22. CASE TypeSuffix
  BY <1>22 DEF TypeSuffix
<1>23. CASE FieldName
  BY <1>23 DEF FieldName
<1>24. CASE LeaveField
  BY <1>24 DEF LeaveField
<1>25. CASE ItemName
  BY <1>25 DEF ItemName
<1>26. CASE ItemValue
  BY <1>26 DEF ItemValue
<1>27. CASE LeaveItem
  BY <1>27 DEF LeaveItem
<1>28. CASE LinkMember
  BY <1>28 DEF LinkMember
<1>29. CASE LeaveBody
  BY <1>29 DEF LeaveBody
<1>30. CASE DeclIndex
  BY <1>30 DEF DeclIndex
<1>31. CASE ImportMember
  BY <1>31 DEF ImportMember
<1>32. ASSUME NEW k \in {"class", "struct", "enum"}, BeginDecl(k)
      PROVE  errors' = errors
  BY <1>32 DEF BeginDecl
<1> QED
  BY <1>1, <1>2, <1>3, <1>4, <1>5, <1>6, <1>7, <1>8, <1>9, <1>10, <1>11, <1>12,
     <1>13, <1>14, <1>15, <1>16, <1>17, <1>18, <1>19, <1>20, <1>21, <1>22,
     <1>23, <1>24, <1>25, <1>26, <1>27, <1>28, <1>29, <1>30, <1>31, <1>32
     DEF Next

\* An error is never taken back: what is silent after a step was before.
LEMMA SilentBefore ==
  ASSUME TypeOK, InFlight, Next, Silent'
  PROVE  Silent
<1>0. Append(errors, pending) # << >>
  BY DEF TypeOK
<1>1. errors' = errors \/ errors' = Append(errors, pending)
  BY ErrorsGrow
<1>2. Kept
  BY InFlightStep
<1>3. errors = << >>
  BY <1>0, <1>1 DEF Silent
<1>4. pending = NoError
  BY <1>0, <1>2, ThrownNotNone DEF Kept, Silent, ErrorKind
<1> QED
  BY <1>3, <1>4 DEF Silent

\* The steps that leave the AST alone, when nothing goes wrong.
ControlStep ==
  \/ ParseProgram \/ CatchModule \/ ModuleSemi \/ IdRefScope \/ IdRefName
  \/ BaseColon \/ BodyOpen \/ FieldColon \/ CatchField \/ ItemAssign
  \/ Comma \/ BodyClose \/ BeginImport \/ ImportSemi \/ NotADecl
  \/ CatchStmt \/ Finish \/ DestroyParser \/ Terminating

\* They do not leave a declaration that is in work, and come to no place where
\* more is asked of the types than before.
LEMMA ControlQuiet ==
  ASSUME TypeOK, Places, ControlStep, Silent, Silent'
  PROVE  /\ UNCHANGED << nodes, decl, slot >>
         /\ InDecl => InDecl'
         /\ BasePassed' => BasePassed
         /\ pc' # "crashed" => pc # "crashed" /\ ~AliasLeft
         /\ pc' \in ItemPCs => pc \in ItemPCs /\ field' = field
         /\ ~TypePassed' /\ pc' # "member"
<1>0. Append(errors, pending) # << >>
  BY DEF TypeOK
<1>1. /\ ErrorAt("ExpectingSingleToken") # NoError /\ ErrorAt("OutOfMemory") # NoError
      /\ ErrorAt("ExpectingDecl") # NoError
  BY ThrownNotNone DEF ErrorKind
<1>2. /\ Return[ctx] \in {"module_semi", "import_member", "custom_type"}
      /\ Return[ctx] = "custom_type" <=> ctx \in {"field", "base"}
  BY DEF TypeOK, Return
<1> USE <1>0, <1>1, <1>2 DEF Goto, Throw, OutOfMemory, Silent
<1> USE DEF InDecl, BasePassed, AliasLeft, ItemPCs, TypePassed, BodyPCs, TypePCs, Places
<1>3. CASE ParseProgram
  BY <1>3 DEF ParseProgram
<1>4. CASE CatchModule
  BY <1>4 DEF CatchModule
<1>5. CASE ModuleSemi
  BY <1>5 DEF ModuleSemi
<1>6. CASE IdRefScope
  BY <1>6 DEF IdRefScope
<1>7. CASE IdRefName
  BY <1>7 DEF IdRefName
<1>8. CASE BaseColon
  BY <1>8 DEF BaseColon
<1>9. CASE BodyOpen
  BY <1>9 DEF BodyOpen
<1>10. CASE FieldColon
  BY <1>10 DEF FieldColon
<1>11. CASE CatchField
  BY <1>11 DEF CatchField
<1>12. CASE ItemAssign
  BY <1>12 DEF ItemAssign
<1>13. CASE Comma
  BY <1>13 DEF Comma
<1>14. CASE BodyClose
  BY <1>14 DEF BodyClose
<1>15. CASE BeginImport
  BY <1>15 DEF BeginImport
<1>16. CASE ImportSemi
  BY <1>16 DEF ImportSemi
<1>17. CASE NotADecl
  BY <1>17 DEF NotADecl
<1>18. CASE CatchStmt
  BY <1>18 DEF CatchStmt
<1>19. CASE Finish
  BY <1>19 DEF Finish
<1>20. CASE DestroyParser
  BY <1>20 DEF DestroyParser
<1>21. CASE Terminating
  BY <1>21 DEF Terminating, vars, Ended
<1> HIDE DEF InDecl, BasePassed, AliasLeft, ItemPCs, TypePassed, BodyPCs, TypePCs, Places,
     Goto, Throw, OutOfMemory, Silent
<1> QED
  BY <1>3, <1>4, <1>5, <1>6, <1>7, <1>8, <1>9, <1>10, <1>11, <1>12, <1>13,
     <1>14, <1>15, <1>16, <1>17, <1>18, <1>19, <1>20, <1>21
     DEF ControlStep

\* What is asked of a state in which nothing has gone wrong.
Quiet == NothingMissing /\ BaseTyped /\ FieldTyped

\* An assignment of a type that is there takes no type away.
LEMMA TypeSet ==
  ASSUME TypeOK, NEW t \in {"builtin", "custom", "array"}, SetType(t)
  PROVE  /\ SameLinks(nodes, nodes') /\ KeepsTypes(nodes, nodes')
         /\ TypeOwner # 0 => nodes'[TypeOwner].type # "null"
<1>1. nodes \in Seq(Node) /\ TypeOwner \in Nat /\ TypeOwner \in 0 .. Len(nodes)
  BY AstTypes DEF TypeOK, TypeOwner
<1>2. SameLinks(nodes, nodes')
  BY <1>1, SetTypeLinks DEF SetType
<1> DEFINE x == [nodes[TypeOwner] EXCEPT !.type = t]
<1>3. nodes' = [nodes EXCEPT ![TypeOwner] = x]
  BY DEF SetType
<1>4. ASSUME TypeOwner # 0
      PROVE  x.type = t
  <2>1. nodes[TypeOwner] \in Node
    BY <1>1, <1>4
  <2> QED
    BY <2>1 DEF Node
<1> HIDE DEF x
<1>5. /\ TypeOwner # 0 => nodes'[TypeOwner].type = t
      /\ \A q \in 1 .. Len(nodes) : q # TypeOwner => nodes'[q] = nodes[q]
  BY <1>1, <1>3, <1>4
<1>6. KeepsTypes(nodes, nodes')
  BY <1>5 DEF KeepsTypes
<1> QED
  BY <1>2, <1>5, <1>6

\* The scope guards leave the types alone.
LEMMA RangedSet ==
  ASSUME NEW ns \in Seq(Node), NEW n \in Nat
  PROVE  LET ns2 == [ns EXCEPT ![n].ranged = TRUE] IN
         SameLinks(ns, ns2) /\ \A q \in 1 .. Len(ns) : ns2[q].type = ns[q].type
<1> DEFINE x == [ns[n] EXCEPT !.ranged = TRUE]
           ns2 == [ns EXCEPT ![n] = x]
<1>1. SameLinks(ns, ns2)
  BY SetRangedLinks
<1>2. ASSUME n \in 1 .. Len(ns)
      PROVE  x.type = ns[n].type
  <2>1. ns[n] \in Node
    BY <1>2
  <2> QED
    BY <2>1 DEF Node
<1> HIDE DEF x
<1>3. \A q \in 1 .. Len(ns) : ns2[q].type = ns[q].type
  <2>1. \A q \in 1 .. Len(ns) : (q = n => ns2[q] = x) /\ (q # n => ns2[q] = ns[q])
    OBVIOUS
  <2> QED
    BY <2>1, <1>2
<1> QED
  BY <1>1, <1>3 DEF x

\* parse_expr leaves the types alone.
LEMMA ValueSet ==
  ASSUME NEW ns \in Seq(Node), NEW n \in Nat, NEW v \in {"null", "lit", "bad"}
  PROVE  LET ns2 == [ns EXCEPT ![n].value = v] IN
         SameLinks(ns, ns2) /\ \A q \in 1 .. Len(ns) : ns2[q].type = ns[q].type
<1> DEFINE x == [ns[n] EXCEPT !.value = v]
           ns2 == [ns EXCEPT ![n] = x]
<1>1. SameLinks(ns, ns2)
  BY SetValueLinks
<1>2. ASSUME n \in 1 .. Len(ns)
      PROVE  x.type = ns[n].type
  <2>1. ns[n] \in Node
    BY <1>2
  <2> QED
    BY <2>1 DEF Node
<1> HIDE DEF x
<1>3. \A q \in 1 .. Len(ns) : ns2[q].type = ns[q].type
  <2>1. \A q \in 1 .. Len(ns) : (q = n => ns2[q] = x) /\ (q # n => ns2[q] = ns[q])
    OBVIOUS
  <2> QED
    BY <2>1, <1>2
<1> QED
  BY <1>1, <1>3 DEF x

\* Within a declaration, a step that writes types, values or ranges.
LEMMA QuietLinks ==
  ASSUME TypeOK, NothingMissing, BaseTyped, InDecl, InDecl',
         SameLinks(nodes, nodes'), KeepsTypes(nodes, nodes'), UNCHANGED << decl, slot >>,
         BasePassed' => BasePassed \/ nodes'[decl].type # "null"
  PROVE  NothingMissing' /\ BaseTyped'
<1>1. nodes \in Seq(Node) /\ decl \in 1 .. Len(nodes)
  BY AstTypes
<1>2. pc # "crashed" /\ ~AliasLeft
  BY DEF InDecl, AliasLeft, BodyPCs
<1>3. GoodBut(nodes, {<< Root, slot >>})
  BY <1>2 DEF NothingMissing, OpenPlace
<1>4. GoodBut(nodes', {<< Root, slot >>})
  BY <1>1, <1>3, GoodButSameLinks
<1>5. NothingMissing'
  BY <1>4 DEF NothingMissing, OpenPlace
<1>6. BaseTyped'
  BY <1>1 DEF BaseTyped, SameLinks, KeepsTypes
<1> QED
  BY <1>5, <1>6

\* Within a declaration, a step that makes a field or an item.
LEMMA QuietAppend ==
  ASSUME TypeOK, NothingMissing, BaseTyped, InDecl, InDecl',
         NEW name \in Keys, NEW k \in {"var", "item"},
         nodes' = Append(nodes, NewNode(k, name)), UNCHANGED << decl, slot >>,
         BasePassed' => BasePassed
  PROVE  NothingMissing' /\ BaseTyped' /\ nodes'[Len(nodes) + 1].kind = k
<1>1. nodes \in Seq(Node) /\ decl \in 1 .. Len(nodes)
  BY AstTypes
<1>2. pc # "crashed" /\ ~AliasLeft
  BY DEF InDecl, AliasLeft, BodyPCs
<1>3. GoodBut(nodes, {<< Root, slot >>})
  BY <1>2 DEF NothingMissing, OpenPlace
<1>4. GoodBut(nodes', {<< Root, slot >>})
  BY <1>1, <1>3, GoodButAppend
<1>5. NothingMissing'
  BY <1>4 DEF NothingMissing, OpenPlace
<1>6. nodes'[decl] = nodes[decl] /\ nodes'[Len(nodes) + 1] = NewNode(k, name)
  BY <1>1, NewNodeType, AppendType
<1>7. BaseTyped'
  BY <1>6 DEF BaseTyped
<1>8. NewNode(k, name).kind = k
  BY DEF NewNode
<1> QED
  BY <1>5, <1>6, <1>7, <1>8

\* Linking a member: the member becomes good, the others were and are.
LEMMA QuietLink ==
  ASSUME IInv, Quiet, LinkMember, Silent, Silent'
  PROVE  Quiet'
<1>a. /\ nodes \in Seq(Node) /\ decl \in 1 .. Len(nodes) /\ field \in 0 .. Len(nodes)
      /\ field \in Nat
  BY AstTypes DEF IInv
<1> DEFINE n == Len(nodes[decl].members) + 1
           pushed == PushMember(nodes, decl, field)
           X == {<< Root, slot >>}
<1>b. ErrorAt("OutOfMemory") # NoError /\ Conflict(field) # NoError
  BY ThrownNotNone DEF ErrorKind
<1>1. /\ pc = "member" /\ UNCHANGED << ctx, decl, slot, field >>
      /\ \/ pc' = "crashed"
         \/ /\ field # 0 /\ ~Indexed(nodes, decl, nodes[field].name)
            /\ nodes' = IndexMember(pushed, decl, Len(pushed[decl].members)) /\ pc' = "comma"
  BY <1>b DEF LinkMember, Goto, Throw, OutOfMemory, Silent
<1>2. CASE pc' = "crashed"
  BY <1>2 DEF Quiet, NothingMissing, BaseTyped, BasePassed, InDecl, BodyPCs, FieldTyped,
     TypePassed, ItemPCs
<1>3. CASE /\ field # 0 /\ ~Indexed(nodes, decl, nodes[field].name)
           /\ nodes' = IndexMember(pushed, decl, Len(pushed[decl].members)) /\ pc' = "comma"
  <2>1. GoodBut(nodes, X)
    BY <1>1 DEF Quiet, NothingMissing, OpenPlace, AliasLeft, InDecl, BodyPCs
  <2>2. field \in 1 .. Len(nodes)
    BY <1>a, <1>3
  <2>3. GoodBut(pushed, X \cup {<< decl, n >>})
    BY <1>a, <2>1, GoodButPush
  <2>4. /\ pushed \in Seq(Node) /\ Len(pushed) = Len(nodes)
    BY <1>a, PushMemberType
  <2>5. ASSUME NEW q \in 1 .. Len(nodes)
        PROVE  /\ pushed[q].name = nodes[q].name /\ pushed[q].kind = nodes[q].kind
               /\ pushed[q].type = nodes[q].type /\ pushed[q].index = nodes[q].index
               /\ pushed[q].members =
                    IF q = decl THEN Append(nodes[q].members, field) ELSE nodes[q].members
    BY <1>a, PushMemberEffect DEF SameName, SameData
  <2>6. pushed[decl].members = Append(nodes[decl].members, field)
    BY <1>a, <2>5
  <2> HIDE DEF pushed
  <2>7. /\ Len(pushed[decl].members) = n /\ n \in 1 .. Len(pushed[decl].members)
        /\ pushed[decl].members[n] = field
    BY <1>a, <2>6, MembersType
  <2>8. ~Indexed(pushed, decl, pushed[field].name)
    BY <1>a, <1>3, <2>2, <2>5 DEF Indexed
  <2>9. pushed[field].kind \in {"var", "enum"} => pushed[field].type # "null"
    BY <1>1, <1>3, <2>2, <2>5 DEF Quiet, FieldTyped
  <2>10. n \in Nat
    BY <2>7, <2>4, <1>a, MembersType
  <2>11. ASSUME NEW q \in 1 .. Len(nodes)
         PROVE  nodes'[q].kind = nodes[q].kind /\ nodes'[q].type = nodes[q].type
    <3>1. SameName(pushed, IndexMember(pushed, decl, n), q) /\ SameData(pushed, IndexMember(pushed, decl, n), q)
      <4> HIDE DEF n
      <4> QED
        BY <1>a, <2>4, <2>10, IndexMemberEffect
    <3> QED
      BY <3>1, <1>3, <2>5, <2>7 DEF SameName, SameData
  <2> HIDE DEF n, X
  <2>12. GoodBut(IndexMember(pushed, decl, n), (X \cup {<< decl, n >>}) \ {<< decl, n >>})
    BY <1>a, <2>2, <2>3, <2>4, <2>7, <2>8, <2>9, GoodButIndex
  <2>13. GoodBut(nodes', X)
    <3>1. (X \cup {<< decl, n >>}) \ {<< decl, n >>} \subseteq X
      OBVIOUS
    <3>2. GoodBut(IndexMember(pushed, decl, n), X)
      BY <2>12, <3>1, GoodButMore
    <3> QED
      BY <3>2, <1>3, <2>7
  <2>14. NothingMissing'
    BY <2>13, <1>1, <1>3 DEF NothingMissing, OpenPlace, InDecl, BodyPCs, X
  <2>15. BaseTyped'
    BY <1>a, <1>1, <1>3, <2>11 DEF Quiet, BaseTyped, BasePassed, InDecl, BodyPCs, TypePCs
  <2>16. FieldTyped'
    BY <1>3 DEF FieldTyped, TypePassed, ItemPCs
  <2> QED
    BY <2>14, <2>15, <2>16 DEF Quiet
<1> QED
  BY <1>1, <1>2, <1>3

\* Closing a declaration: it is entered in the index of the root, and with it
\* the last member that was not good.
LEMMA QuietDecl ==
  ASSUME IInv, Quiet, DeclIndex, Silent, Silent'
  PROVE  Quiet'
<1>a. /\ nodes \in Seq(Node) /\ decl \in 1 .. Len(nodes) /\ Root \in 1 .. Len(nodes)
  BY AstTypes DEF IInv
<1> DEFINE X == {<< Root, slot >>}
<1>b. ErrorAt("OutOfMemory") # NoError /\ Conflict(decl) # NoError
  BY ThrownNotNone DEF ErrorKind
<1>1. /\ pc = "decl_index" /\ pc' = "stmt"
      /\ ~Indexed(nodes, Root, nodes[decl].name)
      /\ nodes' = IndexMember(nodes, Root, slot)
  BY <1>b DEF DeclIndex, Goto, Throw, OutOfMemory, Silent
<1>2. slot \in 1 .. Len(nodes[Root].members) /\ nodes[Root].members[slot] = decl
  BY <1>1 DEF IInv, SlotLinked, LinkedAt, BodyPCs
<1>3. GoodBut(nodes, X)
  BY <1>1 DEF Quiet, NothingMissing, OpenPlace, AliasLeft, InDecl, BodyPCs
<1>4. nodes[decl].kind \in {"var", "enum"} => nodes[decl].type # "null"
  BY <1>1 DEF Quiet, BaseTyped, BasePassed, InDecl, BodyPCs, TypePCs
<1>5. GoodBut(nodes', X \ {<< Root, slot >>})
  <2> HIDE DEF X
  <2>1. GoodBut(IndexMember(nodes, Root, slot), X \ {<< Root, slot >>})
    BY <1>a, <1>1, <1>2, <1>3, <1>4, GoodButIndex
  <2> QED
    BY <2>1, <1>1
<1>6. GoodBut(nodes', {})
  <2>1. X \ {<< Root, slot >>} \subseteq {}
    OBVIOUS
  <2> HIDE DEF X
  <2> QED
    BY <1>5, <2>1, GoodButMore
<1>7. NothingMissing'
  BY <1>1, <1>6 DEF NothingMissing, OpenPlace, InDecl, BodyPCs
<1> QED
  BY <1>1, <1>7 DEF Quiet, BaseTyped, BasePassed, InDecl, BodyPCs, FieldTyped, TypePassed, ItemPCs

\* Between two statements every member is good.
LEMMA AllGood ==
  ASSUME NothingMissing, pc \in {"stmt", "import_member"}
  PROVE  GoodBut(nodes, {})
BY DEF NothingMissing, OpenPlace, AliasLeft, InDecl, BodyPCs

\* A new root member is the only one that may not be good; an import is good.
LEMMA NewMemberGood ==
  ASSUME NEW ns \in Seq(Node), Root \in 1 .. Len(ns), GoodBut(ns, {}), NEW name \in Keys,
         NEW k \in {"class", "struct", "enum", "import"}
  PROVE  LET n == Len(ns) + 1
             i == Len(ns[Root].members) + 1
             ns2 == PushMember(Append(ns, NewNode(k, name)), Root, n)
         IN  /\ GoodBut(ns2, {<< Root, i >>})
             /\ k = "import" => GoodBut(ns2, {})
             /\ ns2[n].kind = k
<1> DEFINE n == Len(ns) + 1
           i == Len(ns[Root].members) + 1
           ns1 == Append(ns, NewNode(k, name))
           ns2 == PushMember(ns1, Root, n)
<1>1. /\ ns1 \in Seq(Node) /\ Len(ns1) = n /\ ns1[Root] = ns[Root]
      /\ ns1[n] = NewNode(k, name)
  BY NewNodeType, AppendType
<1>2. GoodBut(ns1, {})
  BY GoodButAppend
<1>3. ns1[n].kind = k
  BY <1>1 DEF NewNode
<1>4. n \in Nat /\ n \in 1 .. n /\ Root \in 1 .. n
  BY DEF Root
<1> HIDE DEF ns1, n
<1>5. /\ GoodBut(ns2, {} \cup {<< Root, Len(ns1[Root].members) + 1 >>})
      /\ k = "import" => GoodBut(ns2, {})
  BY <1>1, <1>2, <1>3, <1>4, GoodButPush
<1>6. GoodBut(ns2, {<< Root, i >>})
  BY <1>1, <1>5
<1>7. ns2[n].kind = k
  <2>1. SameName(ns1, PushMember(ns1, Root, n), n)
    <3> HIDE DEF ns2
    <3> QED
      BY <1>1, <1>4, PushMemberEffect
  <2> QED
    BY <2>1, <1>3 DEF SameName
<1> QED
  BY <1>5, <1>6, <1>7 DEF ns1, n

\* Beginning a declaration: it is the one member in work.
LEMMA QuietBegin ==
  ASSUME IInv, Quiet, NEW k \in {"class", "struct", "enum"}, BeginDecl(k), Silent, Silent'
  PROVE  Quiet'
<1>a. nodes \in Seq(Node) /\ Root \in 1 .. Len(nodes) /\ Names \subseteq Keys
  BY AstTypes, NamesAreNotKinds DEF IInv
<1> DEFINE n == Len(nodes) + 1
           i == Len(nodes[Root].members) + 1
           Pushed(name) == PushMember(Append(nodes, NewNode(k, name)), Root, n)
<1>b. ErrorAt("OutOfMemory") # NoError /\ ErrorAt("ExpectingSingleToken") # NoError
  BY ThrownNotNone DEF ErrorKind
<1>1. /\ pc = "stmt" /\ decl' = n /\ slot' = i /\ Tok2 \in Names /\ nodes' = Pushed(Tok2)
      /\ pc' = IF k = "enum" THEN "base_colon" ELSE "body_open"
  BY <1>b DEF BeginDecl, Goto, Throw, OutOfMemory, Silent
<1>2. GoodBut(nodes, {})
  BY <1>1, AllGood DEF Quiet
<1>3. GoodBut(Pushed(Tok2), {<< Root, i >>}) /\ Pushed(Tok2)[n].kind = k
  BY <1>a, <1>1, <1>2, NewMemberGood
<1> HIDE DEF n, i, Pushed
<1>4. NothingMissing'
  BY <1>1, <1>3 DEF NothingMissing, OpenPlace, InDecl, BodyPCs
<1>5. BaseTyped'
  BY <1>1, <1>3 DEF BaseTyped, BasePassed
<1>6. FieldTyped'
  BY <1>1 DEF FieldTyped, TypePassed, ItemPCs
<1> QED
  BY <1>4, <1>5, <1>6 DEF Quiet

\* An import: good without an alias, and with one not finished.
LEMMA QuietImport ==
  ASSUME IInv, Quiet, ImportMember, Silent, Silent'
  PROVE  Quiet'
<1>a. /\ nodes \in Seq(Node) /\ Root \in 1 .. Len(nodes) /\ "" \in Keys
      /\ "Semicolon" \notin Names /\ cur \in Nat
  BY AstTypes, NamesAreNotKinds, NamesAssumption DEF IInv, TypeOK, Kinds
<1> DEFINE n == Len(nodes) + 1
           Pushed == PushMember(Append(nodes, NewNode("import", "")), Root, n)
<1>b. ErrorAt("OutOfMemory") # NoError /\ ErrorAt("ExpectingSingleToken") # NoError
  BY ThrownNotNone DEF ErrorKind
<1>1. /\ pc = "import_member" /\ pc' = "import_semi" /\ UNCHANGED tokens
      /\ \/ nodes' = Pushed
         \/ Tok2 \in Names /\ cur' = cur + 1
  BY <1>b DEF ImportMember, Goto, Throw, OutOfMemory, Silent, Consume
<1>2. GoodBut(Pushed, {})
  <2>1. GoodBut(nodes, {})
    BY <1>1, AllGood DEF Quiet
  <2> QED
    BY <1>a, <2>1, NewMemberGood
<1> HIDE DEF Pushed
<1>3. NothingMissing'
  <2>1. CASE nodes' = Pushed
    BY <1>1, <1>2, <2>1 DEF NothingMissing, OpenPlace, InDecl, BodyPCs
  <2>2. CASE Tok2 \in Names /\ cur' = cur + 1
    <3>0. cur' + 1 = cur + 2
      <4>1. cur \in Nat /\ cur' = cur + 1
        BY <1>a, <2>2, Zenon
      <4> QED
        BY <4>1
    <3>1. tokens'[cur' + 1] = Tok2
      BY <1>1, <3>0, Zenon DEF Tok2
    <3> QED
      BY <1>a, <1>1, <2>2, <3>1 DEF NothingMissing, AliasLeft, Tok
  <2> QED
    BY <1>1, <2>1, <2>2
<1> QED
  BY <1>1, <1>3 DEF Quiet, BaseTyped, BasePassed, InDecl, BodyPCs, FieldTyped, TypePassed, ItemPCs

\* The steps within a declaration that write the AST and link nothing.
LEMMA QuietWrite ==
  ASSUME IInv, Places, Quiet, Silent, Silent',
         \/ TypeName \/ CustomType \/ TypeSuffix \/ FieldName \/ LeaveField
         \/ ItemName \/ ItemValue \/ LeaveItem \/ LeaveBody
  PROVE  Quiet'
<1>a. /\ TypeOK /\ nodes \in Seq(Node) /\ field \in 0 .. Len(nodes) /\ field \in Nat
      /\ decl \in 1 .. Len(nodes) /\ decl \in Nat
      /\ Names \subseteq Keys
  BY AstTypes, NamesAreNotKinds DEF IInv
<1>b. NothingMissing /\ BaseTyped /\ FieldTyped
  BY DEF Quiet
<1>c. \A e \in ErrorKind : e # "none" => ErrorAt(e) # NoError
  BY ThrownNotNone
<1>d. /\ ErrorAt("OutOfMemory") # NoError /\ ErrorAt("ExpectingSingleToken") # NoError
      /\ ErrorAt("UnexpectedToken") # NoError /\ ErrorAt("ExpectingTokens") # NoError
      /\ ErrorAt("ExpectingExpr") # NoError
  BY <1>c DEF ErrorKind
<1>s. SameLinks(nodes, nodes) /\ KeepsTypes(nodes, nodes)
  BY <1>a DEF SameLinks, KeepsTypes
<1>x. /\ \A t \in {"builtin", "custom", "array"} : SetType(t) =>
           /\ SameLinks(nodes, nodes') /\ KeepsTypes(nodes, nodes')
           /\ TypeOwner # 0 => nodes'[TypeOwner].type # "null"
      /\ TypeOwner = IF ctx = "field" THEN field ELSE decl
  BY <1>a, TypeSet DEF TypeOwner
<1>1. CASE TypeName
  <2>1. /\ pc = "type" /\ ctx \in {"field", "base"} /\ UNCHANGED << ctx, decl, slot, field >>
        /\ \/ SetType("builtin") /\ pc' = "suffix"
           \/ nodes' = nodes /\ pc' = "id_ref"
    BY <1>1, <1>d DEF TypeName, Goto, Throw, OutOfMemory, Silent, Places
  <2>2. /\ SameLinks(nodes, nodes') /\ KeepsTypes(nodes, nodes')
        /\ pc' = "suffix" /\ ctx = "field" /\ field # 0 => nodes'[field].type # "null"
        /\ pc' = "suffix" /\ ctx = "base" => nodes'[decl].type # "null"
    BY <2>1, <1>a, <1>s, <1>x
  <2>3. NothingMissing' /\ BaseTyped'
    <3>1. InDecl /\ InDecl'
      BY <2>1 DEF InDecl, BodyPCs
    <3>2. BasePassed' => BasePassed \/ nodes'[decl].type # "null"
      BY <2>1, <2>2 DEF BasePassed, InDecl, BodyPCs, TypePCs
    <3> QED
      BY <1>a, <1>b, <2>1, <2>2, <3>1, <3>2, QuietLinks
  <2>4. FieldTyped'
    BY <2>1, <2>2 DEF FieldTyped, TypePassed, ItemPCs
  <2> QED
    BY <2>3, <2>4 DEF Quiet
<1>2. CASE CustomType
  <2>1. /\ pc = "custom_type" /\ ctx \in {"field", "base"} /\ UNCHANGED << ctx, decl, slot, field >>
        /\ SetType("custom") /\ pc' = "suffix"
    BY <1>2, <1>d DEF CustomType, Goto, Throw, OutOfMemory, Silent, Places
  <2>2. /\ SameLinks(nodes, nodes') /\ KeepsTypes(nodes, nodes')
        /\ ctx = "field" /\ field # 0 => nodes'[field].type # "null"
        /\ ctx = "base" => nodes'[decl].type # "null"
    BY <2>1, <1>a, <1>x
  <2>3. NothingMissing' /\ BaseTyped'
    <3>1. InDecl /\ InDecl'
      BY <2>1 DEF InDecl, BodyPCs
    <3>2. BasePassed' => BasePassed \/ nodes'[decl].type # "null"
      BY <2>1, <2>2 DEF BasePassed, InDecl, BodyPCs, TypePCs
    <3> QED
      BY <1>a, <1>b, <2>1, <2>2, <3>1, <3>2, QuietLinks
  <2>4. FieldTyped'
    BY <2>1, <2>2 DEF FieldTyped, TypePassed, ItemPCs
  <2> QED
    BY <2>3, <2>4 DEF Quiet
<1>3. CASE TypeSuffix
  <2>1. /\ pc = "suffix" /\ UNCHANGED << ctx, decl, slot, field >>
        /\ \/ nodes' = nodes /\ ctx = "base" /\ pc' = "body_open"
           \/ nodes' = nodes /\ ctx = "field" /\ pc' = "leave_field"
           \/ SetType("array") /\ ctx = "field" /\ pc' = "suffix"
    BY <1>3, <1>d DEF TypeSuffix, Goto, Throw, OutOfMemory, Silent
  <2>2. /\ SameLinks(nodes, nodes') /\ KeepsTypes(nodes, nodes')
        /\ pc' = "suffix" /\ field # 0 => nodes'[field].type # "null"
        /\ pc' = "leave_field" /\ field # 0 => nodes'[field].type # "null"
    BY <2>1, <1>a, <1>b, <1>s, <1>x DEF FieldTyped, TypePassed
  <2>3. NothingMissing' /\ BaseTyped'
    <3>1. InDecl /\ InDecl'
      BY <2>1 DEF InDecl, BodyPCs
    <3>2. BasePassed
      BY <2>1 DEF BasePassed, InDecl, BodyPCs, TypePCs
    <3> QED
      BY <1>a, <1>b, <2>1, <2>2, <3>1, <3>2, QuietLinks
  <2>4. FieldTyped'
    BY <2>1, <2>2 DEF FieldTyped, TypePassed, ItemPCs
  <2> QED
    BY <2>3, <2>4 DEF Quiet
<1>4. CASE FieldName
  <2>1. /\ pc = "field" /\ pc' = "field_colon" /\ UNCHANGED << decl, slot >>
        /\ Tok \in Names /\ nodes' = Append(nodes, NewNode("var", Tok))
    BY <1>4, <1>d DEF FieldName, Goto, Throw, OutOfMemory, Silent
  <2>2. InDecl /\ InDecl' /\ BasePassed
    BY <2>1 DEF BasePassed, InDecl, BodyPCs, TypePCs
  <2>3. NothingMissing' /\ BaseTyped'
    BY <1>a, <1>b, <2>1, <2>2, QuietAppend
  <2>4. FieldTyped'
    BY <2>1 DEF FieldTyped, TypePassed, ItemPCs
  <2> QED
    BY <2>3, <2>4 DEF Quiet
<1>5. CASE LeaveField
  <2>1. /\ pc = "leave_field" /\ pc' = "member" /\ UNCHANGED << decl, slot, field >>
        /\ nodes' = [nodes EXCEPT ![field].ranged = TRUE]
    BY <1>5 DEF LeaveField, Goto, Silent
  <2>2. SameLinks(nodes, nodes') /\ \A q \in 1 .. Len(nodes) : nodes'[q].type = nodes[q].type
    BY <1>a, <2>1, RangedSet
  <2>3. InDecl /\ InDecl' /\ BasePassed /\ KeepsTypes(nodes, nodes')
    BY <2>1, <2>2 DEF BasePassed, InDecl, BodyPCs, TypePCs, KeepsTypes
  <2>4. NothingMissing' /\ BaseTyped'
    BY <1>a, <1>b, <2>1, <2>2, <2>3, QuietLinks
  <2>5. FieldTyped'
    BY <1>a, <1>b, <2>1, <2>2 DEF FieldTyped, TypePassed, ItemPCs
  <2> QED
    BY <2>4, <2>5 DEF Quiet
<1>6. CASE ItemName
  <2>1. /\ pc = "item" /\ pc' = "item_assign" /\ UNCHANGED << decl, slot >>
        /\ field' = Len(nodes) + 1
        /\ Tok \in Names /\ nodes' = Append(nodes, NewNode("item", Tok))
    BY <1>6, <1>d DEF ItemName, Goto, Throw, OutOfMemory, Silent
  <2>2. InDecl /\ InDecl' /\ BasePassed
    BY <2>1 DEF BasePassed, InDecl, BodyPCs, TypePCs
  <2>3. NothingMissing' /\ BaseTyped' /\ nodes'[field'].kind = "item"
    BY <1>a, <1>b, <2>1, <2>2, QuietAppend
  <2>4. FieldTyped'
    BY <2>1, <2>3 DEF FieldTyped, TypePassed, ItemPCs
  <2> QED
    BY <2>3, <2>4 DEF Quiet
<1>7. CASE ItemValue
  <2>1. /\ pc = "item_value" /\ pc' = "leave_item" /\ UNCHANGED << decl, slot, field >>
        /\ nodes' = [nodes EXCEPT ![field].value = "lit"]
    BY <1>7, <1>d DEF ItemValue, Goto, Throw, OutOfMemory, Silent
  <2>2. SameLinks(nodes, nodes') /\ \A q \in 1 .. Len(nodes) : nodes'[q].type = nodes[q].type
    BY <1>a, <2>1, ValueSet
  <2>3. InDecl /\ InDecl' /\ BasePassed /\ KeepsTypes(nodes, nodes')
    BY <2>1, <2>2 DEF BasePassed, InDecl, BodyPCs, TypePCs, KeepsTypes
  <2>4. NothingMissing' /\ BaseTyped'
    BY <1>a, <1>b, <2>1, <2>2, <2>3, QuietLinks
  <2>5. FieldTyped'
    BY <1>a, <1>b, <2>1, <2>2 DEF FieldTyped, TypePassed, ItemPCs, SameLinks
  <2> QED
    BY <2>4, <2>5 DEF Quiet
<1>8. CASE LeaveItem
  <2>1. /\ pc = "leave_item" /\ pc' = "member" /\ UNCHANGED << decl, slot, field >>
        /\ nodes' = [nodes EXCEPT ![field].ranged = TRUE]
    BY <1>8 DEF LeaveItem, Goto, Silent
  <2>2. SameLinks(nodes, nodes') /\ \A q \in 1 .. Len(nodes) : nodes'[q].type = nodes[q].type
    BY <1>a, <2>1, RangedSet
  <2>3. InDecl /\ InDecl' /\ BasePassed /\ KeepsTypes(nodes, nodes')
    BY <2>1, <2>2 DEF BasePassed, InDecl, BodyPCs, TypePCs, KeepsTypes
  <2>4. NothingMissing' /\ BaseTyped'
    BY <1>a, <1>b, <2>1, <2>2, <2>3, QuietLinks
  <2>5. FieldTyped'
    BY <1>a, <1>b, <2>1, <2>2 DEF FieldTyped, TypePassed, ItemPCs, SameLinks
  <2> QED
    BY <2>4, <2>5 DEF Quiet
<1>9. CASE LeaveBody
  <2>1. /\ pc = "leave_body" /\ pc' = "decl_index" /\ UNCHANGED << decl, slot, field >>
        /\ nodes' = [nodes EXCEPT ![decl].ranged = TRUE]
    BY <1>9 DEF LeaveBody, Goto, Silent
  <2>2. SameLinks(nodes, nodes') /\ \A q \in 1 .. Len(nodes) : nodes'[q].type = nodes[q].type
    BY <1>a, <2>1, RangedSet
  <2>3. InDecl /\ InDecl' /\ BasePassed /\ KeepsTypes(nodes, nodes')
    BY <2>1, <2>2 DEF BasePassed, InDecl, BodyPCs, TypePCs, KeepsTypes
  <2>4. NothingMissing' /\ BaseTyped'
    BY <1>a, <1>b, <2>1, <2>2, <2>3, QuietLinks
  <2>5. FieldTyped'
    BY <2>1 DEF FieldTyped, TypePassed, ItemPCs
  <2> QED
    BY <2>4, <2>5 DEF Quiet
<1> QED
  BY <1>1, <1>2, <1>3, <1>4, <1>5, <1>6, <1>7, <1>8, <1>9

\* A step that leaves the AST alone.
LEMMA QuietControl ==
  ASSUME IInv, Places, Quiet, Silent, Silent', ControlStep
  PROVE  Quiet'
<1>1. /\ UNCHANGED << nodes, decl, slot >>
      /\ InDecl => InDecl'
      /\ BasePassed' => BasePassed
      /\ pc' # "crashed" => pc # "crashed" /\ ~AliasLeft
      /\ pc' \in ItemPCs => pc \in ItemPCs /\ field' = field
      /\ ~TypePassed' /\ pc' # "member"
  BY ControlQuiet DEF IInv
<1>2. NothingMissing'
  <2> SUFFICES ASSUME pc' # "crashed" PROVE GoodBut(nodes, OpenPlace')
    BY <1>1 DEF NothingMissing
  <2>1. GoodBut(nodes, OpenPlace)
    BY <1>1 DEF Quiet, NothingMissing
  <2>2. OpenPlace \subseteq OpenPlace'
    BY <1>1 DEF OpenPlace
  <2> QED
    BY <2>1, <2>2, GoodButMore
<1>3. BaseTyped'
  BY <1>1 DEF Quiet, BaseTyped
<1>4. FieldTyped'
  BY <1>1 DEF Quiet, FieldTyped
<1> QED
  BY <1>2, <1>3, <1>4 DEF Quiet

\* The invariant holds initially: the root has no members.
LEMMA SilentInit == Init => SilentInv
<1> SUFFICES ASSUME Init PROVE SilentInv
  OBVIOUS
<1>1. IInv
  BY IInvInit
<1>2. InFlight /\ Places
  BY DEF Init, InFlight, Places
<1>3. GoodBut(nodes, {})
  <2>1. Len(nodes) = 1 /\ nodes[1] = NewNode("root", "")
    <3>1. nodes = << NewNode("root", "") >>
      BY DEF Init
    <3>2. \A x : Len(<< x >>) = 1 /\ << x >>[1] = x
      OBVIOUS
    <3> QED
      BY <3>1, <3>2, Zenon
  <2>2. \A k, x : NewNode(k, x).members = << >>
    BY DEF NewNode
  <2>3. Len(nodes) = 1 /\ nodes[1].members = << >>
    BY <2>1, <2>2, Zenon
  <2> QED
    BY <2>3 DEF GoodBut
<1>4. NothingMissing /\ BaseTyped /\ FieldTyped
  BY <1>3 DEF Init, NothingMissing, OpenPlace, BaseTyped, BasePassed, FieldTyped, InDecl, BodyPCs
<1> QED
  BY <1>1, <1>2, <1>4 DEF SilentInv

\* Every step keeps it.
LEMMA SilentStep == SilentInv /\ [Next]_vars => SilentInv'
<1> SUFFICES ASSUME SilentInv, [Next]_vars PROVE SilentInv'
  OBVIOUS
<1>1. CASE UNCHANGED vars
  <2>1. IInv'
    BY <1>1, IInvStep DEF SilentInv
  <2> QED
    BY <1>1, <2>1 DEF SilentInv, vars, InFlight, Places, Silent, NothingMissing, OpenPlace, AliasLeft, Tok,
       BaseTyped, BasePassed, FieldTyped, TypePassed, InDecl
<1>2. CASE Next
  <2>1. IInv /\ TypeOK /\ InFlight /\ Places
    BY DEF SilentInv, IInv
  <2>2. IInv' /\ InFlight' /\ Places'
    BY <1>2, <2>1, IInvStep, InFlightStep, PlacesStep
  <2>3. ASSUME Silent'
        PROVE  Quiet'
    <3>1. Silent /\ Quiet
      BY <1>2, <2>1, <2>3, SilentBefore DEF SilentInv, Quiet
    <3>2. CASE ControlStep
      BY <2>1, <2>3, <3>1, <3>2, QuietControl
    <3>3. CASE \/ TypeName \/ CustomType \/ TypeSuffix \/ FieldName \/ LeaveField
               \/ ItemName \/ ItemValue \/ LeaveItem \/ LeaveBody
      BY <2>1, <2>3, <3>1, <3>3, QuietWrite
    <3>4. CASE LinkMember
      BY <2>1, <2>3, <3>1, <3>4, QuietLink
    <3>5. CASE DeclIndex
      BY <2>1, <2>3, <3>1, <3>5, QuietDecl
    <3>6. CASE ImportMember
      BY <2>1, <2>3, <3>1, <3>6, QuietImport
    <3>7. ASSUME NEW k \in {"class", "struct", "enum"}, BeginDecl(k)
          PROVE  Quiet'
      BY <2>1, <2>3, <3>1, <3>7, QuietBegin
    <3> QED
      BY <1>2, <3>2, <3>3, <3>4, <3>5, <3>6, <3>7 DEF Next, ControlStep
  <2> QED
    BY <2>2, <2>3 DEF SilentInv, Quiet
<1> QED
  BY <1>1, <1>2

\* A parse that reports nothing has left nothing out: whatever the input and
\* whichever allocations failed, every member of the AST can be reached by its name
\* and has its type.
THEOREM SilenceIsCompleteness == Spec => []SilentParseIsComplete
<1>1. SilentInv => SilentParseIsComplete
  <2> SUFFICES ASSUME SilentInv, result = "ok", errors = << >>,
                      NEW p \in 1 .. Len(nodes), NEW i \in 1 .. Len(nodes[p].members)
               PROVE  Complete(p, i)
    BY DEF SilentParseIsComplete
  <2>1. pending = NoError /\ pc \in {"returned", "aborted", "destroyed"}
    BY DEF SilentInv, Places
  <2>2. GoodBut(nodes, {})
    BY <2>1 DEF SilentInv, Silent, NothingMissing, OpenPlace, AliasLeft, InDecl, BodyPCs
  <2>3. GoodMember(nodes, p, i)
    BY <2>2 DEF GoodBut
  <2> QED
    BY <2>3 DEF GoodMember, Complete
<1> QED
  BY <1>1, SilentInit, SilentStep, PTL DEF Spec

-----------------------------------------------------------------------------
(* What holds as long as no allocation has failed. *)

NoneFailed == oom = MaxOOM

\* A step before which an allocation had failed has it failed after it.
LEMMA NoneFailedBefore ==
  ASSUME TypeOK, Next, NoneFailed'
  PROVE  NoneFailed /\ oom' = oom
<1>1. oom' = oom \/ oom' = oom - 1
  <2> USE DEF Goto, Throw, OutOfMemory
  <2>1. CASE ParseProgram
    BY <2>1 DEF ParseProgram
  <2>2. CASE CatchModule
    BY <2>2 DEF CatchModule
  <2>3. CASE ModuleSemi
    BY <2>3 DEF ModuleSemi
  <2>4. CASE IdRefScope
    BY <2>4 DEF IdRefScope
  <2>5. CASE IdRefName
    BY <2>5 DEF IdRefName
  <2>6. CASE BaseColon
    BY <2>6 DEF BaseColon
  <2>7. CASE BodyOpen
    BY <2>7 DEF BodyOpen
  <2>8. CASE FieldColon
    BY <2>8 DEF FieldColon
  <2>9. CASE CatchField
    BY <2>9 DEF CatchField
  <2>10. CASE ItemAssign
    BY <2>10 DEF ItemAssign
  <2>11. CASE Comma
    BY <2>11 DEF Comma
  <2>12. CASE BodyClose
    BY <2>12 DEF BodyClose
  <2>13. CASE BeginImport
    BY <2>13 DEF BeginImport
  <2>14. CASE ImportSemi
    BY <2>14 DEF ImportSemi
  <2>15. CASE NotADecl
    BY <2>15 DEF NotADecl
  <2>16. CASE CatchStmt
    BY <2>16 DEF CatchStmt
  <2>17. CASE Finish
    BY <2>17 DEF Finish
  <2>18. CASE DestroyParser
    BY <2>18 DEF DestroyParser
  <2>19. CASE Terminating
    BY <2>19 DEF Terminating, vars, Ended
  <2>20. CASE TypeName
    BY <2>20 DEF TypeName
  <2>21. CASE CustomType
    BY <2>21 DEF CustomType
  <2>22. CASE TypeSuffix
    BY <2>22 DEF TypeSuffix
  <2>23. CASE FieldName
    BY <2>23 DEF FieldName
  <2>24. CASE LeaveField
    BY <2>24 DEF LeaveField
  <2>25. CASE ItemName
    BY <2>25 DEF ItemName
  <2>26. CASE ItemValue
    BY <2>26 DEF ItemValue
  <2>27. CASE LeaveItem
    BY <2>27 DEF LeaveItem
  <2>28. CASE LinkMember
    BY <2>28 DEF LinkMember
  <2>29. CASE LeaveBody
    BY <2>29 DEF LeaveBody
  <2>30. CASE DeclIndex
    BY <2>30 DEF DeclIndex
  <2>31. CASE ImportMember
    BY <2>31 DEF ImportMember
  <2>32. ASSUME NEW k \in {"class", "struct", "enum"}, BeginDecl(k)
        PROVE  oom' = oom \/ oom' = oom - 1
    BY <2>32 DEF BeginDecl
  <2> QED
    BY <2>1, <2>2, <2>3, <2>4, <2>5, <2>6, <2>7, <2>8, <2>9, <2>10, <2>11, <2>12,
       <2>13, <2>14, <2>15, <2>16, <2>17, <2>18, <2>19, <2>20, <2>21, <2>22,
       <2>23, <2>24, <2>25, <2>26, <2>27, <2>28, <2>29, <2>30, <2>31, <2>32
       DEF Next
<1>2. oom \in 0 .. MaxOOM /\ MaxOOM \in Nat
  BY MaxOOMAssumption DEF TypeOK
<1> QED
  BY <1>1, <1>2 DEF NoneFailed

\* The module clause has been left with an error, or is being parsed.
InClause ==
  \/ pc \in {"begin", "catch_module", "module_semi"}
  \/ pc \in {"id_ref", "id_ref_name"} /\ ctx = "module"

ClauseInv ==
  /\ InClause => nodes[Root].members = << >>
  /\ result = "error" =>
       pc \in {"returned", "aborted", "destroyed"} /\ nodes[Root].members = << >>

\* No step goes back to the module clause, and only the module clause is left with
\* an error for parse_program.
LEMMA ClauseStep ==
  ASSUME TypeOK, Places, NoneFailed, ClauseInv, Next, oom' = oom
  PROVE  ClauseInv'
<1>0. oom # oom - 1
  BY MaxOOMAssumption DEF TypeOK
<1>1. /\ Landing[ctx] = "catch_module" <=> ctx = "module"
      /\ Return[ctx] = "module_semi" <=> ctx = "module"
      /\ Landing[ctx] \in {"catch_module", "catch_stmt", "leave_field", "leave_body"}
      /\ Return[ctx] \in {"module_semi", "import_member", "custom_type"}
  BY DEF TypeOK, Landing, Return
<1> USE <1>0, <1>1 DEF Goto, Throw, OutOfMemory, ClauseInv, InClause, Places
<1>2. CASE ParseProgram
  BY <1>2 DEF ParseProgram
<1>3. CASE CatchModule
  BY <1>3 DEF CatchModule
<1>4. CASE ModuleSemi
  BY <1>4 DEF ModuleSemi
<1>5. CASE IdRefScope
  BY <1>5 DEF IdRefScope
<1>6. CASE IdRefName
  BY <1>6 DEF IdRefName
<1>7. CASE BaseColon
  BY <1>7 DEF BaseColon
<1>8. CASE BodyOpen
  BY <1>8 DEF BodyOpen
<1>9. CASE FieldColon
  BY <1>9 DEF FieldColon
<1>10. CASE CatchField
  BY <1>10 DEF CatchField
<1>11. CASE ItemAssign
  BY <1>11 DEF ItemAssign
<1>12. CASE Comma
  BY <1>12 DEF Comma
<1>13. CASE BodyClose
  BY <1>13 DEF BodyClose
<1>14. CASE BeginImport
  BY <1>14 DEF BeginImport
<1>15. CASE ImportSemi
  BY <1>15 DEF ImportSemi
<1>16. CASE NotADecl
  BY <1>16 DEF NotADecl
<1>17. CASE CatchStmt
  BY <1>17 DEF CatchStmt
<1>18. CASE Finish
  BY <1>18 DEF Finish
<1>19. CASE DestroyParser
  BY <1>19 DEF DestroyParser
<1>20. CASE Terminating
  BY <1>20 DEF Terminating, vars, Ended
<1>21. CASE TypeName
  BY <1>21 DEF TypeName
<1>22. CASE CustomType
  BY <1>22 DEF CustomType
<1>23. CASE TypeSuffix
  BY <1>23 DEF TypeSuffix
<1>24. CASE FieldName
  BY <1>24 DEF FieldName
<1>25. CASE LeaveField
  BY <1>25 DEF LeaveField
<1>26. CASE ItemName
  BY <1>26 DEF ItemName
<1>27. CASE ItemValue
  BY <1>27 DEF ItemValue
<1>28. CASE LeaveItem
  BY <1>28 DEF LeaveItem
<1>29. CASE LinkMember
  BY <1>29 DEF LinkMember
<1>30. CASE LeaveBody
  BY <1>30 DEF LeaveBody
<1>31. CASE DeclIndex
  BY <1>31 DEF DeclIndex
<1>32. CASE ImportMember
  BY <1>32 DEF ImportMember
<1>33. ASSUME NEW k \in {"class", "struct", "enum"}, BeginDecl(k)
      PROVE  ClauseInv'
  BY <1>33 DEF BeginDecl
<1> QED
  BY <1>2, <1>3, <1>4, <1>5, <1>6, <1>7, <1>8, <1>9, <1>10, <1>11, <1>12,
     <1>13, <1>14, <1>15, <1>16, <1>17, <1>18, <1>19, <1>20, <1>21, <1>22,
     <1>23, <1>24, <1>25, <1>26, <1>27, <1>28, <1>29, <1>30, <1>31, <1>32, <1>33
     DEF Next

\* Without an allocation failure parse_program is interrupted only in the module
\* clause: the parser goes on after every other error, and an interrupted parse has
\* made no member.
THEOREM InterruptedInTheClause ==
  Spec => [](NoneFailed => InterruptedOnlyInModuleClause)
<1> DEFINE J == SilentInv /\ (NoneFailed => ClauseInv)
<1>1. Init => J
  <2> SUFFICES ASSUME Init PROVE J
    OBVIOUS
  <2>1. SilentInv
    BY SilentInit
  <2>2. nodes[Root].members = << >>
    <3>1. nodes[1] = NewNode("root", "")
      <4>1. nodes = << NewNode("root", "") >>
        BY DEF Init
      <4>2. \A x : << x >>[1] = x
        OBVIOUS
      <4> QED
        BY <4>1, <4>2, Zenon
    <3>2. \A k, x : NewNode(k, x).members = << >>
      BY DEF NewNode
    <3> QED
      BY <3>1, <3>2, Zenon DEF Root
  <2>3. result # "error"
    BY DEF Init
  <2> QED
    BY <2>1, <2>2, <2>3 DEF ClauseInv
<1>2. J /\ [Next]_vars => J'
  <2> SUFFICES ASSUME J, [Next]_vars PROVE J'
    OBVIOUS
  <2>1. SilentInv'
    BY SilentStep
  <2>2. CASE UNCHANGED vars
    BY <2>1, <2>2 DEF vars, NoneFailed, ClauseInv, InClause
  <2>3. CASE Next
    <3>1. TypeOK /\ Places
      BY DEF SilentInv, IInv
    <3>2. ASSUME NoneFailed' PROVE ClauseInv'
      BY <2>3, <3>1, <3>2, NoneFailedBefore, ClauseStep
    <3> QED
      BY <2>1, <3>2
  <2> QED
    BY <2>2, <2>3
<1>3. J => (NoneFailed => InterruptedOnlyInModuleClause)
  BY DEF ClauseInv, InterruptedOnlyInModuleClause
<1> QED
  BY <1>1, <1>2, <1>3, PTL DEF Spec

\* The scope guards have run on what a conflict may name.
Ranged ==
  /\ pc \in {"field", "catch_field", "member", "comma"} /\ field # 0 => nodes[field].ranged
  /\ pc = "decl_index" => nodes[decl].ranged

LocatedInv == Ranged /\ pending.located /\ ErrorsLocated

\* No operation on the AST takes a range away.
LEMMA RangeKept ==
  ASSUME NEW ns \in Seq(Node), NEW p \in 1 .. Len(ns), NEW m \in Nat, NEW q \in 1 .. Len(ns)
  PROVE  /\ PushMember(ns, p, m)[q].ranged = ns[q].ranged
         /\ IndexMember(PushMember(ns, p, m), p, Len(PushMember(ns, p, m)[p].members))[q].ranged
              = ns[q].ranged
<1> DEFINE ns2 == PushMember(ns, p, m)
           i == Len(ns2[p].members)
<1>1. ns2 \in Seq(Node) /\ Len(ns2) = Len(ns)
  BY PushMemberType
<1>2. SameData(ns, PushMember(ns, p, m), q)
  <2> HIDE DEF ns2
  <2> QED
    BY PushMemberEffect
<1> HIDE DEF ns2
<1>3. i \in Nat
  BY <1>1, MembersType
<1> HIDE DEF i
<1>4. SameData(ns2, IndexMember(ns2, p, i), q)
  BY <1>1, <1>3, IndexMemberEffect
<1> QED
  BY <1>2, <1>4 DEF SameData, ns2, i

\* The scope guard sets the range.
LEMMA RangeSet ==
  ASSUME NEW ns \in Seq(Node), NEW n \in 1 .. Len(ns)
  PROVE  [ns EXCEPT ![n].ranged = TRUE][n].ranged
<1>1. ns[n] \in Node
  OBVIOUS
<1>2. [ns[n] EXCEPT !.ranged = TRUE].ranged
  BY <1>1 DEF Node
<1> DEFINE x == [ns[n] EXCEPT !.ranged = TRUE]
<1> HIDE DEF x
<1>3. [ns EXCEPT ![n] = x][n] = x
  OBVIOUS
<1> QED
  BY <1>2, <1>3 DEF x

\* What an error that is recorded does to the list.
LEMMA ErrorsAppended ==
  ASSUME TypeOK, ErrorsLocated, pending.located
  PROVE  \A i \in 1 .. Len(Append(errors, pending)) : Append(errors, pending)[i].located
<1>1. errors \in Seq(Error)
  BY DEF TypeOK
<1> SUFFICES ASSUME NEW i \in 1 .. Len(Append(errors, pending))
             PROVE  Append(errors, pending)[i].located
  OBVIOUS
<1>2. CASE i \in 1 .. Len(errors)
  <2>1. Append(errors, pending)[i] = errors[i]
    BY <1>1, <1>2
  <2> QED
    BY <1>2, <2>1 DEF ErrorsLocated
<1>3. CASE i = Len(errors) + 1
  <2>1. Append(errors, pending)[i] = pending
    BY <1>1, <1>3
  <2> QED
    BY <2>1
<1> QED
  BY <1>1, <1>2, <1>3

\* A conflict is thrown at places where its node has its range, and every place of
\* that kind is reached through the scope guard.
LEMMA RangedStep ==
  ASSUME TypeOK, NoneFailed, LocatedInv, Next, oom' = oom
  PROVE  Ranged' /\ pending'.located
<1>0. oom # oom - 1
  BY MaxOOMAssumption DEF TypeOK
<1>1. /\ \A k : ErrorAt(k).located
      /\ NoError.located
      /\ \A n : Conflict(n).located = nodes[n].ranged
  BY DEF ErrorAt, NoError, Conflict
<1>2. /\ Landing[ctx] \in {"catch_module", "catch_stmt", "leave_field", "leave_body"}
      /\ Return[ctx] \in {"module_semi", "import_member", "custom_type"}
  BY DEF TypeOK, Landing, Return
<1>3. /\ nodes \in Seq(Node) /\ field \in 0 .. Len(nodes) /\ field \in Nat
      /\ decl \in 1 .. Len(nodes)
  BY AstTypes
<1> USE <1>0, <1>1, <1>2 DEF Goto, Throw, OutOfMemory, LocatedInv, Ranged
<1>4. CASE ParseProgram
  BY <1>4 DEF ParseProgram
<1>5. CASE CatchModule
  BY <1>5 DEF CatchModule
<1>6. CASE ModuleSemi
  BY <1>6 DEF ModuleSemi
<1>7. CASE IdRefScope
  BY <1>7 DEF IdRefScope
<1>8. CASE IdRefName
  BY <1>8 DEF IdRefName
<1>9. CASE BaseColon
  BY <1>9 DEF BaseColon
<1>10. CASE BodyOpen
  BY <1>10 DEF BodyOpen
<1>11. CASE FieldColon
  BY <1>11 DEF FieldColon
<1>12. CASE CatchField
  BY <1>12 DEF CatchField
<1>13. CASE ItemAssign
  BY <1>13 DEF ItemAssign
<1>14. CASE Comma
  BY <1>14 DEF Comma
<1>15. CASE BodyClose
  BY <1>15 DEF BodyClose
<1>16. CASE BeginImport
  BY <1>16 DEF BeginImport
<1>17. CASE ImportSemi
  BY <1>17 DEF ImportSemi
<1>18. CASE NotADecl
  BY <1>18 DEF NotADecl
<1>19. CASE CatchStmt
  BY <1>19 DEF CatchStmt
<1>20. CASE Finish
  BY <1>20 DEF Finish
<1>21. CASE DestroyParser
  BY <1>21 DEF DestroyParser
<1>22. CASE Terminating
  BY <1>22 DEF Terminating, vars, Ended
<1>23. CASE TypeName
  BY <1>23 DEF TypeName
<1>24. CASE CustomType
  BY <1>24 DEF CustomType
<1>25. CASE TypeSuffix
  BY <1>25 DEF TypeSuffix
<1>26. CASE FieldName
  BY <1>26 DEF FieldName
<1>27. CASE ItemName
  BY <1>27 DEF ItemName
<1>28. CASE ItemValue
  BY <1>28 DEF ItemValue
<1>29. CASE DeclIndex
  BY <1>29 DEF DeclIndex
<1>30. CASE ImportMember
  BY <1>30 DEF ImportMember
<1>31. ASSUME NEW k \in {"class", "struct", "enum"}, BeginDecl(k)
      PROVE  Ranged' /\ pending'.located
  BY <1>31 DEF BeginDecl
<1>32. CASE LeaveField
  <2>1. field # 0 => [nodes EXCEPT ![field].ranged = TRUE][field].ranged
    BY <1>3, RangeSet
  <2> QED
    BY <1>32, <2>1 DEF LeaveField
<1>33. CASE LeaveItem
  <2>1. field # 0 => [nodes EXCEPT ![field].ranged = TRUE][field].ranged
    BY <1>3, RangeSet
  <2> QED
    BY <1>33, <2>1 DEF LeaveItem
<1>34. CASE LeaveBody
  <2>1. [nodes EXCEPT ![decl].ranged = TRUE][decl].ranged
    BY <1>3, RangeSet
  <2> QED
    BY <1>34, <2>1 DEF LeaveBody
<1>35. CASE LinkMember
  <2> DEFINE pushed == PushMember(nodes, decl, field)
  <2>1. \A q \in 1 .. Len(nodes) :
          /\ pushed[q].ranged = nodes[q].ranged
          /\ IndexMember(pushed, decl, Len(pushed[decl].members))[q].ranged = nodes[q].ranged
    BY <1>3, RangeKept
  <2>2. /\ pc = "member" /\ UNCHANGED field
        /\ \/ pc' = "crashed" /\ pending' = pending
           \/ field # 0 /\ pending' = Conflict(field) /\ pc' = "leave_body"
           \/ /\ field # 0 /\ pending' = pending /\ pc' = "comma"
              /\ nodes' = IndexMember(pushed, decl, Len(pushed[decl].members))
    BY <1>35 DEF LinkMember
  <2> HIDE DEF pushed
  <2>3. field # 0 => field \in 1 .. Len(nodes)
    BY <1>3
  <2> QED
    BY <2>1, <2>2, <2>3
<1> QED
  BY <1>4, <1>5, <1>6, <1>7, <1>8, <1>9, <1>10, <1>11, <1>12, <1>13, <1>14,
     <1>15, <1>16, <1>17, <1>18, <1>19, <1>20, <1>21, <1>22, <1>23, <1>24,
     <1>25, <1>26, <1>27, <1>28, <1>29, <1>30, <1>31, <1>32, <1>33, <1>34, <1>35
     DEF Next

\* An error is recorded as it was pending.
LEMMA LocatedStep ==
  ASSUME TypeOK, InFlight, NoneFailed, LocatedInv, Next, oom' = oom
  PROVE  LocatedInv'
<1>1. Ranged' /\ pending'.located
  BY RangedStep
<1>2. errors' = errors \/ errors' = Append(errors, pending)
  BY ErrorsGrow
<1>3. \A i \in 1 .. Len(Append(errors, pending)) : Append(errors, pending)[i].located
  BY ErrorsAppended DEF LocatedInv
<1>4. ErrorsLocated'
  BY <1>2, <1>3 DEF ErrorsLocated, LocatedInv
<1> QED
  BY <1>1, <1>4 DEF LocatedInv

\* Every recorded error points into the token list, as dump_syntax_error takes for
\* granted, as long as no allocation has failed.
THEOREM ErrorsAreLocated == Spec => [](NoneFailed => ErrorsLocated)
<1> DEFINE J == TypeOK /\ InFlight /\ (NoneFailed => LocatedInv)
<1>1. Init => J
  <2> SUFFICES ASSUME Init PROVE J
    OBVIOUS
  <2>1. TypeOK
    BY TypeInit
  <2>2. InFlight /\ Ranged
    BY DEF Init, InFlight, Ranged
  <2>3. pending.located
    <3>1. NoError.located
      BY DEF NoError, ErrorAt
    <3> QED
      BY <3>1 DEF Init
  <2>4. ErrorsLocated
    <3>1. Len(errors) = 0
      BY DEF Init
    <3> QED
      BY <3>1 DEF ErrorsLocated
  <2> QED
    BY <2>1, <2>2, <2>3, <2>4 DEF LocatedInv
<1>2. IInv /\ J /\ [Next]_vars => J'
  <2> SUFFICES ASSUME IInv, J, [Next]_vars PROVE J'
    OBVIOUS
  <2>1. TypeOK'
    BY IInvStep DEF IInv
  <2>2. CASE UNCHANGED vars
    BY <2>1, <2>2 DEF vars, NoneFailed, LocatedInv, Ranged, ErrorsLocated, InFlight
  <2>3. CASE Next
    <3>1. InFlight'
      BY <2>3, InFlightStep
    <3>2. ASSUME NoneFailed' PROVE LocatedInv'
      BY <2>3, <3>2, NoneFailedBefore, LocatedStep
    <3> QED
      BY <2>1, <3>1, <3>2
  <2> QED
    BY <2>2, <2>3
<1>3. J => (NoneFailed => ErrorsLocated)
  BY DEF LocatedInv
<1> QED
  BY <1>1, <1>2, <1>3, Invariance, PTL DEF Spec

-----------------------------------------------------------------------------
(* Progress.  A step consumes a token or takes the parser to a place that is *)
(* further on; so error recovery cannot go round in a circle.                *)

\* How far the end is from each place when no token is consumed on the way.
Rank ==
  [ crashed |-> 0, aborted |-> 0, destroyed |-> 0, returned |-> 1,
    stmt |-> 2, catch_stmt |-> 3, decl_index |-> 4, leave_body |-> 5,
    body_close |-> 6, comma |-> 7, member |-> 8, catch_field |-> 9,
    leave_field |-> 10, leave_item |-> 10, field |-> 10, field_colon |-> 11,
    item |-> 11, item_assign |-> 12, item_value |-> 11, body_open |-> 12,
    suffix |-> 13, custom_type |-> 14, base_colon |-> 14, import_semi |-> 4,
    import_member |-> 5, module_semi |-> 4, catch_module |-> 12,
    id_ref_name |-> 15, id_ref |-> 16, type |-> 17, begin |-> 3 ]

Furthest == 18
Measure == Furthest * (Len(tokens) - cur) + Rank[pc]

\* A token is consumed, or the place is further on.
Advances ==
  /\ UNCHANGED tokens
  /\ cur' \in Nat
  /\ cur' > cur \/ (cur' = cur /\ Rank[pc'] < Rank[pc])

\* The ranks are below the weight of a token.
LEMMA RankType == \A p \in PCs : Rank[p] \in 0 .. Furthest - 1
BY DEF Rank, PCs, Furthest

\* Every step but those of a parser that has ended advances.
LEMMA EveryStepAdvances ==
  ASSUME TypeOK, Next, ~Ended
  PROVE  Advances
<1>0. /\ cur \in Nat /\ ctx \in {"module", "import", "field", "base"}
      /\ oom \in Nat
  BY MaxOOMAssumption DEF TypeOK
<1>l. /\ Rank[Landing[ctx]] \in 0 .. 12
      /\ Rank["id_ref"] = 16 /\ Rank["id_ref_name"] = 15 /\ Rank["type"] = 17
      /\ Rank["custom_type"] = 14 /\ Rank["suffix"] = 13
  BY <1>0 DEF Landing, Rank
<1> USE <1>0 DEF Advances, Goto, Throw, OutOfMemory, Consume, Rank
<1>1. CASE ParseProgram
  BY <1>1 DEF ParseProgram
<1>2. CASE CatchModule
  BY <1>2 DEF CatchModule
<1>3. CASE ModuleSemi
  BY <1>3 DEF ModuleSemi
<1>4. CASE IdRefScope
  <2>1. /\ UNCHANGED tokens /\ pc = "id_ref" /\ (cur' = cur \/ cur' = cur + 1)
        /\ pc' = "id_ref_name" \/ pc' = Landing[ctx]
    <3> HIDE DEF Rank
    <3> QED
      BY <1>4 DEF IdRefScope
  <2> HIDE DEF Rank
  <2> QED
    BY <2>1, <1>l
<1>5. CASE IdRefName
  <2>1. /\ UNCHANGED tokens /\ pc = "id_ref_name"
        /\ \/ cur' = cur /\ pc' = Landing[ctx]
           \/ cur' = cur + 1 \/ cur' = cur + 2
    <3> HIDE DEF Rank
    <3> QED
      BY <1>5 DEF IdRefName
  <2> HIDE DEF Rank
  <2> QED
    BY <2>1, <1>l
<1>6. CASE BaseColon
  BY <1>6 DEF BaseColon
<1>7. CASE BodyOpen
  BY <1>7 DEF BodyOpen
<1>8. CASE FieldColon
  BY <1>8 DEF FieldColon
<1>9. CASE CatchField
  BY <1>9 DEF CatchField
<1>10. CASE ItemAssign
  BY <1>10 DEF ItemAssign
<1>11. CASE Comma
  BY <1>11 DEF Comma
<1>12. CASE BodyClose
  BY <1>12 DEF BodyClose
<1>13. CASE BeginImport
  BY <1>13 DEF BeginImport
<1>14. CASE ImportSemi
  BY <1>14 DEF ImportSemi
<1>15. CASE NotADecl
  BY <1>15 DEF NotADecl
<1>16. CASE CatchStmt
  BY <1>16 DEF CatchStmt
<1>17. CASE Finish
  BY <1>17 DEF Finish
<1>18. CASE DestroyParser
  BY <1>18 DEF DestroyParser
<1>19. CASE TypeName
  <2>1. /\ UNCHANGED tokens /\ pc = "type"
        /\ \/ cur' = cur /\ (pc' = Landing[ctx] \/ pc' = "id_ref")
           \/ cur' = cur + 1
    <3> HIDE DEF Rank
    <3> QED
      BY <1>19 DEF TypeName
  <2> HIDE DEF Rank
  <2> QED
    BY <2>1, <1>l
<1>20. CASE CustomType
  <2>1. /\ UNCHANGED tokens /\ pc = "custom_type" /\ cur' = cur
        /\ pc' = Landing[ctx] \/ pc' = "suffix"
    <3> HIDE DEF Rank
    <3> QED
      BY <1>20 DEF CustomType
  <2> HIDE DEF Rank
  <2> QED
    BY <2>1, <1>l
<1>21. CASE TypeSuffix
  BY <1>21 DEF TypeSuffix
<1>22. CASE FieldName
  <2>1. /\ UNCHANGED tokens /\ pc = "field"
        /\ \/ cur' = cur /\ pc' = "catch_field"
           \/ cur' = cur + 1
    <3> HIDE DEF Rank
    <3> QED
      BY <1>22 DEF FieldName
  <2> QED
    BY <2>1
<1>23. CASE LeaveField
  BY <1>23 DEF LeaveField
<1>24. CASE ItemName
  BY <1>24 DEF ItemName
<1>25. CASE ItemValue
  BY <1>25 DEF ItemValue
<1>26. CASE LeaveItem
  BY <1>26 DEF LeaveItem
<1>27. CASE LinkMember
  BY <1>27 DEF LinkMember
<1>28. CASE LeaveBody
  BY <1>28 DEF LeaveBody
<1>29. CASE DeclIndex
  BY <1>29 DEF DeclIndex
<1>30. CASE ImportMember
  <2>1. /\ UNCHANGED tokens /\ pc = "import_member"
        /\ \/ cur' = cur /\ pc' \in {"catch_stmt", "import_semi"}
           \/ cur' = cur + 1
    <3> HIDE DEF Rank
    <3> QED
      BY <1>30 DEF ImportMember
  <2> QED
    BY <2>1
<1>31. CASE Terminating
  BY <1>31 DEF Terminating
<1>32. ASSUME NEW k \in {"class", "struct", "enum"}, BeginDecl(k)
      PROVE  Advances
  <2>1. UNCHANGED tokens /\ (cur' = cur + 1 \/ cur' = cur + 2)
    <3> HIDE DEF Rank
    <3> QED
      BY <1>32 DEF BeginDecl
  <2> QED
    BY <2>1
<1> QED
  BY <1>1, <1>2, <1>3, <1>4, <1>5, <1>6, <1>7, <1>8, <1>9, <1>10, <1>11, <1>12, <1>13,
     <1>14, <1>15, <1>16, <1>17, <1>18, <1>19, <1>20, <1>21, <1>22, <1>23, <1>24, <1>25,
     <1>26, <1>27, <1>28, <1>29, <1>30, <1>31, <1>32 DEF
     Next

\* The parser ends: every step of a parser that has not brings it nearer to the
\* end by a measure that is a number, whatever the tokens, the recoveries and the
\* allocations that fail.  So it takes at most Furthest steps for each token.
THEOREM RecoveryProgresses == Spec => [](Measure \in Nat) /\ [][~Ended => Measure' < Measure]_vars
<1>1. TypeOK /\ EndNotConsumed => Measure \in Nat
  <2> SUFFICES ASSUME TypeOK, EndNotConsumed PROVE Measure \in Nat
    OBVIOUS
  <2>1. cur \in Nat /\ Len(tokens) \in Nat /\ cur < Len(tokens) /\ pc \in PCs
    BY DEF TypeOK, EndsOnce, EndNotConsumed
  <2>2. Rank[pc] \in Nat
    BY <2>1, RankType DEF Furthest
  <2> QED
    BY <2>1, <2>2 DEF Measure, Furthest
<1>2. IInv /\ IInv' /\ [Next]_vars => [~Ended => Measure' < Measure]_vars
  <2> SUFFICES ASSUME IInv, IInv', Next, ~Ended
               PROVE  Measure' < Measure
    OBVIOUS
  <2>1. TypeOK /\ EndNotConsumed /\ TypeOK' /\ EndNotConsumed'
    BY DEF IInv
  <2>2. Advances
    BY <2>1, EveryStepAdvances
  <2>3. cur \in Nat /\ Len(tokens) \in Nat /\ pc \in PCs /\ pc' \in PCs
    BY <2>1 DEF TypeOK, EndsOnce
  <2>4. Rank[pc] \in 0 .. Furthest - 1 /\ Rank[pc'] \in 0 .. Furthest - 1
    BY <2>3, RankType
  <2> DEFINE r == Rank[pc]
             s == Rank[pc']
  <2>5. Measure = Furthest * (Len(tokens) - cur) + r /\ Measure' = Furthest * (Len(tokens) - cur') + s
    BY <2>2 DEF Advances, Measure
  <2>6. cur' \in Nat /\ (cur' > cur \/ (cur' = cur /\ s < r))
    BY <2>2 DEF Advances
  <2>7. r \in 0 .. 17 /\ s \in 0 .. 17
    BY <2>4 DEF Furthest
  <2> HIDE DEF r, s
  <2> QED
    BY <2>3, <2>5, <2>6, <2>7 DEF Furthest
<1> QED
  BY <1>1, <1>2, Invariance, PTL DEF Spec, IInv

=============================================================================
