------------------------------ MODULE BackendMC ------------------------------
(* Modules for the back ends: small ones, with what syntax errors leave. *)
EXTENDS Backend

\* The largest I32 is 1.
MCIntKinds == {"I8", "I32", "U32"}
MCModulus == [I8 |-> 2, I32 |-> 4, U32 |-> 4]

Builtin(k) == [kind |-> k, ref |-> << >>]
Custom(ref) == [kind |-> "Custom", ref |-> ref]
Literal(k, n) == [kind |-> k, data |-> n]

\* A path may begin with the empty name of a leading "::".
Types ==
  {Builtin("U32"), Builtin("Array"), Builtin("null"), Custom(<< "A" >>), Custom(<< "B" >>),
   Custom(<< "A", "x" >>), Custom(<< "", "A" >>)}
Bases == {Builtin("I8"), Builtin("I32"), Builtin("F32"), Builtin("String"), Builtin("null"), Custom(<< "A" >>)}
Given ==
  {NullValue, Literal("U32", 3), Literal("I32", 1), Literal("F64", 0), Literal("String", 0),
   Literal("bad", 0)}

Fields(ts) == [f \in 1 .. Len(ts) |-> [name |-> << "x", "y" >>[f], type |-> ts[f]]]

Member(kind, name, base, items, fields) ==
  [kind |-> kind, name |-> name, indexed |-> TRUE, base |-> base, items |-> items, fields |-> fields]
Composite(kind, name, ts) == Member(kind, name, Builtin("null"), << >>, Fields(ts))
Enum(name, base, items) == Member("enum", name, base, items, << >>)
Import == Member("import", "", Builtin("null"), << >>, << >>)

Module(path, members) == [path |-> path, members |-> members]

\* One enum, with every base type and up to four items; the literals are those
\* the lexer has rules for.
EnumPrograms ==
  {Module(1, << Enum("A", b, s) >>) : b \in Bases, s \in UNION {[1 .. n -> Given] : n \in 1 .. 3}}
  \cup {Module(1, << Enum("A", b, << g, NullValue, NullValue, NullValue >>) >>) : b \in Bases, g \in Given}

\* A struct or a class, next to any other member.
Others ==
  {Enum("B", Builtin("I8"), << NullValue >>), Import}
  \cup {Composite(k, n, << t >>) : k \in {"struct", "class"}, n \in {"A", "B"}, t \in Types}
  \cup {Composite(k, "B", << Builtin("U32"), Custom(<< "B" >>) >>) : k \in {"struct", "class"}}

\* The second of two members of one name is not in member_indices.
Pair(a, b) == << a, IF a.name = b.name THEN [b EXCEPT !.indexed = FALSE] ELSE b >>
PairPrograms == {Module(p, Pair(a, b)) : p \in {0, 2}, a \in Others, b \in Others}

\* Three members whose order differs from the order they are written in.
MixedPrograms ==
  {Module(2, << Composite("class", "C", << Custom(<< "A" >>) >>),
                Composite("struct", "B", << Custom(<< r >>), Custom(<< "C" >>) >>),
                Enum("A", Builtin("U32"), << Literal("U32", 1), NullValue >>),
                Composite("struct", "D", << >>) >>) : r \in {"A", "B", "C", "D"}}

MCPrograms == EnumPrograms \cup PairPrograms \cup MixedPrograms
=============================================================================
