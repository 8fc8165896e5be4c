---------------------------- MODULE ParserGrammar ----------------------------
(***************************************************************************)
(* What the parser is meant to accept.  The language of interbuf is        *)
(* regular, so the reference is a matcher over sets of positions: each     *)
(* production maps the set of positions where it may start to the set of   *)
(* positions where it may end.  It knows nothing of the parser's order of  *)
(* tests, error recovery or AST.                                           *)
(***************************************************************************)
EXTENDS Parser

\* One token of S after any of the positions P.
One(S, P) == {i + 1 : i \in {j \in P : j < Len(tokens) /\ tokens[j + 1] \in S}}
Opt(F(_), P) == P \cup F(P)
Star(F(_), P) ==
  LET reach[n \in 0 .. Len(tokens)] ==
        IF n = 0 THEN P ELSE LET Q == reach[n - 1] IN Q \cup F(Q)
  IN  reach[Len(tokens)]
ListOf(F(_), P) == Star(LAMBDA Q : F(One({"Comma"}, Q)), F(P))

DottedId(P) == Star(LAMBDA Q : One(Names, One({"Dot"}, Q)), One(Names, P))
IdRef(P) == DottedId(Opt(LAMBDA Q : One({"ScopeOp"}, Q), P))
BaseType(P) == One({"type"}, P) \cup DottedId(P)
FieldType(P) == Star(LAMBDA Q : One({"RBracket"}, One({"LBracket"}, Q)), BaseType(P))
Field(P) == FieldType(One({"Colon"}, One(Names, P)))
Item(P) == Opt(LAMBDA Q : One({"lit"}, One({"AssignOp"}, Q)), One(Names, P))

Body(F(_), P) == One({"RBrace"}, ListOf(F, One({"LBrace"}, P)))
Record(P) == Body(Field, One(Names, One({"class", "struct"}, P)))
Enumeration(P) == Body(Item, BaseType(One({"Colon"}, One(Names, One({"enum"}, P)))))
Import(P) == One({"Semicolon"}, IdRef(One({"import"}, P)))
ImportAs(P) == One({"Semicolon"}, One(Names, One({"as"}, IdRef(One({"import"}, P)))))
Module(P) == One({"Semicolon"}, IdRef(One({"module"}, P)))

Decl(P) == Record(P) \cup Enumeration(P) \cup Import(P)
Program == One({"End"}, Star(Decl, Opt(Module, {0})))
ProgramWithAliases ==
  One({"End"}, Star(LAMBDA P : Decl(P) \cup ImportAs(P), Opt(Module, {0})))

WellFormed == Len(tokens) \in Program

\* Two members of one container have the same name.
Duplicates ==
  \E p \in 1 .. Len(nodes) : \E i, j \in 1 .. Len(nodes[p].members) :
    LET m == nodes[p].members[i]  n == nodes[p].members[j] IN
    /\ m \notin {0, n} /\ n # 0
    /\ nodes[m].name = nodes[n].name /\ nodes[m].name # ""

NoOOM == oom = MaxOOM

\* A program the parser accepts without a word is a sentence of the grammar and
\* has no duplicate definition: recovery never hides an error.
AcceptsOnlyWellFormed ==
  result = "ok" /\ errors = << >> => WellFormed /\ ~Duplicates

\* On a sentence of the grammar, unless an allocation fails, the first thing
\* the parser reports is a definition that really conflicts with another one.
RejectsOnlyDuplicates ==
  result = "ok" /\ NoOOM /\ errors # << >> /\ WellFormed =>
    /\ errors[1].kind = "ConflictingDefinitions"
    /\ Duplicates

\* parse_program_stmt has a branch for "import a.b as c;" (parser.cc:538); a
\* program of the grammar with aliases gets no error other than a conflict.
AliasesAreAccepted ==
  result = "ok" /\ NoOOM /\ errors # << >> /\ Len(tokens) \in ProgramWithAliases =>
    errors[1].kind = "ConflictingDefinitions"
=============================================================================
