------------------------------- MODULE Parser -------------------------------
(***************************************************************************)
(* The recursive-descent parser of interbufc (ast/parser.cc and            *)
(* ast/parser/), as a state machine over the significant tokens of one     *)
(* source file.  The C++ call stack is flat: parse_program calls           *)
(* parse_program_stmt, which calls parse_var_field, parse_type_name and    *)
(* parse_id_ref, so "pc" is the place in the innermost function and "ctx"  *)
(* says who called parse_id_ref or parse_type_name.                        *)
(*                                                                         *)
(* The std::optional<SyntaxError> every function returns is "pending": a   *)
(* function that fails sets it and goes to the "leave_..." place where its *)
(* scope guards run, or to the "catch_..." place where the caller records  *)
(* it in syntax_errors and carries on.                                     *)
(*                                                                         *)
(* Every allocation may fail, at most MaxOOM times in a behaviour.         *)
(***************************************************************************)
EXTENDS Naturals, Sequences

CONSTANTS
  Names,     \* the identifiers; an Id token is represented by its text
  Inputs,    \* the token lists the lexer may deliver
  MaxOOM     \* bound on the number of allocations that fail

\* The token kinds the parser tells apart, except Id.  "type" stands for any
\* built-in type name, "lit" for any literal, "other" for every token no
\* production mentions.
Kinds ==
  { "module", "class", "struct", "enum", "import", "as", "LBrace", "RBrace",
    "LBracket", "RBracket", "Colon", "ScopeOp", "Comma", "Semicolon", "Dot",
    "AssignOp", "type", "lit", "other", "End" }

Token == Names \cup Kinds

\* The lexer ends every list it delivers with its only End token.
EndsOnce(s) ==
  /\ s \in Seq(Token)
  /\ s # << >>
  /\ \A i \in 1 .. Len(s) : s[i] = "End" <=> i = Len(s)

ASSUME NamesAssumption == Names \cap (Kinds \cup {""}) = {}
ASSUME InputsAssumption == \A s \in Inputs : EndsOnce(s)
ASSUME MaxOOMAssumption == MaxOOM \in Nat

VARIABLES
  tokens,    \* token_list without trivia (TokenCursor models the trivia)
  cur,       \* how many tokens next_token has consumed
  pc, ctx,   \* the place in the code, and the caller of a shared function
  nodes,     \* the AST: the members in the order they are created; 1 is the root
  decl,      \* class_node, struct_node or enum_node
  slot,      \* idx_member, the position of decl in the root's members
  field,     \* member_field: the SharedPtr of the member loop, 0 when null
  pending,   \* syntax_error: the error a function returns
  errors,    \* syntax_errors
  path,      \* module_name and namespace_path
  result,    \* what parse_program returned
  attached,  \* the parser still holds document and cur_parent
  oom        \* allocations that may still fail

vars == << tokens, cur, pc, ctx, nodes, decl, slot, field, pending, errors,
           path, result, attached, oom >>

-----------------------------------------------------------------------------
(* The AST.  A node keeps what the passes after the parser read: its name,  *)
(* its type (of a field, or base type of an enum), its value (of an enum    *)
(* item), whether token_range was assigned, its members and member_indices. *)

Keys == Names \cup {""}          \* a name is empty until it is built
Index == [Keys -> Nat]            \* the position of the member, 0: no entry

Node == [ kind    : {"root", "class", "struct", "enum", "import", "var", "item"},
          name    : Keys,
          type    : {"null", "builtin", "custom", "array"},
          value   : {"null", "lit", "bad"},
          ranged  : BOOLEAN,
          members : Seq(Nat),
          index   : Index ]

Root == 1

NewNode(kind, name) ==
  [ kind |-> kind, name |-> name, type |-> "null", value |-> "null",
    ranged |-> FALSE, members |-> << >>, index |-> [k \in Keys |-> 0] ]

\* Mutant: the member is inserted at the front.
PushMemberFront(ns, p, m) == [ns EXCEPT ![p].members = << m >> \o @]

\* push_member: append to the member array, leaving the index alone.
PushMember(ns, p, m) == [ns EXCEPT ![p].members = Append(@, m)]

\* Mutant: the size of the member array taken for the position.
IndexMemberPastIt(ns, p, i) ==
  [ns EXCEPT ![p].index[ns[ns[p].members[i]].name] = i + 1]

\* index_member: enter position i of p's members under the member's name.
IndexMember(ns, p, i) ==
  [ns EXCEPT ![p].index[ns[ns[p].members[i]].name] = i]

\* Mutant: the look-up is not confined to the container.
IndexedAnywhere(ns, p, name) == \E q \in 1 .. Len(ns) : ns[q].index[name] # 0

Indexed(ns, p, name) == ns[p].index[name] # 0

-----------------------------------------------------------------------------
(* Errors, and the ways out of a function. *)

ErrorKind == { "none", "OutOfMemory", "UnexpectedToken", "ExpectingSingleToken",
               "ExpectingTokens", "ExpectingId", "ExpectingExpr",
               "ExpectingDecl", "ConflictingDefinitions" }
\* An error is located when its token_range points into the token list.  The
\* node is the one a conflict names (0: none).
Error == [kind : ErrorKind, located : BOOLEAN, node : Nat]

ErrorAt(kind) == [kind |-> kind, located |-> TRUE, node |-> 0]
NoError == ErrorAt("none")
Conflict(n) ==
  [kind |-> "ConflictingDefinitions", located |-> nodes[n].ranged, node |-> n]

Throw(e, to) == pending' = e /\ pc' = to /\ UNCHANGED oom

\* Mutant: the function returns without an error.
OutOfMemoryUnnoticed(to) == oom > 0 /\ oom' = oom - 1 /\ pc' = to /\ UNCHANGED pending

\* gen_out_of_memory_error: an allocation fails and the function returns.
OutOfMemory(to) ==
  /\ oom > 0
  /\ oom' = oom - 1
  /\ pending' = ErrorAt("OutOfMemory")
  /\ pc' = to

Goto(to) == pc' = to /\ UNCHANGED << pending, oom >>

\* Where a failing parse_id_ref or parse_type_name lands, and where
\* parse_id_ref returns to, by caller.
Landing == [ module |-> "catch_module", import |-> "catch_stmt",
             field |-> "leave_field", base |-> "leave_body" ]
Return == [ module |-> "module_semi", import |-> "import_member",
            field |-> "custom_type", base |-> "custom_type" ]

Tok == tokens[cur + 1]           \* peek_token
Tok2 == tokens[cur + 2]          \* peek_token after one next_token
Consume(n) == cur' = cur + n     \* n calls of next_token

-----------------------------------------------------------------------------
Init ==
  /\ tokens \in Inputs
  /\ cur = 0
  /\ pc = "begin"
  /\ ctx = "module"
  /\ nodes = << NewNode("root", "") >>
  /\ decl = Root /\ slot = 0 /\ field = 0
  /\ pending = NoError
  /\ errors = << >>
  /\ path = "null"
  /\ result = "none"
  /\ attached = TRUE
  /\ oom = MaxOOM

-----------------------------------------------------------------------------
(* parse_program: the optional module clause. *)

ParseProgram ==
  /\ pc = "begin"
  /\ \/ Tok = "module" /\ Consume(1) /\ ctx' = "module" /\ Goto("id_ref")
     \/ Tok # "module" /\ Goto("stmt") /\ UNCHANGED << cur, ctx >>
  /\ UNCHANGED << tokens, nodes, decl, slot, field, errors, path, result, attached >>

\* An error in the module name is recorded and the clause goes on.
CatchModule ==
  /\ pc = "catch_module"
  /\ \/ /\ errors' = Append(errors, pending) /\ Throw(NoError, "module_semi")
        /\ UNCHANGED result
     \/ /\ OutOfMemory("returned") /\ result' = "error" /\ UNCHANGED errors
  /\ UNCHANGED << tokens, cur, ctx, nodes, decl, slot, field, path, attached >>

\* A missing semicolon is returned to main, which alone sees it.
ModuleSemi ==
  /\ pc = "module_semi"
  /\ \/ /\ Tok = "Semicolon" /\ Consume(1) /\ Goto("stmt")
        /\ path' = IF path = "parsed" THEN "set" ELSE path
        /\ UNCHANGED result
     \/ /\ Tok # "Semicolon" /\ Throw(ErrorAt("ExpectingSingleToken"), "returned")
        /\ result' = "error"
        /\ UNCHANGED << cur, path >>
  /\ UNCHANGED << tokens, ctx, nodes, decl, slot, field, errors, attached >>

-----------------------------------------------------------------------------
(* parse_id_ref: [ "ScopeOp" ] Id { "Dot" Id }. *)

IdRefScope ==
  LET rest == IF Tok = "ScopeOp" THEN cur + 1 ELSE cur IN
  /\ pc = "id_ref"
  /\ \/ cur' = rest /\ Goto("id_ref_name")
     \/ cur' \in {cur, rest} /\ OutOfMemory(Landing[ctx])
  /\ UNCHANGED << tokens, ctx, nodes, decl, slot, field, errors, path, result, attached >>

\* Mutant: the dot is not consumed.
IdRefNameStuck ==
  /\ pc = "id_ref_name"
  /\ \/ /\ Tok \notin Names /\ UNCHANGED cur
        /\ Throw(ErrorAt("ExpectingSingleToken"), Landing[ctx])
     \/ Tok \in Names /\ Tok2 = "Dot" /\ Goto("id_ref_name") /\ UNCHANGED cur
     \/ Tok \in Names /\ Tok2 # "Dot" /\ Consume(1) /\ Goto(Return[ctx])
  /\ UNCHANGED << tokens, ctx, nodes, decl, slot, field, errors, path, result, attached >>

IdRefName ==
  /\ pc = "id_ref_name"
  /\ \/ /\ Tok \notin Names
        /\ Throw(ErrorAt("ExpectingSingleToken"), Landing[ctx]) /\ UNCHANGED << cur, path >>
     \/ /\ Tok \in Names /\ Consume(1) /\ OutOfMemory(Landing[ctx]) /\ UNCHANGED path
     \/ /\ Tok \in Names /\ Tok2 = "Dot" /\ Consume(2)
        /\ Goto("id_ref_name") /\ UNCHANGED path
     \/ /\ Tok \in Names /\ Tok2 # "Dot" /\ Consume(1) /\ Goto(Return[ctx])
        /\ path' = IF ctx = "module" THEN "parsed" ELSE path
  /\ UNCHANGED << tokens, ctx, nodes, decl, slot, field, errors, result, attached >>

-----------------------------------------------------------------------------
(* parse_type_name, for a field (with_circumfixes) or an enum base.  The    *)
(* type is written through the reference type_name_out.                     *)

TypeOwner == IF ctx = "field" THEN field ELSE decl
SetType(t) == nodes' = [nodes EXCEPT ![TypeOwner].type = t]

TypeName ==
  /\ pc = "type"
  /\ \/ /\ Tok = "type" /\ Consume(1) /\ SetType("builtin") /\ Goto("suffix")
     \/ /\ Tok = "type" /\ OutOfMemory(Landing[ctx]) /\ UNCHANGED << cur, nodes >>
     \/ /\ Tok \in Names /\ Goto("id_ref") /\ UNCHANGED << cur, nodes >>
     \/ /\ Tok \notin Names \cup {"type"}
        /\ Throw(ErrorAt("UnexpectedToken"), Landing[ctx]) /\ UNCHANGED << cur, nodes >>
  /\ UNCHANGED << tokens, ctx, decl, slot, field, errors, path, result, attached >>

\* Mutant: type_name_out is not written.
CustomTypeLost ==
  /\ pc = "custom_type" /\ Goto("suffix")
  /\ UNCHANGED << tokens, cur, ctx, nodes, decl, slot, field, errors, path, result, attached >>

CustomType ==
  /\ pc = "custom_type"
  /\ \/ SetType("custom") /\ Goto("suffix")
     \/ OutOfMemory(Landing[ctx]) /\ UNCHANGED nodes
  /\ UNCHANGED << tokens, cur, ctx, decl, slot, field, errors, path, result, attached >>

\* A failed allocation of the array node overwrites the element type by null.
TypeSuffix ==
  /\ pc = "suffix"
  /\ \/ ctx = "base" /\ Goto("body_open") /\ UNCHANGED << cur, nodes >>
     \/ /\ ctx = "field" /\ Tok # "LBracket"
        /\ Goto("leave_field") /\ UNCHANGED << cur, nodes >>
     \/ /\ ctx = "field" /\ Tok = "LBracket" /\ Tok2 # "RBracket" /\ Consume(1)
        /\ Throw(ErrorAt("ExpectingSingleToken"), "leave_field") /\ UNCHANGED nodes
     \/ /\ ctx = "field" /\ Tok = "LBracket" /\ Tok2 = "RBracket" /\ Consume(2)
        /\ \/ SetType("array") /\ Goto("suffix")
           \/ SetType("null") /\ OutOfMemory("leave_field")
  /\ UNCHANGED << tokens, ctx, decl, slot, field, errors, path, result, attached >>

-----------------------------------------------------------------------------
(* parse_program_stmt: class, struct and enum declarations. *)

\* The keyword and the name.  The node is a root member before it is indexed:
\* a declaration that fails later stays in the member array.
BeginDecl(k) ==
  LET n == Len(nodes) + 1
      Push(name) == PushMember(Append(nodes, NewNode(k, name)), Root, n)
  IN
  /\ pc = "stmt" /\ Tok = k
  /\ \/ /\ Consume(1) /\ OutOfMemory("catch_stmt")
        /\ UNCHANGED << nodes, decl, slot >>
     \/ /\ Consume(1) /\ Tok2 \notin Names
        /\ Throw(ErrorAt("ExpectingSingleToken"), "catch_stmt")
        /\ UNCHANGED << nodes, decl, slot >>
     \/ /\ Consume(2) /\ Tok2 \in Names
        /\ decl' = n /\ slot' = Len(nodes[Root].members) + 1
        /\ \/ /\ nodes' = Push(Tok2)
              /\ Goto(IF k = "enum" THEN "base_colon" ELSE "body_open")
           \/ nodes' = Push("") /\ OutOfMemory("catch_stmt")
  /\ UNCHANGED << tokens, ctx, field, errors, path, result, attached >>

BaseColon ==
  /\ pc = "base_colon"
  /\ \/ Tok = "Colon" /\ Consume(1) /\ ctx' = "base" /\ Goto("type")
     \/ /\ Tok # "Colon" /\ Throw(ErrorAt("ExpectingSingleToken"), "leave_body")
        /\ UNCHANGED << cur, ctx >>
  /\ UNCHANGED << tokens, nodes, decl, slot, field, errors, path, result, attached >>

InEnum == nodes[decl].kind = "enum"

BodyOpen ==
  /\ pc = "body_open"
  /\ \/ /\ Tok = "LBrace" /\ Consume(1) /\ field' = 0
        /\ Goto(IF InEnum THEN "item" ELSE "field")
     \/ /\ Tok # "LBrace" /\ Throw(ErrorAt("ExpectingSingleToken"), "leave_body")
        /\ UNCHANGED << cur, field >>
  /\ UNCHANGED << tokens, ctx, nodes, decl, slot, errors, path, result, attached >>

\* parse_var_field up to the name.  When the name is missing member_field
\* keeps the value it had: null, or the field before this one.
FieldName ==
  LET n == Len(nodes) + 1 IN
  /\ pc = "field"
  /\ \/ /\ Tok \notin Names /\ Throw(ErrorAt("ExpectingSingleToken"), "catch_field")
        /\ UNCHANGED << cur, nodes, field >>
     \/ /\ Tok \in Names /\ Consume(1)
        /\ \/ /\ nodes' = Append(nodes, NewNode("var", Tok)) /\ field' = n
              /\ Goto("field_colon")
           \/ /\ nodes' = Append(nodes, NewNode("var", "")) /\ field' = n
              /\ OutOfMemory("catch_field")
           \/ field' = 0 /\ OutOfMemory("catch_field") /\ UNCHANGED nodes
  /\ UNCHANGED << tokens, ctx, decl, slot, errors, path, result, attached >>

FieldColon ==
  /\ pc = "field_colon"
  /\ \/ Tok = "Colon" /\ Consume(1) /\ ctx' = "field" /\ Goto("type")
     \/ /\ Tok # "Colon" /\ Throw(ErrorAt("ExpectingSingleToken"), "leave_field")
        /\ UNCHANGED << cur, ctx >>
  /\ UNCHANGED << tokens, nodes, decl, slot, field, errors, path, result, attached >>

\* Mutant: the scope guard is missing.
LeaveFieldUnranged ==
  /\ pc = "leave_field"
  /\ Goto(IF pending = NoError THEN "member" ELSE "catch_field")
  /\ UNCHANGED << tokens, cur, ctx, nodes, decl, slot, field, errors, path, result, attached >>

\* The scope guard that sets token_range, then the return.
LeaveField ==
  /\ pc = "leave_field"
  /\ nodes' = [nodes EXCEPT ![field].ranged = TRUE]
  /\ Goto(IF pending = NoError THEN "member" ELSE "catch_field")
  /\ UNCHANGED << tokens, cur, ctx, decl, slot, field, errors, path, result, attached >>

\* Mutant: the error is forgotten.
CatchFieldSilently ==
  /\ pc = "catch_field" /\ Throw(NoError, "member")
  /\ UNCHANGED << tokens, cur, ctx, nodes, decl, slot, field, errors, path, result, attached >>

\* Mutant: an error that cannot be recorded is forgotten.
CatchFieldUnrecorded ==
  /\ pc = "catch_field"
  /\ \/ errors' = Append(errors, pending) /\ Throw(NoError, "member")
     \/ oom > 0 /\ oom' = oom - 1 /\ pending' = NoError /\ pc' = "member" /\ UNCHANGED errors
  /\ UNCHANGED << tokens, cur, ctx, nodes, decl, slot, field, path, result, attached >>

\* "Parse the rest": the loop records the error and goes on with member_field.
CatchField ==
  /\ pc = "catch_field"
  /\ \/ errors' = Append(errors, pending) /\ Throw(NoError, "member")
     \/ OutOfMemory("leave_body") /\ UNCHANGED errors
  /\ UNCHANGED << tokens, cur, ctx, nodes, decl, slot, field, path, result, attached >>

\* Mutant: the result of the allocation is not checked.
ItemNameUnchecked ==
  /\ pc = "item" /\ Tok \in Names /\ Consume(1)
  /\ field' = Len(nodes) + 1 /\ Goto("item_assign")
  /\ UNCHANGED << tokens, ctx, nodes, decl, slot, errors, path, result, attached >>

\* The name and optional value of an enum item.  Unlike a field, an item that
\* fails is dropped: the error leaves the loop.
ItemName ==
  LET n == Len(nodes) + 1 IN
  /\ pc = "item"
  /\ \/ OutOfMemory("leave_body") /\ UNCHANGED << cur, nodes, field >>
     \/ /\ Tok \notin Names /\ Throw(ErrorAt("ExpectingSingleToken"), "leave_body")
        /\ UNCHANGED << cur, nodes, field >>
     \/ /\ Tok \in Names /\ Consume(1)
        /\ \/ /\ nodes' = Append(nodes, NewNode("item", Tok)) /\ field' = n
              /\ Goto("item_assign")
           \/ OutOfMemory("leave_body") /\ UNCHANGED << nodes, field >>
  /\ UNCHANGED << tokens, ctx, decl, slot, errors, path, result, attached >>

ItemAssign ==
  /\ pc = "item_assign"
  /\ \/ Tok = "AssignOp" /\ Consume(1) /\ Goto("item_value")
     \/ Tok # "AssignOp" /\ Goto("leave_item") /\ UNCHANGED cur
  /\ UNCHANGED << tokens, ctx, nodes, decl, slot, field, errors, path, result, attached >>

\* parse_expr: at the end of the file a BadExpr node, otherwise a literal; any
\* other token is consumed.
ItemValue ==
  LET SetValue(v) == nodes' = [nodes EXCEPT ![field].value = v] IN
  /\ pc = "item_value"
  /\ \/ /\ Tok = "End" /\ SetValue("bad")
        /\ Throw(ErrorAt("ExpectingTokens"), "leave_item") /\ UNCHANGED cur
     \/ /\ Tok = "End" /\ OutOfMemory("leave_item") /\ UNCHANGED << cur, nodes >>
     \/ /\ Tok = "lit" /\ Consume(1) /\ SetValue("lit") /\ Goto("leave_item")
     \/ /\ Tok = "lit" /\ Consume(1) /\ OutOfMemory("leave_item") /\ UNCHANGED nodes
     \/ /\ Tok \notin {"End", "lit"} /\ Consume(1)
        /\ Throw(ErrorAt("ExpectingExpr"), "leave_item") /\ UNCHANGED nodes
  /\ UNCHANGED << tokens, ctx, decl, slot, field, errors, path, result, attached >>

LeaveItem ==
  /\ pc = "leave_item"
  /\ nodes' = [nodes EXCEPT ![field].ranged = TRUE]
  /\ Goto(IF pending = NoError THEN "member" ELSE "leave_body")
  /\ UNCHANGED << tokens, cur, ctx, decl, slot, field, errors, path, result, attached >>

\* The tail of both member loops: push, look the name up, index.  A null
\* member_field is pushed and then dereferenced.
LinkMember ==
  LET pushed == PushMember(nodes, decl, field)
      i == Len(pushed[decl].members)
      taken == field # 0 /\ Indexed(nodes, decl, nodes[field].name)
  IN
  /\ pc = "member"
  /\ \/ OutOfMemory("leave_body") /\ UNCHANGED nodes
     \/ field = 0 /\ nodes' = pushed /\ Goto("crashed")
     \/ field # 0 /\ nodes' = pushed /\ OutOfMemory("leave_body")
     \/ taken /\ nodes' = pushed /\ Throw(Conflict(field), "leave_body")
     \/ field # 0 /\ ~taken /\ nodes' = IndexMember(pushed, decl, i) /\ Goto("comma")
  /\ UNCHANGED << tokens, cur, ctx, decl, slot, field, errors, path, result, attached >>

Comma ==
  /\ pc = "comma"
  /\ \/ Tok = "Comma" /\ Consume(1) /\ Goto(IF InEnum THEN "item" ELSE "field")
     \/ Tok # "Comma" /\ Goto("body_close") /\ UNCHANGED cur
  /\ UNCHANGED << tokens, ctx, nodes, decl, slot, field, errors, path, result, attached >>

\* Mutant: the token is consumed before it is tested.
BodyCloseEager ==
  /\ pc = "body_close" /\ Consume(1)
  /\ IF Tok = "RBrace" THEN Goto("leave_body")
     ELSE Throw(ErrorAt("ExpectingSingleToken"), "leave_body")
  /\ UNCHANGED << tokens, ctx, nodes, decl, slot, field, errors, path, result, attached >>

BodyClose ==
  /\ pc = "body_close"
  /\ \/ Tok = "RBrace" /\ Consume(1) /\ Goto("leave_body")
     \/ /\ Tok # "RBrace" /\ Throw(ErrorAt("ExpectingSingleToken"), "leave_body")
        /\ UNCHANGED cur
  /\ UNCHANGED << tokens, ctx, nodes, decl, slot, field, errors, path, result, attached >>

LeaveBody ==
  /\ pc = "leave_body"
  /\ nodes' = [nodes EXCEPT ![decl].ranged = TRUE]
  /\ Goto(IF pending = NoError THEN "decl_index" ELSE "catch_stmt")
  /\ UNCHANGED << tokens, cur, ctx, decl, slot, field, errors, path, result, attached >>

\* Only a declaration whose body is complete is indexed in the root.
DeclIndex ==
  LET taken == Indexed(nodes, Root, nodes[decl].name) IN
  /\ pc = "decl_index"
  /\ \/ OutOfMemory("catch_stmt") /\ UNCHANGED nodes
     \/ taken /\ Throw(Conflict(decl), "catch_stmt") /\ UNCHANGED nodes
     \/ ~taken /\ nodes' = IndexMember(nodes, Root, slot) /\ Goto("stmt")
  /\ UNCHANGED << tokens, cur, ctx, decl, slot, field, errors, path, result, attached >>

-----------------------------------------------------------------------------
(* parse_program_stmt: imports, and everything else. *)

BeginImport ==
  /\ pc = "stmt" /\ Tok = "import" /\ Consume(1)
  /\ \/ ctx' = "import" /\ Goto("id_ref")
     \/ OutOfMemory("catch_stmt") /\ UNCHANGED ctx
  /\ UNCHANGED << tokens, nodes, decl, slot, field, errors, path, result, attached >>

\* The import node enters the AST (it was allocated before parse_id_ref).  The
\* alias is indexed without the look-up the declarations make, so the insert
\* may meet a key that is there: peff's HashMap keeps it, replaces it or fails.
\* next_token is not called for the alias.
ImportMember ==
  LET n == Len(nodes) + 1
      Pushed(name) == PushMember(Append(nodes, NewNode("import", name)), Root, n)
      i == Len(nodes[Root].members) + 1
      alias == Tok2
  IN
  /\ pc = "import_member"
  /\ \/ OutOfMemory("catch_stmt") /\ UNCHANGED << cur, nodes >>
     \/ /\ Tok # "as" /\ nodes' = Pushed("") /\ UNCHANGED cur
        /\ \/ Goto("import_semi") \/ OutOfMemory("catch_stmt")
     \/ /\ Tok = "as" /\ alias \notin Names /\ Consume(1) /\ nodes' = Pushed("")
        /\ Throw(ErrorAt("ExpectingSingleToken"), "catch_stmt")
     \/ /\ Tok = "as" /\ alias \in Names /\ Consume(1)
        /\ \/ /\ nodes' = IndexMember(Pushed(alias), Root, i) /\ Goto("import_semi")
           \/ /\ Indexed(nodes, Root, alias) /\ nodes' = Pushed(alias)
              /\ \/ Goto("import_semi")
                 \/ Throw(ErrorAt("OutOfMemory"), "catch_stmt")
           \/ /\ nodes' \in {Pushed(""), Pushed(alias)} /\ OutOfMemory("catch_stmt")
  /\ UNCHANGED << tokens, ctx, decl, slot, field, errors, path, result, attached >>

\* Mutant: the semicolon is optional.
ImportSemiOptional ==
  /\ pc = "import_semi" /\ Goto("stmt")
  /\ cur' = IF Tok = "Semicolon" THEN cur + 1 ELSE cur
  /\ UNCHANGED << tokens, ctx, nodes, decl, slot, field, errors, path, result, attached >>

ImportSemi ==
  /\ pc = "import_semi"
  /\ \/ Tok = "Semicolon" /\ Consume(1) /\ Goto("stmt")
     \/ /\ Tok # "Semicolon" /\ Throw(ErrorAt("ExpectingSingleToken"), "catch_stmt")
        /\ UNCHANGED cur
  /\ UNCHANGED << tokens, ctx, nodes, decl, slot, field, errors, path, result, attached >>

NotADecl ==
  /\ pc = "stmt"
  /\ Tok \notin {"class", "struct", "enum", "import", "End"}
  /\ Consume(1) /\ Throw(ErrorAt("ExpectingDecl"), "catch_stmt")
  /\ UNCHANGED << tokens, ctx, nodes, decl, slot, field, errors, path, result, attached >>

\* Mutant: the first error of a statement ends parse_program.
CatchStmtFatal ==
  /\ pc = "catch_stmt"
  /\ pending' = NoError /\ errors' = Append(errors, pending)
  /\ pc' = "returned" /\ result' = "error"
  /\ UNCHANGED << tokens, cur, ctx, nodes, decl, slot, field, path, attached, oom >>

\* parse_program records the error of a statement and parses the next one.
CatchStmt ==
  /\ pc = "catch_stmt"
  /\ \/ /\ errors' = Append(errors, pending) /\ Throw(NoError, "stmt")
        /\ UNCHANGED result
     \/ OutOfMemory("returned") /\ result' = "error" /\ UNCHANGED errors
  /\ UNCHANGED << tokens, cur, ctx, nodes, decl, slot, field, path, attached >>

\* set_parser drops the parser's document and cur_parent.
Finish ==
  /\ pc = "stmt" /\ Tok = "End"
  /\ attached' = FALSE /\ result' = "ok" /\ Goto("returned")
  /\ UNCHANGED << tokens, cur, ctx, nodes, decl, slot, field, errors, path >>

\* main drops the last reference: ~Parser asserts that document was dropped.
DestroyParser ==
  /\ pc = "returned"
  /\ Goto(IF attached THEN "aborted" ELSE "destroyed")
  /\ UNCHANGED << tokens, cur, ctx, nodes, decl, slot, field, errors, path, result, attached >>

Ended == pc \in {"crashed", "aborted", "destroyed"}
Terminating == Ended /\ UNCHANGED vars

Next ==
  \/ ParseProgram \/ CatchModule \/ ModuleSemi \/ IdRefScope \/ IdRefName
  \/ TypeName \/ CustomType \/ TypeSuffix
  \/ \E k \in {"class", "struct", "enum"} : BeginDecl(k)
  \/ BaseColon \/ BodyOpen \/ FieldName \/ FieldColon \/ LeaveField \/ CatchField
  \/ ItemName \/ ItemAssign \/ ItemValue \/ LeaveItem \/ LinkMember \/ Comma
  \/ BodyClose \/ LeaveBody \/ DeclIndex
  \/ BeginImport \/ ImportMember \/ ImportSemi \/ NotADecl \/ CatchStmt
  \/ Finish \/ DestroyParser \/ Terminating

Spec == Init /\ [][Next]_vars

\* The parser is ordinary sequential code: it runs on as long as it can.
FairSpec == Spec /\ WF_vars(Next)

-----------------------------------------------------------------------------
(* Properties. *)

PCs == { "begin", "catch_module", "module_semi", "stmt", "id_ref", "id_ref_name",
         "type", "custom_type", "suffix", "base_colon", "body_open", "field",
         "field_colon", "leave_field", "catch_field", "item", "item_assign",
         "item_value", "leave_item", "member", "comma", "body_close",
         "leave_body", "decl_index", "import_member", "import_semi",
         "catch_stmt", "returned", "crashed", "aborted", "destroyed" }

\* Every variable has its type, and every node the parser's locals hold is in
\* the AST.
TypeOK ==
  /\ EndsOnce(tokens)
  /\ cur \in Nat
  /\ pc \in PCs
  /\ ctx \in {"module", "import", "field", "base"}
  /\ nodes \in Seq(Node) /\ nodes # << >>
  /\ decl \in 1 .. Len(nodes)
  /\ slot \in Nat
  /\ field \in 0 .. Len(nodes)
  /\ pending \in Error
  /\ errors \in Seq(Error)
  /\ path \in {"null", "parsed", "set"}
  /\ result \in {"none", "ok", "error"}
  /\ attached \in BOOLEAN
  /\ oom \in 0 .. MaxOOM

\* The End token is never consumed: whatever the parser reports and however it
\* resynchronises, there is always a token to peek (parse_expr and the last
\* case of parse_program_stmt consume the token they reject).
EndNotConsumed == cur < Len(tokens)

\* member_indices never lies: an indexed name leads to a member that is there,
\* is not null and has that name.  The members that failed, the ones pushed
\* twice and the aliases that meet a taken name do not disturb it.
Sound(ns) ==
  \A p \in 1 .. Len(ns), k \in Keys : Indexed(ns, p, k) =>
    LET i == ns[p].index[k] IN
    /\ i \in 1 .. Len(ns[p].members)
    /\ ns[p].members[i] \in 1 .. Len(ns)
    /\ ns[ns[p].members[i]].name = k
IndexSound == Sound(nodes)

\* The places inside the body of a declaration.
BodyPCs == { "base_colon", "body_open", "type", "custom_type", "suffix", "field",
             "field_colon", "leave_field", "catch_field", "item", "item_assign",
             "item_value", "leave_item", "member", "comma", "body_close",
             "leave_body", "decl_index" }

\* idx_member is read before the body is parsed and used after it: it is still
\* the position of the declaration among the root's members.
LinkedAt(ns, i, n) == i \in 1 .. Len(ns[Root].members) /\ ns[Root].members[i] = n
SlotLinked ==
  /\ pc \in BodyPCs \/ ctx \in {"field", "base"} => slot # 0
  /\ slot # 0 => LinkedAt(nodes, slot, decl)

\* A member the generators can work on: reachable by its name, with its type.
Complete(p, i) ==
  LET m == nodes[p].members[i] IN
  /\ m # 0
  /\ nodes[m].kind # "import" =>
       nodes[p].index[nodes[m].name] = i
  /\ nodes[m].kind \in {"var", "enum"} => nodes[m].type # "null"

\* When the parser reports nothing the AST has no hole: every member of every
\* container is complete.  The generators, which dereference types and look
\* names up without checks, rely on it.
SilentParseIsComplete ==
  result = "ok" /\ errors = << >> =>
    \A p \in 1 .. Len(nodes) : \A i \in 1 .. Len(nodes[p].members) : Complete(p, i)

\* Every recorded error has a range that dump_syntax_error can look up in the
\* token list: a conflict is reported only after the scope guard of the node
\* it names has run.  (Checked where no allocation fails.)
ErrorsLocated == \A i \in 1 .. Len(errors) : errors[i].located

\* An error in flight is recorded, or gives way to an out-of-memory error, or
\* is returned to main; no handler drops it.
NoErrorDropped ==
  [][ pending # NoError /\ pending' # pending =>
        \/ pending' = NoError /\ errors' = Append(errors, pending)
        \/ pending' = ErrorAt("OutOfMemory") /\ oom' < oom ]_vars

\* Without allocation failures parse_program is interrupted only in the module
\* clause, so an interrupted parse has produced no member.
InterruptedOnlyInModuleClause == result = "error" => nodes[Root].members = << >>

\* Error recovery always makes progress: the parser ends on every input.
Termination == <>Ended

\* ~Parser: assert(!document) (parser.cc:9).
DocumentReleased == pc # "aborted"

\* parser.cc:185: after the error of a field "Parse the rest to make sure that
\* we have gained all of the information".
RestIsParsed == pc # "crashed"

\* main.cc:271: "Definition of `x' conflicts with other definitions" - there is
\* another definition of that name.
ConflictsAreReal ==
  \A e \in {errors[j] : j \in 1 .. Len(errors)} :
    e.kind = "ConflictingDefinitions" =>
      \E m \in 1 .. Len(nodes) : m # e.node /\ nodes[m].name = nodes[e.node].name
=============================================================================
