------------------------------- MODULE Backend -------------------------------
(***************************************************************************)
(* The back ends: CXXCompiler::compile (comp/cxx), TypeScriptCompiler      *)
(* ::compile (comp/ts) and the helpers they share (comp/compiler.cc).      *)
(*                                                                         *)
(* compile is a fixed sequence of loops over the members of the module,    *)
(* each turn of which writes one piece of text to one of the output files, *)
(* or returns an error, or stops the program.  A turn is a "job"; the loop *)
(* structure is the sequence of jobs Script, and an action does the next   *)
(* one.  A file holds the jobs whose text was written to it.               *)
(*                                                                         *)
(* main compiles whatever the parser left behind, so the module may have   *)
(* the holes a syntax error leaves: null types, bad or null values, and    *)
(* members that are not in member_indices.                                 *)
(***************************************************************************)
EXTENDS Naturals, Sequences, SequencesExt

CONSTANTS
  Programs,      \* the modules the parser may deliver
  IntKinds,      \* the kinds of integer literals and types: I8 .. U64
  Modulus,       \* 2^w of an integer kind of width w
  MaxFaults      \* bound on the failing allocations, opens and writes

ASSUME IntKindsAssumption ==
  IntKinds \cap {"F32", "F64", "Bool", "String", "Custom", "null", "bad"} = {}
ASSUME ModulusAssumption == Modulus \in [IntKinds -> Nat \ {0}]
ASSUME MaxFaultsAssumption == MaxFaults \in Nat

VARIABLES
  lang,       \* g_language: which back end runs
  mod,        \* the module
  values,     \* EnumItemNode::value of every enum item, by member and item
  todo,       \* the jobs that remain
  out,        \* what has been written to each file
  result,     \* "running", "done", an error kind, "terminated" or "crashed"
  faults      \* failures that may still happen

vars == << lang, mod, values, todo, out, result, faults >>

-----------------------------------------------------------------------------
(* The AST.  A type is [kind, ref]; ref is the path of a custom type name.  *)
(* A value is [kind, data], an integer as its residue; the parser makes the *)
(* literal's kind from the token, whatever the base type is.                *)

Floats == {"F32", "F64"}
Scalars == IntKinds \cup Floats \cup {"Bool", "String"}
Value == [kind : Scalars \cup {"null", "bad"}, data : Nat]
NullValue == [kind |-> "null", data |-> 0]

\* A literal is a value of its kind, an integer within its width; a pointer
\* to no value has no data.
WellKept(v) ==
  /\ v \in Value
  /\ v.kind \in IntKinds => v.data < Modulus[v.kind]
  /\ v.kind = "null" => v = NullValue

ASSUME ProgramsAssumption ==
  \A p \in Programs :
    /\ p.path \in Nat
    /\ p.members \in Seq(Range(p.members))
    /\ \A m \in Range(p.members) :
         /\ m.items \in Seq(Value) /\ \A i \in 1 .. Len(m.items) : WellKept(m.items[i])
         /\ m.fields \in Seq(Range(m.fields))

Members == mod.members
Positions(kind) ==
  FlattenSeq([i \in 1 .. Len(Members) |-> IF Members[i].kind = kind THEN << i >> ELSE << >>])
Enums == Positions("enum")
Structs == Positions("struct")
Classes == Positions("class")

\* resolve_custom_type_name, from the module down: the kind of what a path
\* names, "none" when it names nothing.  (The result is cached in the type
\* name; the AST does not change while compile runs.)
Target(ref) ==
  {i \in 1 .. Len(Members) : Members[i].indexed /\ Members[i].name = ref[1]}
Resolve(ref) ==
  IF Target(ref) = {} THEN "none"
  ELSE LET m == Members[CHOOSE i \in Target(ref) : TRUE] IN
       IF Len(ref) = 1 THEN m.kind
       ELSE IF /\ Len(ref) = 2 /\ m.kind \in {"struct", "class"}
               /\ \E f \in 1 .. Len(m.fields) : m.fields[f].name = ref[2]
            THEN "var" ELSE "none"

-----------------------------------------------------------------------------
(* What the writers of types and values return for a node. *)

\* The C++ writers resolve a custom name and know no arrays.
CxxType(t) ==
  CASE t.kind = "null" -> "crashed"
    [] t.kind \in Scalars -> "ok"
    [] t.kind = "Custom" /\ Resolve(t.ref) = "none" -> "InvalidTypeName"
    [] t.kind = "Custom" /\ Resolve(t.ref) \in {"struct", "class", "enum"} -> "ok"
    [] OTHER -> "terminated"

\* The TypeScript writer copies the path, whether it names something or not.
TsType(t) ==
  CASE t.kind = "null" -> "crashed"
    [] t.kind \in Scalars \cup {"Custom"} -> "ok"
    [] OTHER -> "terminated"

WrittenType(t) == IF lang = "cpp" THEN CxxType(t) ELSE TsType(t)

WrittenExpr(v) == IF v.kind \in IntKinds \cup Floats \cup {"Bool"} THEN "ok" ELSE "terminated"

\* The base types compile writes an enum for.
EnumBase(t) ==
  CASE t.kind = "null" -> "crashed"
    [] t.kind \in IntKinds \cup Floats \cup {"Bool"} -> "ok"
    [] t.kind \in {"String", "Custom"} -> "InvalidEnumBaseType"
    [] OTHER -> "terminated"

\* The base types fill_enum makes a value for.
FilledBase(t) ==
  CASE t.kind = "null" -> "crashed"
    [] t.kind \in IntKinds -> "ok"
    [] t.kind \in Floats \cup {"Bool"} -> "EnumTypeNotIncrementable"
    [] OTHER -> "InvalidEnumBaseType"

\* Mutant: the successor has no width.
IncEnumValueWide(v) == [v EXCEPT !.data = @ + 1]

\* Mutant: the successor saturates.
IncEnumValueSaturating(v) ==
  [v EXCEPT !.data = IF @ + 1 < Modulus[v.kind] THEN @ + 1 ELSE @]

\* inc_enum_value where it is defined: the same kind of literal, one more in
\* the literal's width.  An unsigned literal wraps; an I8 or I16 is promoted to
\* int and converted back.
IncEnumValue(v) == [v EXCEPT !.data = (@ + 1) % Modulus[v.kind]]

\* int32_t and int64_t are not promoted: the successor of the largest is a
\* signed overflow, and undefined.
Unpromoted == {"I32", "I64"}
Overflows(v) == v.kind \in Unpromoted /\ 2 * (v.data + 1) = Modulus[v.kind]

\* inc_enum_value: past an overflow, a literal of the kind with any data.
NextValues(v) ==
  IF Overflows(v) THEN {[v EXCEPT !.data = d] : d \in 0 .. Modulus[v.kind] - 1}
  ELSE {IncEnumValue(v)}

DefaultEnumValue(t) == [kind |-> t.kind, data |-> 0]

-----------------------------------------------------------------------------
(* The loops.  A job is its operation, its file, and the member and the     *)
(* field or item it is about (0 when there is none).                        *)

Job(op, file, m, f) == [op |-> op, file |-> file, m |-> m, f |-> f]
Once(op, file) == << Job(op, file, 0, 0) >>
EachField(op, file, m) == [f \in 1 .. Len(Members[m].fields) |-> Job(op, file, m, f)]
EachItem(op, file, m) == [f \in 1 .. Len(Members[m].items) |-> Job(op, file, m, f)]

\* One job for each of the members at the positions s; with its fields.
Each(op, file, s) == [k \in 1 .. Len(s) |-> Job(op, file, s[k], 0)]
AllFields(op, file, s) == FlattenSeq([k \in 1 .. Len(s) |-> EachField(op, file, s[k])])
Bodies(file, s) ==
  FlattenSeq([k \in 1 .. Len(s) |-> << Job("begin", file, s[k], 0) >> \o EachField("field", file, s[k])])

EnumJobs(file) ==
  FlattenSeq([k \in 1 .. Len(Enums) |->
    EachItem("fill", "none", Enums[k]) \o << Job("enum", file, Enums[k], 0) >>
      \o EachItem("item", file, Enums[k])])

\* The members of classes, as the loops over InterbufResources and over the
\* layouts find them: the position is looked up in structs, and past its end
\* the position is undefined (0 here).
ClassLayouts(op, file) ==
  [k \in 1 .. Len(Classes) |-> Job(op, file, IF k <= Len(Structs) THEN Structs[k] ELSE 0, 0)]

\* Mutant: one of the two loops over the classes looks them up in classes.
LayoutsOneSided(op, file) ==
  Each(op, file, Structs)
    \o IF op = "layout" THEN ClassLayouts(op, file) ELSE Each(op, file, Classes)

Layouts(op, file) == Each(op, file, Structs) \o ClassLayouts(op, file)

\* Mutant: the classes are declared after the structs are defined.
ForwardClassesLate ==
  Each("forward", "header", Structs) \o Bodies("header", Structs)
    \o Each("forward", "header", Classes) \o Bodies("header", Classes)

Composites == Structs \o Classes
Definitions == Each("forward", "header", Composites) \o Bodies("header", Composites)

\* Mutant: a scope less is closed.
NamespacesLeft(op) == [n \in 1 .. mod.path - (IF op = "close_ns" THEN 1 ELSE 0) |-> Job(op, "header", 0, n)]

\* The scopes of the module's path; a module without a path has none.
Namespaces(op) == [n \in 1 .. mod.path |-> Job(op, "header", 0, n)]

CxxHeader ==
  Namespaces("open_ns") \o EnumJobs("header") \o Definitions
    \o AllFields("accessor", "header", Composites)
    \o Once("resources", "header") \o Layouts("layout", "header")
    \o Once("declare_create", "header") \o Namespaces("close_ns") \o Once("close", "header")

CxxSource ==
  Once("create", "source") \o Layouts("make_layout", "source")
    \o AllFields("add_field", "source", Composites)
    \o Once("end", "source")

TsSource == EnumJobs("module") \o Bodies("module", Composites)

Script ==
  IF lang = "cpp"
  THEN Once("open", "header") \o Once("open", "source") \o Once("classify", "none")
         \o CxxHeader \o CxxSource
  ELSE Once("open", "module") \o Once("classify", "none") \o TsSource

-----------------------------------------------------------------------------
Init ==
  /\ lang \in {"cpp", "ts"}
  /\ mod \in Programs
  /\ values = [m \in 1 .. Len(Members) |-> Members[m].items]
  /\ todo = Script
  /\ out = [f \in {"header", "source", "module"} |-> << >>]
  /\ result = "running"
  /\ faults = MaxFaults

Current == Head(todo)
At(ops) == result = "running" /\ todo # << >> /\ Current.op \in ops
Type == Members[Current.m].fields[Current.f].type
Base == Members[Current.m].base

\* Mutant: the loop of fill_enum does not go on.
AdvanceStuck ==
  /\ todo' = IF Current.op = "fill" THEN todo ELSE Tail(todo)
  /\ UNCHANGED << lang, mod, result, faults >>

Advance == todo' = Tail(todo) /\ UNCHANGED << lang, mod, result, faults >>
Write(job) == out' = [out EXCEPT ![job.file] = Append(@, job)]

\* compile returns an error, or the program stops: nothing more is written.
Stop(r) == result' = r /\ UNCHANGED << lang, mod, values, todo, out, faults >>

\* Write the job's text if the writers accept what it is about.
WriteIf(verdict) ==
  \/ verdict = "ok" /\ Write(Current) /\ Advance /\ UNCHANGED values
  \/ verdict # "ok" /\ Stop(verdict)

Open == At({"open"}) /\ Advance /\ UNCHANGED << values, out >>

\* The members are sorted into structs, classes and enums; an import is none.
Classify ==
  /\ At({"classify"})
  /\ \/ Positions("import") = << >> /\ Advance /\ UNCHANGED << values, out >>
     \/ Positions("import") # << >> /\ Stop("terminated")

\* fill_enum, one item: an item without a value gets the default of the base
\* type or the successor of its predecessor's value, which only integers have.
\* An overflow may also stop the program.
FillItem ==
  LET m == Current.m  i == Current.f
      Set(v) == values' = [values EXCEPT ![m][i] = v] /\ Advance /\ UNCHANGED out
  IN
  /\ At({"fill"})
  /\ \/ values[m][i] # NullValue /\ Advance /\ UNCHANGED << values, out >>
     \/ /\ values[m][i] = NullValue
        /\ \/ FilledBase(Base) # "ok" /\ Stop(FilledBase(Base))
           \/ FilledBase(Base) = "ok" /\ i = 1 /\ Set(DefaultEnumValue(Base))
           \/ /\ FilledBase(Base) = "ok" /\ i > 1
              /\ \/ /\ values[m][i - 1].kind \in IntKinds
                    /\ \E v \in NextValues(values[m][i - 1]) : Set(v)
                 \/ Overflows(values[m][i - 1]) /\ Stop("crashed")
                 \/ values[m][i - 1].kind \notin IntKinds /\ Stop("terminated")

BeginEnum == At({"enum"}) /\ WriteIf(EnumBase(Base))
WriteItem == At({"item"}) /\ WriteIf(WrittenExpr(values[Current.m][Current.f]))

\* Mutant: the header names a type without looking it up.
WriteFieldUnresolved ==
  At({"field", "accessor", "add_field"})
    /\ WriteIf(IF Current.file = "header" /\ Type.kind = "Custom" THEN "ok" ELSE WrittenType(Type))

\* A field, its accessors and its entry in a layout name the field's type.
WriteField == At({"field", "accessor", "add_field"}) /\ WriteIf(WrittenType(Type))

WritePlain ==
  At({"open_ns", "forward", "begin", "resources", "declare_create", "close_ns", "end"})
    /\ WriteIf("ok")

\* Mutant: without a path the function is written without a qualifier.
WriteCreateUnqualified == At({"create"}) /\ WriteIf("ok")

\* The qualified name of create_interbuf_resources: namespace_path is null in
\* a module without a path.
WriteCreate == At({"create"}) /\ WriteIf(IF mod.path = 0 THEN "crashed" ELSE "ok")

\* A position past the end of structs is read: the program stops, or takes
\* the member it happens to find for the class.
WriteLayout ==
  /\ At({"layout", "make_layout"})
  /\ \/ Current.m # 0 /\ WriteIf("ok")
     \/ Current.m = 0 /\ Stop("crashed")
     \/ /\ Current.m = 0
        /\ \E m \in 1 .. Len(Members) : Write([Current EXCEPT !.m = m])
        /\ Advance /\ UNCHANGED values

Close == At({"close"}) /\ Advance /\ UNCHANGED << values, out >>

Return == result = "running" /\ todo = << >> /\ Stop("done")

\* An fopen, an fwrite or an allocation fails.  What was written of the job's
\* text before the failing fwrite is not represented.
Fault ==
  /\ result = "running" /\ todo # << >> /\ faults > 0
  /\ Current.op # "close"
  /\ faults' = faults - 1
  /\ result' = CASE Current.op = "open" -> "ErrorOpeningFile"
                 [] Current.op \in {"classify", "fill"} -> "OutOfMemory"
                 [] OTHER -> "IO"
  /\ UNCHANGED << lang, mod, values, todo, out >>

Terminating == result # "running" /\ UNCHANGED vars

Compile ==
  \/ Open \/ Classify \/ FillItem \/ BeginEnum \/ WriteItem \/ WriteField
  \/ WritePlain \/ WriteCreate \/ WriteLayout \/ Close \/ Return

Next == Compile \/ Fault \/ Terminating

Spec == Init /\ [][Next]_vars

\* One sequential thread: it goes on as long as it can.  Nothing is assumed of
\* the faults.
FairSpec == Spec /\ WF_vars(Compile)

-----------------------------------------------------------------------------
(* Properties. *)

Results == { "running", "done", "terminated", "crashed", "OutOfMemory", "IO",
             "ErrorOpeningFile", "InvalidTypeName", "InvalidEnumBaseType",
             "EnumTypeNotIncrementable" }

\* The types of the variables; there is a value for each item, and its data
\* stays within the width of its own kind.
TypeOK ==
  /\ lang \in {"cpp", "ts"} /\ mod \in Programs
  /\ DOMAIN values = 1 .. Len(Members)
  /\ \A m \in 1 .. Len(Members) :
       /\ DOMAIN values[m] = 1 .. Len(Members[m].items)
       /\ \A i \in 1 .. Len(Members[m].items) : WellKept(values[m][i])
  /\ result \in Results
  /\ faults \in 0 .. MaxFaults

Pieces(file) == 1 .. Len(out[file])
HasPiece(file, k, op, m) == \E j \in 1 .. k : out[file][j].op = op /\ out[file][j].m = m

\* Whatever else goes wrong, the header never mentions a struct, a class or an
\* enum it has not declared further up, although enums, structs and classes are
\* written in an order of their own and not in that of the source file.
DeclaredBeforeUse ==
  \A k \in Pieces("header") :
    LET p == out["header"][k]  t == Members[p.m].fields[p.f].type IN
    p.op \in {"field", "accessor"} /\ t.kind = "Custom" =>
      \E m \in Target(t.ref) :
        HasPiece("header", k - 1, "forward", m) \/ HasPiece("header", k - 1, "enum", m)

\* create_interbuf_resources assigns only layouts that InterbufResources has,
\* and what a field of a struct type refers to is among them.  (Layouts of
\* classes are declared and made under the names of structs, so a field of a
\* class type refers to one that does not exist.)
LayoutsDeclared ==
  Len(Classes) <= Len(Structs) =>
    \A k \in Pieces("source") :
      LET p == out["source"][k]
          Has(m) == HasPiece("header", Len(out["header"]), "layout", m)
      IN
      /\ p.op = "make_layout" => Has(p.m)
      /\ p.op = "add_field" /\ Members[p.m].fields[p.f].type.kind = "Custom" =>
           \A m \in Target(Members[p.m].fields[p.f].type.ref) : Members[m].kind = "struct" => Has(m)

WrittenOnce(op, m, f) ==
  \E k \in Pieces("header") : \A j \in Pieces("header") :
    (out["header"][j].op = op /\ out["header"][j].m = m /\ out["header"][j].f = f) <=> j = k

\* Nothing goes to the source file before the header is whole: every scope of
\* the module's path is opened once and closed once, and every field of every
\* type has its declaration and its accessors, once.
HeaderWholeBeforeSource ==
  out["source"] # << >> =>
    /\ \A n \in 1 .. mod.path : WrittenOnce("open_ns", 0, n) /\ WrittenOnce("close_ns", 0, n)
    /\ \A m \in 1 .. Len(Members) : Members[m].kind \in {"struct", "class"} =>
         \A f \in 1 .. Len(Members[m].fields) :
           WrittenOnce("field", m, f) /\ WrittenOnce("accessor", m, f)

\* Every error in the program is found while the header is written: the source
\* file is left empty or it is complete, unless the disk fails.
ErrorsPrecedeSource ==
  result \in {"InvalidTypeName", "InvalidEnumBaseType", "EnumTypeNotIncrementable", "terminated"}
    => out["source"] = << >>

\* What the value of item i of member m counts up from, and how far: the last
\* item with a value in the program, or the zero of the base type.
GivenUpTo(m, i) == {j \in 1 .. i : Members[m].items[j] # NullValue}
LastGiven(m, i) ==
  CHOOSE j \in GivenUpTo(m, i) : \A k \in GivenUpTo(m, i) : k <= j
Origin(m, i) ==
  IF GivenUpTo(m, i) = {} THEN DefaultEnumValue(Members[m].base)
  ELSE Members[m].items[LastGiven(m, i)]
Distance(m, i) == IF GivenUpTo(m, i) = {} THEN i - 1 ELSE i - LastGiven(m, i)
Successor(v, n) == [kind |-> v.kind, data |-> (v.data + n) % Modulus[v.kind]]

\* The count passes the largest I32 or I64 on its way to item i.
CountsTooFar(m, i) ==
  /\ Origin(m, i).kind \in Unpromoted
  /\ \E k \in 0 .. Distance(m, i) - 1 : Overflows(Successor(Origin(m, i), k))

CountedValue(m, i, v) ==
  IF i \in GivenUpTo(m, i) THEN v = Members[m].items[i]
  ELSE \/ v = NullValue
       \/ v = Successor(Origin(m, i), Distance(m, i))
       \/ CountsTooFar(m, i) /\ v.kind = Origin(m, i).kind

\* The items fill_enum gives a value to count up from the last item that has
\* one in the program, in that value's own kind, and from the zero of the base
\* type when there is none; the others keep the value they have.  The count
\* wraps in the width of its kind, except that the one of an I32 or an I64 is
\* not defined from its first overflow on: of it only the kind is left.
CountedFromLastExplicit ==
  \A m \in 1 .. Len(Members) : \A i \in DOMAIN values[m] : CountedValue(m, i, values[m][i])

(* What a program must be like to be compiled, stated without the loops. *)

EnumCompilable(e) ==
  /\ e.base.kind \in IntKinds \cup Floats \cup {"Bool"}
  /\ \A i \in 1 .. Len(e.items) :
       /\ e.items[i].kind \in IntKinds \cup Floats \cup {"Bool", "null"}
       /\ e.items[i] = NullValue =>
            /\ e.base.kind \in IntKinds
            /\ i > 1 => e.items[i - 1].kind \in IntKinds \cup {"null"}

TypesIn(kinds) ==
  UNION {{Members[m].fields[f].type : f \in 1 .. Len(Members[m].fields)} :
           m \in {i \in 1 .. Len(Members) : Members[i].kind \in kinds}}

Compilable(l) ==
  /\ \A m \in 1 .. Len(Members) :
       /\ Members[m].kind # "import"
       /\ Members[m].kind = "enum" => EnumCompilable(Members[m])
  /\ \A t \in TypesIn({"struct", "class"}) :
       t.kind \in Scalars \/
       /\ t.kind = "Custom"
       /\ l = "cpp" => Resolve(t.ref) \in {"struct", "class", "enum"}
  /\ l = "cpp" => mod.path > 0 /\ Len(Classes) <= Len(Structs)

\* An item without a value is counted past the largest I32 or I64.
Overflown ==
  \E m \in 1 .. Len(Members) : \E i \in 1 .. Len(Members[m].items) :
    /\ Members[m].kind = "enum"
    /\ Members[m].items[i] = NullValue /\ CountsTooFar(m, i)

\* compile succeeds on exactly the compilable programs, when nothing else
\* fails; but where an enum overflows, it may stop the program instead.  (With
\* more classes than structs the behaviour is undefined.)
CompilesExactly ==
  result # "running" /\ faults = MaxFaults
    /\ (lang = "cpp" => Len(Classes) <= Len(Structs))
      => /\ result = "done" => Compilable(lang)
         /\ Compilable(lang) => result = "done" \/ (result = "crashed" /\ Overflown)

\* compile comes to an end.
Terminates == <>(result # "running")
=============================================================================
