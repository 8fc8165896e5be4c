----------------------------- MODULE AstLifetime -----------------------------
(***************************************************************************)
(* Who owns the AST, and how it is taken apart (ast/astnode.h and .cc,     *)
(* ast/document.h and .cc, ModuleNode::set_parser, and main, which owns    *)
(* the document, the parser and the two modules), and the values fill_enum *)
(* makes while the module is compiled.                                     *)
(*                                                                         *)
(* A node whose last SharedPtr goes is not destroyed: it is put on the     *)
(* document's destructible list, and destroyed when the next node is       *)
(* constructed or the document dies.  A destructor only ever puts other    *)
(* nodes on the list, so destruction does not recurse.                     *)
(*                                                                         *)
(* A reference count is represented by the pairs that make it up: "holds"  *)
(* has << o, x >> when o owns x.  How many times o owns x does not matter  *)
(* to whether the count is zero.                                           *)
(***************************************************************************)
EXTENDS Naturals, Sequences, FiniteSets, SequencesExt

CONSTANT MaxNodes      \* bound on the calls of make_ast_node in a run
ASSUME MaxNodesAssumption == MaxNodes \in Nat /\ MaxNodes >= 3

Nodes == 1 .. MaxNodes
Null == 0
\* The other objects that own something: main's locals, Parser and Document.
Main == MaxNodes + 1
TheParser == MaxNodes + 2
Document == MaxNodes + 3
Objects == 1 .. MaxNodes + 3

VARIABLES
  phase,     \* how far main has come
  state,     \* of each node: absent, live, listed or destroyed
  kind,      \* of each node
  made,      \* the calls of make_ast_node; the n-th makes node n
  holds,     \* the owners
  mod,       \* main's "mod"
  job,       \* the node under construction: its kind, owner and elements
  clearing,  \* who runs _do_clear_deferred_destructible_ast_nodes
  list,      \* destructible_ast_node_list, the head first
  batch,     \* the detached list the inner loop walks, i first
  doc        \* the document: alive, in its destructor, or dead

vars == << phase, state, kind, made, holds, mod, job, clearing, list, batch, doc >>

Held(h, x) == \E p \in h : p[2] = x
Of(o) == {p \in holds : p[1] = o}
NoJob == [kind |-> "none", owner |-> Main, elements |-> {}]

Init ==
  /\ phase = "parser"
  /\ state = [n \in Nodes |-> "absent"]
  /\ kind = [n \in Nodes |-> "none"]
  /\ made = 0
  /\ holds = {<< Main, Document >>}
  /\ mod = Null
  /\ job = NoJob
  /\ clearing = "no"
  /\ list = << >> /\ batch = << >>
  /\ doc = "alive"

-----------------------------------------------------------------------------
\* Mutant: a node is listed when any of its owners lets go.
ResetAny(h, st) ==
  LET zero == {n \in Nodes : st[n] = "live" /\ \E p \in holds \ h : p[2] = n} IN
  /\ holds' = h
  /\ state' = [n \in Nodes |-> IF n \in zero THEN "listed" ELSE st[n]]
  /\ \E s \in SetToSeqs(zero) : list' = s \o list
  /\ doc' = IF doc = "alive" /\ ~Held(h, Document) THEN "reset" ELSE doc

\* The owners h remain after some SharedPtr of "holds" was reset.  A parser
\* that is no longer owned is destroyed at once and lets go of what it owns
\* (its assertion that it owns no document is Parser's concern); a node is put
\* on the list of its document, in the order in which the pointers go; a
\* document enters its destructor.
Reset(h, st) ==
  LET h2 == IF Held(h, TheParser) THEN h ELSE {p \in h : p[1] # TheParser}
      zero == {n \in Nodes : st[n] = "live" /\ ~Held(h2, n)}
  IN
  /\ holds' = h2
  /\ state' = [n \in Nodes |-> IF n \in zero THEN "listed" ELSE st[n]]
  /\ \E s \in SetToSeqs(zero) : list' = s \o list
  /\ doc' = IF doc = "alive" /\ ~Held(h2, Document) THEN "reset" ELSE doc

Idle == clearing = "no" /\ job = NoJob /\ doc = "alive"

\* make_ast_node: the constructor of AstNode first clears the list.
Construct(k, owner, elements) ==
  /\ Idle /\ made < MaxNodes
  /\ made' = made + 1
  /\ job' = [kind |-> k, owner |-> owner, elements |-> elements]
  /\ clearing' = "ctor"

-----------------------------------------------------------------------------
(* _do_clear_deferred_destructible_ast_nodes *)

\* Mutant: the head of the list is not reset.
TakeListKept ==
  /\ clearing # "no" /\ batch = << >> /\ list # << >>
  /\ batch' = list
  /\ UNCHANGED << phase, state, kind, made, holds, mod, job, clearing, list, doc >>

\* The outer loop detaches the list.
TakeList ==
  /\ clearing # "no" /\ batch = << >> /\ list # << >>
  /\ batch' = list /\ list' = << >>
  /\ UNCHANGED << phase, state, kind, made, holds, mod, job, clearing, doc >>

\* The inner loop destroys i, after it has read its successor.
DestroyHead ==
  LET i == Head(batch) IN
  /\ clearing # "no" /\ batch # << >>
  /\ batch' = Tail(batch)
  /\ Reset(holds \ Of(i), [state EXCEPT ![i] = "destroyed"])
  /\ UNCHANGED << phase, kind, made, mod, job, clearing >>

Cleared == batch = << >> /\ list = << >>

\* A field owns one type: an array type takes its element over from the field.
Replaced == IF job.owner = Main THEN {} ELSE Of(job.owner)

\* The node is constructed and given to its owner.  main's own nodes are the
\* root module, which the document owns too, and mod, which is made twice.
Constructed ==
  /\ clearing = "ctor" /\ Cleared
  /\ LET own == {<< job.owner, made >>} \cup {<< made, e >> : e \in job.elements}
         root == IF phase = "root" THEN {<< Document, made >>} ELSE {}
         old == IF job.kind = "mod" THEN {<< Main, mod >>} ELSE Replaced
     IN
     Reset((holds \ old) \cup own \cup root, [state EXCEPT ![made] = "live"])
  /\ kind' = [kind EXCEPT ![made] = job.kind]
  /\ mod' = IF job.kind = "mod" THEN made ELSE mod
  /\ phase' = CASE phase = "root" -> "mod1" [] phase = "mod1" -> "mod2"
                [] phase = "mod2" -> "begin" [] OTHER -> phase
  /\ job' = NoJob /\ clearing' = "no"
  /\ UNCHANGED << made, batch >>

\* The allocation of the control block fails: the owner gets a null pointer.
\* main does not look at the result of the first "mod"; compile gives up.
NotConstructed ==
  /\ clearing = "ctor" /\ Cleared
  /\ Reset(holds \ Replaced, state)
  /\ phase' = CASE phase \in {"root", "mod2", "compile"} -> "exit" [] phase = "mod1" -> "mod2"
                [] OTHER -> phase
  /\ job' = NoJob /\ clearing' = "no"
  /\ UNCHANGED << kind, made, mod, batch >>

-----------------------------------------------------------------------------
(* main *)

MakeParser ==
  /\ phase = "parser"
  /\ \/ /\ holds' = holds \cup {<< Main, TheParser >>, << TheParser, Document >>}
        /\ phase' = "root"
     \/ phase' = "exit" /\ UNCHANGED holds
  /\ UNCHANGED << state, kind, made, mod, job, clearing, list, batch, doc >>

\* Mutant: the second module is given to the first.
MakeModulesNested ==
  /\ \/ phase = "root" /\ Construct("root", Main, {})
     \/ phase \in {"mod1", "mod2"} /\ Construct("mod", mod, {})
  /\ UNCHANGED << phase, state, kind, holds, mod, list, batch, doc >>

MakeModules ==
  /\ \/ phase = "root" /\ Construct("root", Main, {})
     \/ phase \in {"mod1", "mod2"} /\ Construct("mod", Main, {})
  /\ UNCHANGED << phase, state, kind, holds, mod, list, batch, doc >>

\* The locals go out of scope: mod, root_mod, parser, and at last document.
Exit ==
  LET Has(x) == << Main, x >> \in holds
      Local(x) ==
        \/ x = mod
        \/ x \in Nodes \ {mod} /\ ~Has(mod)
        \/ x = TheParser /\ \A n \in Nodes : ~Has(n)
        \/ x = Document /\ \A o \in Objects : o # Document => ~Has(o)
  IN
  /\ phase = "exit" /\ Idle
  /\ \E x \in Objects : Has(x) /\ Local(x) /\ Reset(holds \ {<< Main, x >>}, state)
  /\ UNCHANGED << phase, kind, made, mod, job, clearing, batch >>

-----------------------------------------------------------------------------
(* The parser: what it owns while it parses. *)

BeginParse ==
  /\ phase = "begin"
  /\ holds' = holds \cup {<< TheParser, mod >>} /\ phase' = "parse"
  /\ UNCHANGED << state, kind, made, mod, job, clearing, list, batch, doc >>

Parsing == phase = "parse" /\ Idle
Locals(k) == {n \in Nodes : << Main, n >> \in holds /\ kind[n] = k}
Elements(f) == {p[2] : p \in Of(f)}

\* make_ast_node for a declaration, for a field in its scope, or for the type
\* of a field; an array type is made from the type the field has.
MakeNode ==
  /\ Parsing
  /\ \/ Locals("decl") = {} /\ Construct("decl", Main, {})
     \/ Locals("decl") # {} /\ Construct("field", Main, {})
     \/ \E f \in Locals("field") : Construct("type", f, Elements(f))
  /\ UNCHANGED << phase, state, kind, holds, mod, list, batch, doc >>

\* push_member
Adopt ==
  /\ Parsing
  /\ \/ \E d \in Locals("decl") : holds' = holds \cup {<< mod, d >>}
     \/ \E d \in Locals("decl"), f \in Locals("field") : holds' = holds \cup {<< d, f >>}
  /\ UNCHANGED << phase, state, kind, made, mod, job, clearing, list, batch, doc >>

\* A local SharedPtr goes out of scope, the inner one first, or is assigned over.
Drop ==
  /\ Parsing
  /\ \E n \in Locals("field") \cup (IF Locals("field") = {} THEN Locals("decl") ELSE {}) :
       Reset(holds \ {<< Main, n >>}, state)
  /\ UNCHANGED << phase, kind, made, mod, job, clearing, batch >>

\* Mutant: the parser keeps its document and its module.
SetParserCycle ==
  /\ Parsing /\ Locals("decl") = {}
  /\ Reset(holds \cup {<< mod, TheParser >>}, state)
  /\ phase' = "compile"
  /\ UNCHANGED << kind, made, mod, job, clearing, batch >>

\* set_parser: mod owns the parser, which lets go of the document and of mod.
SetParser ==
  /\ Parsing /\ Locals("decl") = {}
  /\ Reset((holds \ Of(TheParser)) \cup {<< mod, TheParser >>}, state)
  /\ phase' = "compile"
  /\ UNCHANGED << kind, made, mod, job, clearing, batch >>

\* parse_program returns an error before set_parser.
Interrupted ==
  /\ Parsing /\ Locals("decl") = {}
  /\ phase' = "compile"
  /\ UNCHANGED << state, kind, made, holds, mod, job, clearing, list, batch, doc >>

-----------------------------------------------------------------------------
(* The compiler, which main runs whatever the parser has left. *)

Member(f) == \E d \in Nodes : << mod, d >> \in holds /\ << d, f >> \in holds

\* fill_enum: an item of an enum (a field here, its value a type) that has no
\* value gets one, made without a parser and held by nothing in between.
FillEnum ==
  /\ phase = "compile"
  /\ \E f \in Nodes : Member(f) /\ Elements(f) = {} /\ Construct("type", f, {})
  /\ UNCHANGED << phase, state, kind, holds, mod, list, batch, doc >>

\* compile returns.
Compiled ==
  /\ phase = "compile" /\ Idle /\ phase' = "exit"
  /\ UNCHANGED << state, kind, made, holds, mod, job, clearing, list, batch, doc >>

-----------------------------------------------------------------------------
(* ~Document *)

\* Mutant: the list is cleared before root_module is reset.
ResetRootLate ==
  /\ doc = "reset" /\ clearing # "dtor"
  /\ clearing' = "dtor"
  /\ UNCHANGED << phase, state, kind, made, holds, mod, job, list, batch, doc >>

ResetRoot ==
  /\ doc = "reset" /\ clearing = "no"
  /\ Reset(holds \ Of(Document), state)
  /\ clearing' = "dtor"
  /\ UNCHANGED << phase, kind, made, mod, job, batch >>

DocumentDestroyed ==
  /\ clearing = "dtor" /\ Cleared
  /\ doc' = "dead" /\ clearing' = "no"
  /\ UNCHANGED << phase, state, kind, made, holds, mod, job, list, batch >>

Terminating == doc = "dead" /\ UNCHANGED vars

Next ==
  \/ TakeList \/ DestroyHead \/ Constructed \/ NotConstructed
  \/ MakeParser \/ MakeModules \/ Exit
  \/ BeginParse \/ MakeNode \/ Adopt \/ Drop \/ SetParser \/ Interrupted
  \/ FillEnum \/ Compiled
  \/ ResetRoot \/ DocumentDestroyed \/ Terminating

Spec == Init /\ [][Next]_vars

\* One sequential thread, which runs on as long as it can (that the parser
\* itself terminates is shown in Parser).
FairSpec == Spec /\ WF_vars(Next)

-----------------------------------------------------------------------------
(* Properties. *)

\* The variables have their types; in particular a node is given only to a node
\* or to main, and destructors run only for a constructor or for ~Document.
TypeOK ==
  /\ phase \in {"parser", "root", "mod1", "mod2", "begin", "parse", "compile", "exit"}
  /\ state \in [Nodes -> {"absent", "live", "listed", "destroyed"}]
  /\ kind \in [Nodes -> {"none", "root", "mod", "decl", "field", "type"}]
  /\ made \in 0 .. MaxNodes
  /\ holds \subseteq Objects \X Objects
  /\ mod \in Nodes \cup {Null}
  /\ job \in [ kind : {"none", "root", "mod", "decl", "field", "type"},
              owner : Nodes \cup {Main}, elements : SUBSET Nodes ]
  /\ clearing \in {"no", "ctor", "dtor"}
  /\ list \in Seq(Nodes) /\ batch \in Seq(Nodes)
  /\ doc \in {"alive", "reset", "dead"}

\* No SharedPtr dangles: what is owned is neither destroyed nor waiting to be,
\* even though destruction is put off while ownership goes on changing.
OwnedIsLive == \A n \in Nodes : Held(holds, n) => state[n] = "live"

\* The intrusive list and the part of it the inner loop still has to walk hold
\* exactly the nodes that wait for their destructor, each of them once: one
\* destructor call per node, and no cycle through next_destructible.
ListedOnce ==
  \A n \in Nodes :
    Cardinality({i \in 1 .. Len(batch \o list) : (batch \o list)[i] = n})
      = IF state[n] = "listed" THEN 1 ELSE 0

\* The deferred destruction implements the life cycle: a node is created and
\* destroyed once, never listed in a dead document, none survives the document,
\* and what has become garbage is destroyed in the end.
InState(s) == {n \in Nodes : state[n] = s}
L == INSTANCE NodeLifecycle WITH
       live <- InState("live"), garbage <- InState("listed"),
       dead <- InState("destroyed"), gone <- doc = "dead"
Lifecycle == L!LSpec

\* The document dies when main is left: set_parser has broken the cycle that
\* the module, the parser and the document would form.
DocumentDies == <>(doc = "dead")
=============================================================================
