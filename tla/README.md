# A TLA+ development of interbufc

`interbufc` compiles a protocol definition language (modules, imports, structs,
classes, enums) to C++ or TypeScript. This directory holds TLA+ models of the
program, the TLC configurations that check them, and TLAPS proofs about all of
them. Every definition is translated from the source; `PROJECT.json` ("map")
says from which lines.

## 1. Inventory

`main` (`interbufc/main.cc`) runs, in one thread, one pipeline over one file:

    options -> read file -> Lexer -> token_list -> Parser -> AST + syntax_errors
                                                       |
                        -l cpp: CXXCompiler, -l ts: TypeScriptCompiler -> files

There is no concurrency, network or persistence. What is hard is error recovery
and the partly built AST it leaves behind, allocations that may fail at any of
them (the code uses no exceptions; every call returns an error that must not be
lost), destruction that is put off until another node is made, an ownership
cycle (module, parser, document) that must be broken by hand, enum values that
are counted in fixed-width integers, output files that are half written when an
error is found, two back ends that ought to agree, a scanner whose rules
overlap and whose literals are converted by functions that do not know where a
token ends, and a status that says nothing of errors. The repository has no
tests; `example/sls.ib` is its only program.

| Component | Code | State | Operations | What makes it correct |
|---|---|---|---|---|
| Parser | `ast/parser.cc`, `parser.h`, `parser/typename.cc` | `syntax_errors`, `cur_parent`, `document`, AST | `parse_program`, `parse_program_stmt`, `parse_var_field`, `parse_type_name`, `parse_id_ref`, `parse_id_name`, `lookahead_until` | terminates on every input; never runs past the end; drops no error; `member_indices` leads to members that exist; says nothing only about a program of the language, with a complete AST |
| Expression parser | `parser/expr.cc` 5-119 | none of its own | `parse_expr`: one literal (operators, 120-955, are commented out) | a value that is missing or bad is reported |
| Token cursor | `parser/misc.cc` | `idx_current_token`, `idx_prev_token`, `Token::index` | `next_token`, `peek_token` with three flags | each significant token once, in order; a peek is what the next `next_token` returns |
| AST ownership | `astnode.*`, `document.*` | reference counts, destructible list | `make_ast_node`, the node's `on_ref_zero`, the clearing loop, `~Document` | nothing owned is destroyed, nothing is destroyed twice, nothing leaks |
| Module tree | `module.*`, `class.*`, `var.*`, `import.*` | `members`, `member_indices`, `parent` | `push_member`, `index_member`, `set_parser`; `add_member`, `remove_member` and duplication have no caller | see Parser, AST ownership |
| Type names, expressions, references | `typename.*`, `expr.*`, `idref.*` | the nodes; cached `resolved_type` | constructors, duplication (never called) | - |
| Enum values, name resolution | `comp/compiler.cc` | `EnumItemNode::value` | `fill_enum`, `default_enum_value`, `inc_enum_value`, `resolve_custom_type_name` | items count up from the last explicit one, in its kind and width |
| C++ back end | `comp/cxx*` | header and source file | `compile` and its passes | declared before use; header whole before the source; exactly the compilable programs |
| TypeScript back end | `comp/ts*` | one file | `compile` | exactly the compilable programs, among them all the C++ back end compiles |
| Driver | `main.cc`, `comp/util.h` | options, `document`, locals | `main`, `match_args`, the option handlers, `dump_*` | understands the command line; owns and drops in the right order; reports what it found; leaves the output files alone when it refuses |
| Lexer | `ast/lexer.in.cpp`, `ast/lexer.*` | cursor, condition, `str_literal`, `token_list` | `lex` | the tokens are the text, side by side, then one `End`; each is what it reads as, with its value and its place; it ends |
| Build files, `basedefs.h`, example | - | - | - | - |

Interaction: `main` gives the lexer's `token_list` to the parser, which takes
hold of a document and of a module and writes into it. `set_parser` gives the
parser to the module and makes the parser let go of both. `main` prints
`syntax_errors` **and compiles what the parser left behind all the same**: the
back ends meet null types, bad values and members that are not indexed. A back
end shares only the AST with what came before.

The hazards, each at its line and with the properties that watch it, are in
`PROJECT.json` ("hazards").

## 2. The modules

| Module | Models | Depends on |
|---|---|---|
| `Parser` | parser, `push_member`, `index_member`, end of `main` | - |
| `ParserGrammar` | the language as a declarative matcher, and properties against it | `Parser` |
| `ParserMC` | programs and their one-token edits | `ParserGrammar` |
| `ParserProofs` | the safety properties of `Parser`, proved | `Parser`, TLAPS |
| `ParserGrammarProofs` | that what is accepted is a sentence, proved | `ParserGrammar`, `ParserProofs`, `DataInduction` |
| `SignificantTokens` | abstract: the stream the parser reads | - |
| `TokenCursor` | `next_token`, `peek_token` over a list with trivia | refines `SignificantTokens` |
| `TokenCursorMC`, `TokenCursorProofs` | inputs; theorems and the refinement proof | `TokenCursor` |
| `NodeLifecycle` | abstract: create, discard, destroy once | - |
| `AstLifetime` | ownership and deferred destruction | refines `NodeLifecycle` |
| `AstLifetimeProofs` | its safety properties and the refinement, proved | `AstLifetime`, `DataInduction` |
| `Backend`, `BackendMC` | both back ends and their helpers; small modules to compile | - |
| `BackendProofs` | its safety properties and how the two back ends relate, proved | `Backend`, `DataInduction` |
| `Lexer`, `LexerMC` | `lex`; short texts and edits of longer ones | - |
| `LexerProofs` | tokens, their locations and what they read as, proved | `Lexer`, `DataInduction` |
| `Driver`, `DriverMC` | `main`; short command lines and edits of whole ones | what `Lexer`, `Parser`, `Backend` may return |
| `DriverProofs` | its safety properties, proved | `Driver`, `DataInduction` |
| `DataInduction` | induction over numbers and sequences, for the proofs | - |

### Parser

An action is one straight piece of a function between two looks at a token (or
two failing allocations). The C++ stack is flat, so `pc` is the place in the
innermost function and `ctx` the caller of `parse_id_ref` or `parse_type_name`.
`pending` is the `std::optional<SyntaxError>` a function is returning,
`errors` is `syntax_errors`, `nodes` the AST in order of creation, `decl`,
`slot` and `field` the locals `class_node` (or struct, enum), `idx_member` and
`member_field`, `attached` whether the parser still holds its document. `oom`
counts the allocations that may still fail. The three declarations share their
text in the model as they do, copied, in the code. `Driver`
takes the outcomes from here (an error returned with the document still held,
errors recorded, the end of the program).

Abstracted: an identifier is its name, a literal and a built-in type are one
token kind each, a token no production mentions is `other`. An error keeps its
kind, the node it names and whether its range was ever set ("located"); the
expected-token sets and the wording do not matter to any property. The trivia
are `TokenCursor`'s. `peff`'s `HashMap::insert` and `SharedPtr` are external:
an insert on a taken key (which only an aliased import makes) is a choice
between the two outcomes.

Four things the model shows of the code, each with a run of its own (section 4):
the interrupted module clause, the null field, the spurious conflict, and the
alias that is never consumed.

### TokenCursor

A step is a turn of the loop in `next_token` or `peek_token`; the caller picks
function and flags freely. `SignificantTokens` is the promise `Parser` relies
on: significant tokens are consumed in order and once, whatever trivia lie
between and whoever asked for trivia before.

### AstLifetime

A reference count is the set of pairs (owner, owned) it counts; `holds` has
them all. `Reset` removes pairs and puts what nobody owns any more on
`destructible_ast_node_list`; `TakeList` and `DestroyHead` are the two nested
loops of `_do_clear_deferred_destructible_ast_nodes`, run before a node is
constructed and by `~Document`. The parser is reduced to what it does to
ownership: make a node, adopt it, drop a local, end with or without
`set_parser`. The compiler is reduced to the values `fill_enum` makes
(`FillEnum`), also after an interrupted parse; a value of an item counts as a type
of a field, for they are owned alike, so the model lets it fill what a syntax error
left without a type too. `NodeLifecycle` is the promise: a node is created once, may
become garbage, is destroyed once, and the document outlives all of them.

### Backend

`compile` is a fixed sequence of loops over members and fields, so it is modelled
as the sequence of its turns (`Script`), done one by one: each writes a
piece to a file, ends in an error or in `std::terminate`, or fails for a
fault. Values keep their kind. `inc_enum_value` computes `data + 1`: the 8- and
16-bit kinds are promoted and converted back and the unsigned ones wrap, so
`IncEnumValue` wraps at `Modulus[kind]`; for `I32`, the kind of every
plain decimal literal, and `I64` (`Unpromoted`) the step past the largest
value is a signed overflow, undefined in C++ (`Overflows`): `NextValues` then has a literal
of the kind with any data, and the program may also stop there. Left out: the
wording of the output and the formatting of numbers. The undefined
read when there are more classes than structs is a nondeterministic choice. The
abstract statement of what a back end accepts is `Compilable`, written without
the loops.

### Lexer

A step is a turn of the loop around the scanner: the longest match of the
current condition's rules, the first of them when several match as much, and
the action of that rule. What re2c generates is not in the repository; it is
modelled as re2c documents it, `re2c:eof` included (the buffer ends with a NUL, and the
end rule `$` is taken where nothing is left). `pc` says which part of
`lex` is next, `digits` being the loop over the digits of a numeric escape.

The alphabet is of classes of characters; operators and keywords, each a rule of
one fixed text, are represented by `*` `/` `.` `...` and `i8`, which overlap
with comments, numbers, each other and identifiers. A number's value is the part
of the text its conversion reads. What width the numbers are converted to is
left out.

What the model shows of the code: a numeric escape measures from the start
of the token and not of the escape, does not `continue`, and (256 characters
into a string) counts in a byte that never gets there; where control goes
after its action is not defined by the source, so the model ends there
(`undefined`). An escape that no rule takes ends the same way. A `1.0e8` that the
grammar cuts into `1.0` and `e8` has the value of `1.0e8`; whether `0b1` is 1 or
0 depends on the C library. The `End` token is given no location (`SIZE_MAX`), and its
own allocation, like that of a literal's value, is not checked.

### Driver

An action is a stage of `main` or one word of the command line. Each stage
ends in the next one, in a message and a status, or in the end of the
program (`killed`: `std::terminate`, an assertion, a crash).
`attached` is whether a parser is alive that holds its document: if so, leaving
`main` destroys it and its assertion fails, whatever the status would have
been. So it is when the root module cannot be allocated, after the parser was
made, unless the document's own allocation failed before: a parser that was given
no document leaves `main` with its status. Errors of the parser keep what printing
them depends on: an
`ExpectingTokens` error prints the first of an empty set, and one whose range was never
set, which takes a failed allocation, looks for the token at `SIZE_MAX`
(`main.cc:197`). Either ends the program (`DumpSyntaxError`).

Not in the model: that `g_output_file_name` is never assigned, so that all
outputs are named by their suffix only, and that `-I` collects directories
nobody reads.

## 3. Passing runs

| Run | Bounds | Checks |
|---|---|---|
| `parser_edits` | five programs using every production, and every insertion, deletion, replacement and truncation of one token; names {A, x}; no failing allocation | `TypeOK`; `EndNotConsumed`; `IndexSound`; `SlotLinked`; `SilentParseIsComplete`; `ErrorsLocated`; `InterruptedOnlyInModuleClause`; `AcceptsOnlyWellFormed`, `RejectsOnlyDuplicates` (equivalence with the grammar); `Termination` |
| `parser_oom` | the five programs and their deletions, any two allocations failing | `NoErrorDropped`, also where the allocation that records an error fails; `SilentParseIsComplete`, `AcceptsOnlyWellFormed`: a parse that reports nothing lost nothing |
| `token_cursor` | every list of up to four tokens, of every kind, before `End`; every sequence of calls; every set of flags | `ReturnedIndexed`, `PeekThenNext`, `Stream` (refinement) |
| `ast_lifetime` | seven calls of `make_ast_node` (three by `main`, four by the parser and the compiler), any of which may fail | `OwnedIsLive`, `ListedOnce`, `Lifecycle` (refinement), `DocumentDies` |
| `backend` | a 1-bit `I8`, a 2-bit `I32` (largest value 1) and a 2-bit `U32`; enums with up to four items; every pair of members; mixed modules; one fault | `DeclaredBeforeUse`, `LayoutsDeclared`, `HeaderWholeBeforeSource`, `ErrorsPrecedeSource`, `CountedFromLastExplicit`, `CompilesExactly`, `Terminates` |
| `lexer` | every text of up to three characters, and every insertion, deletion and replacement of one character in eleven texts; one failing allocation; a byte of 4 values, a size of 64 | `TokensTile`, `TokensAsWritten`, `LiteralsAsWritten`, `LocationsRight`, `Terminates` |
| `driver` | every command line of up to three words, and every edit of one word in three whole ones; up to two syntax errors; two failures | `OptionsAsWritten`, `EverythingReported`, `FailureWritesNothing` |

Why the bounds are enough. The parser is deterministic on a token list and
keeps no counter; what a statement does depends on the token in hand and on the
names already taken, and recovery restarts from the next keyword, so programs
of two declarations with one damaged token visit every pair of place and token
kind. Two failing allocations let the second one happen in the handler of the
first. A cursor call depends on the trivia before the next significant token,
and four tokens give two runs of trivia around one. Seven nodes allow a
declaration with a field and a type that is replaced by an array, one failed
construction and one node made while the list holds several. The integer kinds
are narrow so that counting past the width happens, one for each of the three ways it
goes: promoted and converted back (`I8`), undefined (`I32`), wrapping (`U32`). What
happens there depends on the kind and not on how wide it is, and
`BackendProofs` has every width. The literals of
`BackendMC` are of the kinds the lexer has rules for.

The lexer decides by the condition and the longest match from where it stands.
The longest fixed text it compares with has three characters, so short texts
have every beginning of a token; the eleven longer ones take every condition
to its end and put a second token behind it, and the edits
break each at every place. The byte that counts digits has four values, so a
string of five characters already reaches its limit. Two words of the command
line are related at most as option and argument; three words, and the edits
of seven, give options after options, repetitions and missing arguments. Two
failures let one happen after another has been survived (the document's
allocation, and a lost flush).

`TokensTile` is what `TokenCursor` and `Parser` assume of their inputs (the
list is not empty and ends with its one `End`). `LiteralsAsWritten` excepts
the two conversions named above; a value may be absent after a failed
allocation only. `LocationsRight` states what the messages rely on (line and column of
the first token), and that a lexical error's column is one more on all lines but
the first. `EverythingReported` exists because the status is 0 after syntax
and compilation errors; it excepts text that `fclose` could not flush, and is
about runs that come to their end. `OptionsAsWritten` says what each
refusal of a command line is for: its form, or that no source or no output is named.

`ErrorsLocated` is not claimed when allocations fail: an allocation that
fails in a field before its scope guard exists leaves the range unset.
`NoErrorDropped` is checked with failing allocations, where it is hardest: the
handler that records an error may fail itself.

`CountedFromLastExplicit` has items count up in their kind and wrap in its width, except
that from the first overflow of an `I32` or `I64` on only the kind is
left (`CountsTooFar`). `CompilesExactly` excepts the same case (`Overflown`: the program
may stop instead) and the modules with fewer structs than classes, whose compilation
is undefined, and says nothing when a fault was taken.

Four hazards are modelled and have no property, because nothing can be promised
once they have struck: the read past `structs` (`comp/cxx/compiler.cc:832`), what runs
after a numeric escape (`lexer.in.cpp:261`), the first token of an empty set of
expected ones (`main.cc:230`), and text that `fclose` loses unnoticed
(`comp/util.h:14`). Their outcomes are in the models (`WriteLayout`,
`undefined` in `Lexer`, `killed` and the lost flush in `Driver`), and the
properties except them by name.

Deadlock is checked in every run; the ends of the program are explicit
self-loops (`Terminating`).

Fairness. The program is one thread that runs on as long as it can, so
`WF_vars` of the next-state action (of `Compile` in `Backend` and
of `Lex` in `Lexer`, without the faults) is assumed, only for the liveness properties. `TokenCursor` has no fairness:
its caller need not call. `Driver` states no liveness: it
has no loop but the one over its arguments, and its components' own ends are
theirs to show.

## 4. Where code and intent part

Each is a run whose property TLC finds violated by what the code does.

- `parser_assert`: `module a` without the semicolon returns before
  `set_parser` (`parser.cc:597`); `~Parser`'s `assert(!document)` fails.
- `parser_rest`: when the first field of a body has no name, the loop that is to
  "parse the rest" dereferences the null `member_field` (`parser.cc:184`).
- `parser_conflict`: when a later field has no name, the previous field is
  linked again and reported as conflicting, with nothing.
- `parser_alias`: the alias of an import is looked at and never consumed, so the
  semicolon is expected in its place (`parser.cc:541`).
- `driver_usage`: the usage line of the repository's README names no source
  file, and `main.cc:367` refuses such a command line.

These are why the passing properties are worded as they are: `IndexSound`
tolerates a member linked twice, and the grammar of `AcceptsOnlyWellFormed`
has no aliases.

## 5. Proofs

TLC shows a property on small inputs; the theorems hold for every value of the
constants: every set of names, token list, source text, command line and
program, every number of failing allocations. The provers used are Z3, Zenon and
LS4. Each module proves one inductive invariant, conjunct by conjunct and action
by action, and derives the properties from it; every invariant was first
checked by TLC on the runs above.

The library's induction theorems take an operator as a parameter, which these
provers cannot instantiate. **DataInduction** states induction with a set in its
place (`S` holds 0 and what follows a member of it, so it holds every number) and
least and greatest elements of a set of numbers; what is needed of sequences,
of folds and of functions such as `PositionAt` is proved from those.

**ParserProofs.** From `NamesAssumption` (identifiers are not keywords, nor the
empty text), `InputsAssumption` (the lexer ends each list with its one `End`)
and `MaxOOMAssumption`. The invariant is

    IInv == TypeOK /\ EndNotConsumed /\ IndexSound /\ SlotLinked

No conjunct is inductive without the others. `index_member(idx_member)`
after the body keeps `IndexSound` only because `slot` is still the place of
`decl` (`SlotLinked`), which holds because nothing between grows
the root's members; the names of the nodes of the index do not change because a
node is named before it is linked; and `TypeOK` needs the token peeked to exist
(`EndNotConsumed`). Lemmas say what `push_member`, `index_member` and the
updates of a node do to a sound index; then there is one step per action.
`ErrorsKept` (`NoErrorDropped`) uses a small second invariant: an error is
pending only at a handler or at the scope guards on the way to one (`InFlight`).

`SilenceIsCompleteness` is about what the back ends take for granted.
Its invariant, `SilentInv`, says of a parse in which nothing has gone wrong
(`Silent`) that all members are good but the declaration in work
(`NothingMissing`), and what the types are by the place in the code
(`BaseTyped`, `FieldTyped`). It rests on errors being permanent (what is silent
after a step was before, by `InFlight` and `NoErrorDropped`), on a look-up before
each insertion, and, for an alias, which is inserted without one, on the alias
being refused next (`AliasLeft`). `InterruptedInTheClause` and
`ErrorsAreLocated` hold as long as no allocation has failed (`NoneFailed`),
in behaviours of any `MaxOOM`, so they say more than the run with `MaxOOM = 0`.

`RecoveryProgresses` is the safety half of `Termination`. `Rank` orders the places
in the code by what is left to do when no token is consumed, and every step,
those of the three handlers and of a failed allocation included, consumes a token
or goes to a lower rank; so `Measure`, the tokens left weighted by more than any
rank, is a number that each step decreases. Recovery resumes at a place of higher
rank than the handler's only with a token consumed, which is the point a change
to the code would break first.

**ParserGrammarProofs.** `AcceptedIsWellFormed`: what the parser accepts without an
error is a sentence of the grammar and has no duplicates. The grammar is a matcher
over sets of positions, so the invariant `InGrammar` says of each place in the
code in which of these sets `cur` is: behind the name of a field of a struct, say,
`cur` is where a `Names` token may end that starts where a field may start. A
step consumes a token and moves from one set to the next; what makes the loops
of the parser match the repetitions of the grammar is that `Star`, an iteration of
`Len(tokens)` rounds, is closed under its body. That is so because each production
consumes something and reaches what it reaches from one position alone (`Moves`):
a position that is reached in the last round would need as many tokens as there are
(`ChainClosed`). `KindsAgree` keeps the loops of enums and structs
apart, `AliasLeft` excuses the import with an alias, which is refused one step
later. That there are no duplicates follows from `SilentInv`: all members are
good, so two of the same name have one index entry.

`RejectedIsDuplicate` is the converse: on a sentence of the grammar the first thing
the parser reports, if no allocation fails, is a conflict, and there are two
definitions of that name. `InGrammar` looks back and cannot show it; its invariant,
`RejectInv`, looks ahead. `Ahead` says of each place in the code from which
positions the rest of a sentence can be completed there: behind the name of a
field a colon, a type, and what may follow a field of a body that closes. A
repetition is the hard case again: `Leads(G, R)` holds the positions from which
any number of `G` can lead to `R`, stated as "whatever holds the position and is
closed under `G` meets `R`", so that it can be unfolded by one round wherever the
loop of the parser makes one, without a count. From `Ahead` no test of a token
can fail; what may fail is the look-up of a name. The second part says that it then
finds another member: a node in work is not linked anywhere and has no
namesake there yet (`FreshField`, `FreshDecl`), and an entry that is found leads to a
member of that name (`IndexSound`). The two are a `Clash` from then on, since the
members and the names of nodes are never taken back (`NodesGrow`), although recovery
goes on and may report more. An
import with an alias is not a sentence of `Program`: the code refuses it, and
`ProgramWithAliases` and the run `parser_alias` are about that.

**TokenCursorProofs.** From `ListsAssumption` alone: the cursor's invariant
(what has been walked is trivia, what has been returned is indexed, what the
caller holds from a peek is the first kept token), and from it
`CursorImplementsStream`: the initial state maps to an initial state of
`SignificantTokens` and every step to a step or a stutter.

**AstLifetimeProofs.** From `MaxNodesAssumption` (the calls of `main` are among the
nodes counted). `OwnedIsLive` and `ListedOnce` are not inductive: what
`Reset` puts on the list must not be there already, and what is destroyed must
own nothing that lives on. The invariant adds that nothing lives without an
owner (`LiveIsOwned`), that owners exist (`OwnersExist`), that the list
and the detached batch share nothing (`WaitingOnce`), that nodes to come are
new (`Fresh`), what may own what (`Shape`: the order in which this is acyclic,
but for module and parser), and what each stage of `main` holds
(`ModLocal`, `Constructing`, `Roots`). `ImplementsLifecycle` shows initial states
and steps to be those of `NodeLifecycle`, fairness apart.

**LexerProofs.** From `SourcesAssumption` (a text is
in memory, so its length is below `SIZE_MAX`), `ModuliAssumption` (`uint_fast8_t` has
more values than two) and `MaxOOMAssumption`. `IInv == Typed /\ Stage /\
TokensTile /\ Begun /\ ErrorPlace /\ Located`: `Stage` says where the scanner
stands in its token for each condition, from which every token has at least one
character and begins where the last one ended; `Begun` and `ErrorPlace` say
that nothing but a newline begins with one, which is why the column of an error
is off by one on all lines but the first and never more. Its second
part adds `TextInv == Written /\ TokensAsWritten /\ Valued /\ LiteralsAsWritten`:
what the scanner has read of a token is what a reader of its text alone would
have read, so that the longest match of a rule, the end of a comment or of a
string, and the value of a literal do not depend on what was before or comes after
(but for the two conversions the property excepts). `ScanningProgresses` is the
safety half of `Terminates`: `Left` bounds the turns that consume nothing, and
every turn consumes a character or lowers it, but for the loop over the digits of an
escape whose distance from the quote a byte cannot count (`Stuck`).

**DriverProofs.** From `ArgListsAssumption` and `BoundsAssumption`.
`ArgsInv` says that the options read so far are those of the arguments before the
cursor, for command lines of any length; `PrintedInv` and `FilesInv`
tie what has been printed and written to the stage `main` is in.

**BackendProofs.** From `IntKindsAssumption`, `ModulusAssumption`,
`MaxFaultsAssumption` and `ProgramsAssumption` (what the parser may leave behind).
The invariant follows the script: what remains to be done is its end
(`Progress`), what is done was accepted by the functions that look at it
(`AllPassed`), is in its file (`AllRecorded`), and what is in a file was done
(`PiecesDone`), once where it must be (`HeaderOnce`); an item that does not
hold what the program gives it was counted (`Filled`), one further than its
predecessor from the last explicit value, and past an overflow if the predecessor is
(`CountsUp`, `OverflowCounts`), and the source file is
written by the last part of the C++ back end only (`SourceLate`). Facts about
the script itself are proved of it as a sequence: it is made of a declaring, a
defining and a source part, an item is filled before it is written and after its
predecessor, and no job whose text must be unique is in it twice (`Well`).
`CompilesWhatItShould` then compares the end of `compile` with `Compilable`,
written without loops, in both directions, but for enums that overflow
an `I32` or `I64`; and from `Compilable` alone
it follows that C++ asks for more than TypeScript.

| Theorem | Establishes |
|---|---|
| `ParserProofs`: `Invariance`, `TypeCorrect`, `NeverPastEnd`, `IndexCorrect`, `SlotCorrect` | `IInv` and its four conjuncts |
| `ErrorsKept` | `NoErrorDropped` |
| `SilenceIsCompleteness` | `SilentParseIsComplete`, with any allocations failing |
| `InterruptedInTheClause`, `ErrorsAreLocated` | `InterruptedOnlyInModuleClause`, `ErrorsLocated` while no allocation has failed |
| `RecoveryProgresses` | a measure in the numbers that every step of the parser decreases |
| `ParserGrammarProofs`: `AcceptedIsWellFormed` | `AcceptsOnlyWellFormed`, with any allocations failing |
| `RejectedIsDuplicate` | `RejectsOnlyDuplicates`; with the above, the parser decides the grammar |
| `TokenCursorProofs`: `CursorInvariance`, `CursorTypeCorrect`, `IndexAssigned`, `PeekAgreesWithNext` | the invariants of `TokenCursor` and `PeekThenNext` |
| `CursorImplementsStream` | `TokenCursor` implements `SignificantTokens` |
| `AstLifetimeProofs`: `Invariance`, `TypeCorrect`, `NothingDangles`, `OneDestructorCall` | `IInv`, `TypeOK`, `OwnedIsLive`, `ListedOnce` |
| `ImplementsLifecycle` | `AstLifetime` implements the safety part of `NodeLifecycle` |
| `LexerProofs`: `Invariance`, `TypeCorrect`, `TokensAreTheText`, `LocationsAreRight` | `IInv`, `TypeOK`, `TokensTile`, `LocationsRight` |
| `TextInvariance`, `TokensReadAsWritten`, `LiteralsReadAsWritten` | `TextInv`, `TokensAsWritten`, `LiteralsAsWritten` |
| `ScanningProgresses` | a character or a smaller bound on the turns for every turn of the scanner that is not stuck |
| `DriverProofs`: `Invariance`, `TypeCorrect`, `CommandLineRead`, `NothingUnreported`, `FailureIsClean` | `IInv`, `TypeOK`, `OptionsAsWritten`, `EverythingReported`, `FailureWritesNothing` |
| `BackendProofs`: `Invariance`, `TypeCorrect`, `ItemsCountUp` | `IInv`, `TypeOK`, `CountedFromLastExplicit` |
| `DeclaredFirst`, `LayoutsExist`, `HeaderFirst`, `ErrorsFirst` | `DeclaredBeforeUse`, `LayoutsDeclared`, `HeaderWholeBeforeSource`, `ErrorsPrecedeSource` |
| `CompilesWhatItShould` | `CompilesExactly` |
| `CxxCompilableIsTsCompilable` | what is fit for C++ is fit for TypeScript |

Every invariant the passing runs check is proved. Only model-checked is liveness
(`Termination`, `Terminates`, `DocumentDies` and the fairness of `Lifecycle`),
which is beyond this prover: the progress theorems show that the parser and the
scanner cannot take steps for ever; that they can take one until they are done is a
matter of ENABLED, and TLC checks it.

## 6. What is not modelled

The functions nobody calls: `add_member`, `remove_member`, duplication of
nodes (most of `typename.cc`), `parse_id_name`, `lookahead_until`, `push_error`,
`push_warning`, and the commented-out operators of `parse_expr`; for these there
is no caller whose use a model could follow. The wording of messages and
outputs, the formatting of numbers (including the fixed array a large float may
not fit), and the behaviour of the generated programs. The scanner re2c makes
and `peff`, of which the models assume what they document or what their names
say. Widths of numeric literals.

## 7. Plan

1. `Parser` and its grammar, runs and proofs - done. It comes first: most state, most
   error paths, and everything after it reads its AST.
2. `TokenCursor` refining `SignificantTokens`, with proofs - done.
3. `AstLifetime` refining `NodeLifecycle` - done.
4. `Backend` - done.
5. `Lexer` - done. It establishes what 1 and 2 assume of their inputs.
6. `Driver` - done. It takes what 1, 4 and 5 may return.
7. Proofs of the safety properties of all of them - done (section 5).
8. Proof that what the parser accepts is a sentence: `AcceptsOnlyWellFormed` - done.
9. Proof that it accepts every sentence but for duplicates:
   `RejectsOnlyDuplicates` - done.
10. Progress of the parser and of the scanner, the part of `Termination` and
   `Terminates` that can be proved - done.

## 8. Running it

    tlc -workers 2 -config ParserEdits.cfg ParserMC.tla
    tlapm ParserProofs.tla

`PROJECT.json` pairs each configuration with its module. Definitions whose
comment begins "Mutant:" are deliberately wrong variants of the definition they stand
before; each property of a passing run fails when one of them takes its place.
