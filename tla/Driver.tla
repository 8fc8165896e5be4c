------------------------------- MODULE Driver --------------------------------
(***************************************************************************)
(* main (main.cc): the command line is read, then the source file, and the *)
(* lexer, the parser and one of the back ends run in turn; what they       *)
(* report is printed, and main returns a status.                           *)
(*                                                                         *)
(* The other components are represented by what they may return: the lexer *)
(* by an error or none, the parser by the error it returns and those it    *)
(* has recorded, a back end by an error, none, or the end of the program,  *)
(* and by what it leaves of the output files.                              *)
(***************************************************************************)
EXTENDS Naturals, Sequences, FiniteSets

CONSTANTS
  ArgLists,      \* the command lines: argv without the name of the program
  MaxErrors,     \* bound on the syntax errors the parser records
  MaxFaults      \* bound on the failing allocations and file operations

Options == {"-l", "-I", "-o"}
Languages == {"cpp", "ts"}
NoName == ""        \* what the three names are until they are set

ASSUME ArgListsAssumption == \A a \in ArgLists : a \in Seq(STRING)
ASSUME BoundsAssumption == MaxErrors \in Nat /\ MaxFaults \in Nat

VARIABLES
  argv,        \* the command line
  i,           \* the argument that is next
  language,    \* g_language, empty until it is set; so are
  source,      \* g_source_file_name and
  output,      \* g_output_directory_path
  document,    \* document: FALSE when its allocation has failed
  errors,      \* the syntax errors: the one returned, then syntax_errors
  dumped,      \* how many of them dump_syntax_error has printed
  attached,    \* a parser exists and holds the document
  pc,          \* what main does next
  printed,     \* the messages on stderr
  files,       \* the output files: "untouched", "partial" or "whole"
  exit,        \* "none", what main returned, or "killed"
  lost,        \* an output file could not be flushed when it was closed
  faults       \* failures that may still happen

args == << argv, i, language, source, output >>
parsing == << document, errors, dumped, attached >>
vars == << args, parsing, pc, printed, files, exit, lost, faults >>

Init ==
  /\ argv \in ArgLists /\ i = 1
  /\ language = NoName /\ source = NoName /\ output = NoName
  /\ document = FALSE /\ errors = << >> /\ dumped = 0 /\ attached = FALSE
  /\ pc = "options" /\ printed = << >> /\ files = "untouched" /\ exit = "none"
  /\ lost = FALSE /\ faults = MaxFaults

\* main is at p and goes on to q, with nothing to print.
Pass(p, q) ==
  /\ pc = p /\ pc' = q
  /\ UNCHANGED << printed, files, exit, lost, faults >>

\* A parser that goes out of scope with its document fails an assertion.
Status(code) == IF attached THEN "killed" ELSE code

\* main prints a message and returns.
Refuse(p, message, code) ==
  /\ pc = p /\ pc' = "done"
  /\ printed' = Append(printed, message) /\ exit' = Status(code)
  /\ UNCHANGED << args, parsing, files, lost >>
Reject(p, message, code) == Refuse(p, message, code) /\ UNCHANGED faults

\* Something fails at p, and main returns.
Fail(p, message, code) ==
  faults > 0 /\ faults' = faults - 1 /\ Refuse(p, message, code)

Killed(p) ==
  /\ pc = p /\ pc' = "done" /\ exit' = "killed"
  /\ UNCHANGED << args, parsing, printed, lost, faults >>

-----------------------------------------------------------------------------
(* The command line *)

BuildOptionMap ==
  \/ Pass("options", "args") /\ UNCHANGED << args, parsing >>
  \/ Fail("options", "out_of_memory", "ENOMEM")

Arg == argv[i]
Reading == pc = "args" /\ i <= Len(argv)
Took(n) ==
  /\ i' = i + n
  /\ UNCHANGED << argv, parsing, pc, printed, files, exit, lost, faults >>

\* Mutant: the argument is skipped whether it is there or not.
NoArgumentSkips ==
  /\ Reading /\ Arg \in Options /\ i = Len(argv)
  /\ Took(2) /\ UNCHANGED << language, source, output >>

NoArgument ==
  /\ Reading /\ Arg \in Options /\ i = Len(argv)
  /\ Reject("args", "missing_argument", "EINVAL")

\* A language that has been set to nothing may be set again.
LanguageOption ==
  /\ Reading /\ Arg = "-l" /\ i < Len(argv)
  /\ \/ language # NoName /\ Reject("args", "duplicate", "EINVAL")
     \/ language = NoName /\ language' = argv[i + 1] /\ Took(2) /\ UNCHANGED << source, output >>

IncludeOption ==
  /\ Reading /\ Arg = "-I" /\ i < Len(argv)
  /\ \/ Took(2) /\ UNCHANGED << language, source, output >>
     \/ Fail("args", "out_of_memory", "ENOMEM")

\* Mutant: the argument of an option is looked at again.
OutputOptionAgain ==
  /\ Reading /\ Arg = "-o" /\ i < Len(argv)
  /\ output' = argv[i + 1] /\ Took(1) /\ UNCHANGED << language, source >>

OutputOption ==
  /\ Reading /\ Arg = "-o" /\ i < Len(argv)
  /\ output' = argv[i + 1] /\ Took(2) /\ UNCHANGED << language, source >>

\* Whatever is no option names the source file.
FallbackOption ==
  /\ Reading /\ Arg \notin Options
  /\ \/ source # NoName /\ Reject("args", "duplicate", "EINVAL")
     \/ source = NoName /\ source' = Arg /\ Took(1) /\ UNCHANGED << language, output >>

\* After the loop, the two names the run cannot do without.
CheckNames ==
  /\ i > Len(argv)
  /\ \/ source = NoName /\ Reject("args", "missing_source", "EINVAL")
     \/ source # NoName /\ output = NoName /\ Reject("args", "missing_output", "EINVAL")
     \/ source # NoName /\ output # NoName /\ Pass("args", "file") /\ UNCHANGED << args, parsing >>

-----------------------------------------------------------------------------
(* The source file, and the document *)

\* The file may be missing or empty; the buffer or the read may fail.  The
\* allocation of the document is not checked.
ReadSource ==
  \/ Reject("file", "cannot_open", "EIO")
  \/ Reject("file", "no_size", "EIO")
  \/ Fail("file", "no_buffer", "ENOMEM")
  \/ Fail("file", "cannot_read", "EIO")
  \/ Pass("file", "language") /\ document' = TRUE /\ UNCHANGED << args, errors, dumped, attached >>
  \/ /\ faults > 0 /\ faults' = faults - 1
     /\ pc = "file" /\ pc' = "language"
     /\ UNCHANGED << args, parsing, printed, files, exit, lost >>

CheckLanguage ==
  \/ language = NoName /\ Reject("language", "missing_language", "EINVAL")
  \/ language # NoName /\ Pass("language", "lex") /\ UNCHANGED << args, parsing >>

\* Mutant: a lexical error is not printed.
LexUnreported ==
  \/ Pass("lex", "make") /\ UNCHANGED << args, parsing >>
  \/ /\ pc = "lex" /\ pc' = "done" /\ exit' = "-1"
     /\ UNCHANGED << args, parsing, printed, files, lost, faults >>

\* lex may stop the program (Lexer's "undefined" and "crashed").
Lex ==
  \/ Pass("lex", "make") /\ UNCHANGED << args, parsing >>
  \/ Reject("lex", "lexical_error", "-1")
  \/ Killed("lex") /\ UNCHANGED files

\* Without a document there is nothing for the parser to hold.
MakeParser ==
  \/ Pass("make", "modules") /\ attached' = document /\ UNCHANGED << args, document, errors, dumped >>
  \/ Fail("make", "out_of_memory", "ENOMEM")

\* The root module and mod; a node of no document fails an assertion.
MakeModules ==
  \/ document /\ Pass("modules", "parse") /\ UNCHANGED << args, parsing >>
  \/ ~document /\ Killed("modules") /\ UNCHANGED files
  \/ Fail("modules", "out_of_memory", "ENOMEM")

-----------------------------------------------------------------------------
(* Parsing and compiling *)

\* Expecting names one token, tokens a set of them that is always empty.  The
\* range of a conflict is set last, and never when an allocation fails before.
ErrorKinds == {"plain", "expecting_tokens", "unlocated"}

\* The error parse_program returns is printed before those it has recorded.
\* Unless there is one, set_parser has detached the parser.
ParseProgram ==
  /\ pc = "parse" /\ pc' = "report"
  /\ \E n \in 0 .. MaxErrors : errors' \in [1 .. n -> ErrorKinds]
  /\ \/ attached' = FALSE
     \/ errors' # << >> /\ errors'[1] = "plain" /\ UNCHANGED attached
  /\ \/ (\A k \in DOMAIN errors' : errors'[k] # "unlocated") /\ UNCHANGED faults
     \/ faults > 0 /\ faults' = faults - 1
  /\ UNCHANGED << args, document, dumped, printed, files, exit, lost >>

\* parse_program may stop the program (Parser's "crashed").
ParseKilled == Killed("parse") /\ UNCHANGED files

Dumping == pc = "report" /\ dumped < Len(errors)
Dump ==
  /\ dumped' = dumped + 1
  /\ UNCHANGED << args, document, errors, attached, pc, files, exit, lost, faults >>

\* Mutant: only the error parse_program returns is printed.
DumpSyntaxErrorReturned ==
  /\ Dumping /\ Dump
  /\ printed' = IF attached THEN Append(printed, "syntax_error") ELSE printed

\* dump_syntax_error; the first member of the empty set is read to be printed,
\* and the token at an index the list does not have.
DumpSyntaxError ==
  /\ Dumping
  /\ \/ Dump /\ printed' = Append(printed, "syntax_error")
     \/ errors[dumped + 1] \in {"expecting_tokens", "unlocated"} /\ Killed("report") /\ UNCHANGED files

ChooseCompiler ==
  /\ dumped = Len(errors)
  /\ \/ language \in Languages /\ Pass("report", "compile") /\ UNCHANGED << args, parsing >>
     \/ language \notin Languages /\ Reject("report", "unrecognized_language", "EINVAL")

\* compile returns an error, from before it opened the files or from after.
CompileError ==
  /\ pc = "compile" /\ pc' = "return"
  /\ files' \in {"untouched", "partial"}
  /\ printed' = Append(printed, "compilation_error")
  /\ UNCHANGED << args, parsing, exit, lost, faults >>

\* compile returns.  File::close does not look at what fclose returns: text
\* that is still buffered may be lost without a word.
Compiled ==
  /\ pc = "compile" /\ pc' = "return"
  /\ \/ files' = "whole" /\ UNCHANGED << lost, faults >>
     \/ files' = "partial" /\ lost' = TRUE /\ faults > 0 /\ faults' = faults - 1
  /\ UNCHANGED << args, parsing, printed, exit >>

\* compile stops the program.
CompileKilled == Killed("compile") /\ files' = "partial"

Compile == CompileError \/ Compiled \/ CompileKilled

Return ==
  /\ pc = "return" /\ pc' = "done" /\ exit' = Status("0")
  /\ UNCHANGED << args, parsing, printed, files, lost, faults >>

-----------------------------------------------------------------------------
Terminating == pc = "done" /\ UNCHANGED vars

MatchArgs == NoArgument \/ LanguageOption \/ IncludeOption \/ OutputOption \/ FallbackOption

Next ==
  \/ BuildOptionMap \/ MatchArgs \/ CheckNames
  \/ ReadSource \/ CheckLanguage \/ Lex \/ MakeParser \/ MakeModules
  \/ ParseProgram \/ ParseKilled \/ DumpSyntaxError \/ ChooseCompiler \/ Compile \/ Return
  \/ Terminating

Spec == Init /\ [][Next]_vars

-----------------------------------------------------------------------------
(* Properties. *)

Messages == { "out_of_memory", "missing_argument", "duplicate", "missing_source",
              "missing_output", "cannot_open", "no_size", "no_buffer", "cannot_read",
              "missing_language", "lexical_error", "syntax_error",
              "unrecognized_language", "compilation_error" }

\* The types of the variables; main has returned when it is done, and only then.
TypeOK ==
  /\ argv \in Seq(STRING) /\ i \in 1 .. Len(argv) + 1
  /\ {language, source, output} \subseteq {argv[p] : p \in DOMAIN argv} \cup {NoName}
  /\ {document, attached, lost} \subseteq BOOLEAN
  /\ errors \in Seq(ErrorKinds) /\ dumped \in 0 .. Len(errors)
  /\ printed \in Seq(Messages)
  /\ pc \in { "options", "args", "file", "language", "lex", "make", "modules", "parse",
              "report", "compile", "return", "done" }
  /\ files \in {"untouched", "partial", "whole"}
  /\ exit \in {"none", "0", "-1", "EINVAL", "EIO", "ENOMEM", "killed"}
  /\ pc = "done" <=> exit # "none"
  /\ faults \in 0 .. MaxFaults

(* The command line, read without a loop. *)

\* Position p is an option, which its successor is the argument of.
IsOption ==
  LET O[p \in 0 .. Len(argv)] == p > 0 /\ argv[p] \in Options /\ ~O[p - 1] IN O
ArgumentsOf(option) == {p \in 2 .. Len(argv) : IsOption[p - 1] /\ argv[p - 1] = option}
Names == {p \in DOMAIN argv : ~IsOption[p] /\ ~IsOption[p - 1]}
LastOf(places) ==
  IF places = {} THEN NoName
  ELSE argv[CHOOSE p \in places : \A q \in places : q <= p]
AllEmptyButLast(places) == \A p, q \in places : p < q => argv[p] = NoName

WellFormed ==
  /\ ~IsOption[Len(argv)]
  /\ AllEmptyButLast(ArgumentsOf("-l")) /\ AllEmptyButLast(Names)

\* Each word is an option, the argument of the option before it, even when it
\* looks like one itself, or the source file, in whatever order they come.  A
\* command line is refused when its last option lacks its argument, when it
\* names two languages or two source files, or when it names no source file or
\* no output directory, and for no other reason.
OptionsAsWritten ==
  /\ pc \notin {"options", "args", "done"} =>
       /\ WellFormed
       /\ language = LastOf(ArgumentsOf("-l"))
       /\ output = LastOf(ArgumentsOf("-o"))
       /\ source = LastOf(Names)
  /\ printed \in {<< "missing_argument" >>, << "duplicate" >>} => ~WellFormed
  /\ printed = << "missing_source" >> => LastOf(Names) = NoName
  /\ printed = << "missing_output" >> =>
       LastOf(Names) # NoName /\ LastOf(ArgumentsOf("-o")) = NoName

\* main returns 0 whatever goes wrong in the parser and in the back end, so it
\* is what is printed that tells: each syntax error has its message, and output
\* files that are not whole have theirs, unless they could not be flushed.
EverythingReported ==
  exit = "0" =>
    /\ Cardinality({k \in DOMAIN printed : printed[k] = "syntax_error"}) = Len(errors)
    /\ files # "whole" => lost \/ printed[Len(printed)] = "compilation_error"

\* A status other than 0 comes with a message, and with output files as they
\* were: what a build made before is still there.
FailureWritesNothing ==
  exit \notin {"none", "0", "killed"} => printed # << >> /\ files = "untouched"

\* "interbufc -l <language for output> -o <path to contain the output files>"
\* (README.md:16).
UsageSuffices ==
  \A l \in Languages :
    argv = << "-l", l, "-o", "out" >> => exit # "EINVAL"
=============================================================================
