----------------------------- MODULE DriverProofs -----------------------------
(***************************************************************************)
(* Proofs about main: for every command line and every bound on errors and *)
(* failures, the command line is read as it is written, every error has    *)
(* its message, and a failure leaves the output files alone.               *)
(***************************************************************************)
EXTENDS Driver, DataInduction

-----------------------------------------------------------------------------
(* The command line, read without a loop. *)

Recursion(o, n) ==
  /\ o \in [0 .. n -> BOOLEAN]
  /\ \A p \in 0 .. n : o[p] = (p > 0 /\ argv[p] \in Options /\ ~o[p - 1])

\* IsOption is the function its recursive definition describes.
LEMMA IsOptionRecursion ==
  ASSUME argv \in Seq(STRING)
  PROVE  Recursion(IsOption, Len(argv))
<1>1. Len(argv) \in Nat
  OBVIOUS
<1> DEFINE S == {n \in Nat : \E o : Recursion(o, n)}
<1>2. 0 \in S
  <2> DEFINE o == [p \in 0 .. 0 |-> FALSE]
  <2>1. o \in [0 .. 0 -> BOOLEAN]
    OBVIOUS
  <2>2. ASSUME NEW p \in 0 .. 0
        PROVE  o[p] = (p > 0 /\ argv[p] \in Options /\ ~o[p - 1])
    <3>1. ~o[p] /\ ~(p > 0)
      OBVIOUS
    <3> QED
      BY <3>1
  <2>3. Recursion(o, 0)
    BY <2>1, <2>2 DEF Recursion
  <2> QED
    BY <2>3
<1>3. ASSUME NEW n \in Nat, n \in S
      PROVE  n + 1 \in S
  <2>1. PICK o : Recursion(o, n)
    BY <1>3
  <2> DEFINE o2 == [p \in 0 .. n + 1 |-> IF p <= n THEN o[p] ELSE argv[p] \in Options /\ ~o[n]]
  <2>2. o2 \in [0 .. n + 1 -> BOOLEAN]
    BY <2>1 DEF Recursion
  <2>3. ASSUME NEW p \in 0 .. n + 1
        PROVE  o2[p] = (p > 0 /\ argv[p] \in Options /\ ~o2[p - 1])
    <3>1. CASE p = n + 1
      <4>1. o2[p] = (argv[p] \in Options /\ ~o[n])
        BY <3>1
      <4>2. o2[p - 1] = o[n] /\ p > 0
        BY <3>1
      <4> QED
        BY <4>1, <4>2
    <3>2. CASE p \in 0 .. n
      <4>1. o2[p] = o[p] /\ (p > 0 => o2[p - 1] = o[p - 1])
        BY <3>2
      <4> QED
        BY <4>1, <3>2, <2>1 DEF Recursion
    <3> QED
      BY <3>1, <3>2
  <2>4. Recursion(o2, n + 1)
    BY <2>2, <2>3 DEF Recursion
  <2> QED
    BY <2>4
<1>4. \A n \in Nat : n \in S
  <2> HIDE DEF S
  <2> QED
    BY <1>2, <1>3, NaturalsByInduction, Zenon
<1>5. PICK o : Recursion(o, Len(argv))
  BY <1>1, <1>4
<1>6. o = [p \in 0 .. Len(argv) |-> p > 0 /\ argv[p] \in Options /\ ~o[p - 1]]
  BY <1>5 DEF Recursion
<1>7. IsOption = [p \in 0 .. Len(argv) |-> p > 0 /\ argv[p] \in Options /\ ~IsOption[p - 1]]
  BY <1>6, Zenon DEF IsOption
<1> QED
  BY <1>7, <1>1 DEF Recursion

\* The last of some places, of which the last is p, has what is written at p.
LEMMA LastAdded ==
  ASSUME NEW n \in Nat, NEW places \in SUBSET (1 .. n), NEW p \in Nat, p > n
  PROVE  LastOf(places \cup {p}) = argv[p]
<1> DEFINE m == CHOOSE x \in places \cup {p} : \A q \in places \cup {p} : q <= x
<1>1. \A q \in places \cup {p} : q <= p
  OBVIOUS
<1>2. m \in places \cup {p} /\ \A q \in places \cup {p} : q <= m
  BY <1>1
<1>3. m = p
  <2> HIDE DEF m
  <2>1. p <= m /\ m <= p /\ m \in Nat
    BY <1>1, <1>2
  <2> QED
    BY <2>1
<1> QED
  BY <1>3 DEF LastOf

\* If the last of some places has something, one of them has.
LEMMA LastIsWritten ==
  ASSUME NEW n \in Nat, NEW places \in SUBSET (1 .. n), LastOf(places) # NoName
  PROVE  \E p \in places : argv[p] # NoName
<1>1. places # {}
  BY DEF LastOf
<1>2. \E p \in places : \A q \in places : q <= p
  <2>1. places \subseteq 0 .. n
    OBVIOUS
  <2> QED
    BY <1>1, <2>1, GreatestNatural
<1> DEFINE m == CHOOSE x \in places : \A q \in places : q <= x
<1>3. m \in places
  BY <1>2
<1> QED
  BY <1>1, <1>3 DEF LastOf

-----------------------------------------------------------------------------
(* The inductive invariant. *)

\* The first n positions of the command line have been read.
Upto(n, places) == {p \in places : p <= n}

\* What has been read of the command line, whose last word was no option.
ReadSoFar(n) ==
  /\ ~IsOption[n]
  /\ language = LastOf(Upto(n, ArgumentsOf("-l")))
  /\ output = LastOf(Upto(n, ArgumentsOf("-o")))
  /\ source = LastOf(Upto(n, Names))
  /\ AllEmptyButLast(Upto(n, ArgumentsOf("-l")))
  /\ AllEmptyButLast(Upto(n, Names))

Before == {"options", "args", "file", "language", "lex", "make", "modules", "parse"}

\* How far the command line has been read; main starts at its first word.
ArgsInv ==
  /\ pc = "options" => i = 1 /\ language = NoName /\ output = NoName /\ source = NoName
  /\ pc = "args" => ReadSoFar(i - 1)
  /\ OptionsAsWritten

\* What has been printed: nothing before the parser, then only syntax errors.
PrintedInv ==
  /\ pc \in Before => printed = << >> /\ errors = << >> /\ dumped = 0
  /\ pc \in {"report", "compile"} =>
       Len(printed) = dumped /\ \A k \in 1 .. dumped : printed[k] = "syntax_error"
  /\ pc \in {"compile", "return"} => dumped = Len(errors)
  /\ pc = "return" \/ exit = "0" =>
       /\ dumped = Len(errors)
       /\ \A k \in 1 .. dumped : printed[k] = "syntax_error"
       /\ \/ Len(printed) = dumped /\ (files # "whole" => lost)
          \/ Len(printed) = dumped + 1 /\ printed[dumped + 1] = "compilation_error"

\* The output files are as they were until a back end runs.
FilesInv ==
  /\ pc \notin {"return", "done"} => files = "untouched"
  /\ FailureWritesNothing

IInv == TypeOK /\ ArgsInv /\ PrintedInv /\ FilesInv

-----------------------------------------------------------------------------
(* The types. *)

Codes == {"-1", "EINVAL", "EIO", "ENOMEM"}
Pcs == Before \cup {"report", "compile", "return"}

\* main prints a message and returns.
LEMMA RefuseTypes ==
  ASSUME TypeOK, NEW p, NEW message \in Messages, NEW code \in Codes,
         Refuse(p, message, code), faults' \in 0 .. MaxFaults
  PROVE  TypeOK'
<1>1. printed' \in Seq(Messages)
  BY DEF TypeOK, Refuse
<1>2. exit' \in Codes \cup {"killed"} /\ pc' = "done"
  BY DEF Refuse, Status
<1>3. UNCHANGED << argv, i, language, source, output, document, errors, dumped, attached, files, lost >>
  BY DEF Refuse, args, parsing
<1> QED
  BY <1>1, <1>2, <1>3 DEF TypeOK, Codes

\* main prints a message and returns, whether something has failed or not.
LEMMA RejectTypes ==
  ASSUME TypeOK, NEW p, NEW message \in Messages, NEW code \in Codes,
         Reject(p, message, code) \/ Fail(p, message, code)
  PROVE  TypeOK'
<1>1. Refuse(p, message, code)
  BY DEF Reject, Fail
<1>2. faults' \in 0 .. MaxFaults
  BY BoundsAssumption DEF Reject, Fail, TypeOK
<1> QED
  BY <1>1, <1>2, RefuseTypes

\* Something stops the program.
LEMMA KilledTypes ==
  ASSUME TypeOK, NEW p, Killed(p), files' \in {"untouched", "partial", "whole"}
  PROVE  TypeOK'
BY DEF Killed, TypeOK, args, parsing

\* main goes on, with what the parser has left of the document and the errors.
LEMMA PassTypes ==
  ASSUME TypeOK, NEW p \in Pcs, NEW q \in Pcs, Pass(p, q), UNCHANGED args,
         {document', attached'} \subseteq BOOLEAN, errors' \in Seq(ErrorKinds), dumped' \in 0 .. Len(errors')
  PROVE  TypeOK'
<1>1. p # "done" /\ q # "done"
  BY DEF Pcs, Before
<1>2. exit = "none" /\ pc' = q /\ UNCHANGED << printed, files, exit, lost, faults >>
  BY <1>1 DEF Pass, TypeOK
<1>3. UNCHANGED << argv, i, language, source, output >>
  BY DEF args
<1> QED
  BY <1>1, <1>2, <1>3 DEF TypeOK, Pcs, Before

\* main goes on, and leaves the document and the errors alone.
LEMMA PassOnTypes ==
  ASSUME TypeOK, NEW p \in Pcs, NEW q \in Pcs, Pass(p, q), UNCHANGED args, UNCHANGED parsing
  PROVE  TypeOK'
<1>1. UNCHANGED << document, errors, dumped, attached >>
  BY DEF parsing
<1>2. {document, attached} \subseteq BOOLEAN /\ errors \in Seq(ErrorKinds) /\ dumped \in 0 .. Len(errors)
  BY DEF TypeOK
<1> QED
  BY <1>1, <1>2, PassTypes

\* Some words have been read.
LEMMA TookTypes ==
  ASSUME TypeOK, NEW n \in {1, 2}, Took(n), i + n <= Len(argv) + 1,
         {language', source', output'} \subseteq {argv[p] : p \in DOMAIN argv} \cup {NoName}
  PROVE  TypeOK'
<1>1. i' = i + n /\ i' \in 1 .. Len(argv) + 1
  BY DEF Took, TypeOK
<1>2. UNCHANGED << argv, document, errors, dumped, attached, pc, printed, files, exit, lost, faults >>
  BY DEF Took, parsing
<1> QED
  BY <1>1, <1>2 DEF TypeOK

\* The strings of the model are messages, codes and places in main.
LEMMA Literals ==
  /\ {"out_of_memory", "missing_argument", "duplicate", "missing_source"} \subseteq Messages
  /\ {"missing_output", "cannot_open", "no_size", "no_buffer", "cannot_read"} \subseteq Messages
  /\ {"missing_language", "lexical_error", "syntax_error", "unrecognized_language",
      "compilation_error"} \subseteq Messages
  /\ {"options", "args", "file", "language", "lex", "make"} \subseteq Pcs
  /\ {"modules", "parse", "report", "compile", "return"} \subseteq Pcs
  /\ "-1" \in Codes /\ "EINVAL" \in Codes /\ "EIO" \in Codes /\ "ENOMEM" \in Codes
BY DEF Messages, Codes, Pcs, Before

\* Every step that reads the command line keeps the types of the variables.
LEMMA MatchArgsTypes == TypeOK /\ MatchArgs => TypeOK'
<1> SUFFICES ASSUME TypeOK, MatchArgs
             PROVE  TypeOK'
  OBVIOUS
<1> DEFINE W == {argv[p] : p \in DOMAIN argv} \cup {NoName}
<1>1. CASE Reject("args", "missing_argument", "EINVAL") \/ Reject("args", "duplicate", "EINVAL")
             \/ Fail("args", "out_of_memory", "ENOMEM")
  BY <1>1, Literals, RejectTypes
<1>2. CASE /\ Reading /\ i < Len(argv) /\ Took(2)
           /\ \/ UNCHANGED << language, source, output >>
              \/ language' = argv[i + 1] /\ UNCHANGED << source, output >>
              \/ output' = argv[i + 1] /\ UNCHANGED << language, source >>
  <2>1. argv[i + 1] \in W /\ {language, source, output} \subseteq W /\ i + 2 <= Len(argv) + 1
    BY <1>2 DEF TypeOK
  <2>2. {language', source', output'} \subseteq W
    BY <1>2, <2>1
  <2> HIDE DEF W
  <2> QED
    BY <1>2, <2>1, <2>2, TookTypes DEF W
<1>3. CASE Reading /\ Took(1) /\ source' = Arg /\ UNCHANGED << language, output >>
  <2>1. argv[i] \in W /\ {language, source, output} \subseteq W /\ i + 1 <= Len(argv) + 1
    BY <1>3 DEF TypeOK, Reading
  <2>2. {language', source', output'} \subseteq W
    BY <1>3, <2>1 DEF Arg
  <2> HIDE DEF W
  <2> QED
    BY <1>3, <2>1, <2>2, TookTypes DEF W
<1> QED
  BY <1>1, <1>2, <1>3
  DEF MatchArgs, NoArgument, LanguageOption, IncludeOption, OutputOption, FallbackOption

\* Every step keeps the types of the variables.
LEMMA TypeOKNext == TypeOK /\ PrintedInv /\ [Next]_vars => TypeOK'
<1> SUFFICES ASSUME TypeOK, PrintedInv, [Next]_vars
             PROVE  TypeOK'
  OBVIOUS
<1>1. CASE UNCHANGED vars
  BY <1>1 DEF vars, args, parsing, TypeOK
<1>2. CASE BuildOptionMap \/ CheckNames \/ CheckLanguage \/ ChooseCompiler
  BY <1>2, Literals, PassOnTypes, RejectTypes DEF BuildOptionMap, CheckNames, CheckLanguage, ChooseCompiler
<1>3. CASE MatchArgs
  BY <1>3, MatchArgsTypes
<1>4. CASE ReadSource
  <2>1. CASE \/ Reject("file", "cannot_open", "EIO") \/ Reject("file", "no_size", "EIO")
             \/ Fail("file", "no_buffer", "ENOMEM") \/ Fail("file", "cannot_read", "EIO")
    BY <2>1, Literals, RejectTypes
  <2>2. CASE Pass("file", "language") /\ document' = TRUE /\ UNCHANGED << args, errors, dumped, attached >>
    BY <2>2, Literals, PassTypes DEF TypeOK
  <2>3. CASE /\ faults > 0 /\ faults' = faults - 1
             /\ pc = "file" /\ pc' = "language"
             /\ UNCHANGED << args, parsing, printed, files, exit, lost >>
    BY <2>3, BoundsAssumption DEF args, parsing, TypeOK
  <2> QED
    BY <1>4, <2>1, <2>2, <2>3 DEF ReadSource
<1>5. CASE Lex
  BY <1>5, Literals, PassOnTypes, RejectTypes, KilledTypes DEF Lex, TypeOK
<1>6. CASE MakeParser
  <2>1. CASE Fail("make", "out_of_memory", "ENOMEM")
    BY <2>1, Literals, RejectTypes
  <2>2. CASE Pass("make", "modules") /\ attached' = document /\ UNCHANGED << args, document, errors, dumped >>
    BY <2>2, Literals, PassTypes DEF TypeOK
  <2> QED
    BY <1>6, <2>1, <2>2 DEF MakeParser
<1>7. CASE MakeModules
  BY <1>7, Literals, PassOnTypes, RejectTypes, KilledTypes DEF MakeModules, TypeOK
<1>8. CASE ParseProgram
  <2>1. errors' \in Seq(ErrorKinds)
    <3>1. PICK n \in 0 .. MaxErrors : errors' \in [1 .. n -> ErrorKinds]
      BY <1>8 DEF ParseProgram
    <3> QED
      BY <3>1, BoundsAssumption
  <2>3. {document', attached'} \subseteq BOOLEAN
    BY <1>8 DEF ParseProgram, TypeOK
  <2>2. dumped' \in 0 .. Len(errors')
    <3>1. dumped = 0 /\ dumped' = dumped
      BY <1>8 DEF ParseProgram, PrintedInv, Before
    <3> QED
      BY <2>1, <3>1
  <2>4. faults' \in 0 .. MaxFaults
    BY <1>8, BoundsAssumption DEF ParseProgram, TypeOK
  <2> QED
    BY <1>8, <2>1, <2>2, <2>3, <2>4 DEF ParseProgram, args, TypeOK
<1>9. CASE ParseKilled
  BY <1>9, KilledTypes DEF ParseKilled, TypeOK
<1>10. CASE DumpSyntaxError
  <2>1. CASE Dumping /\ Dump /\ printed' = Append(printed, "syntax_error")
    <3>1. printed' \in Seq(Messages)
      BY <2>1, Literals DEF TypeOK
    <3>2. dumped' \in 0 .. Len(errors)
      BY <2>1 DEF TypeOK, Dumping, Dump
    <3> QED
      BY <2>1, <3>1, <3>2 DEF Dump, args, TypeOK
  <2>2. CASE Killed("report") /\ UNCHANGED files
    BY <2>2, KilledTypes DEF TypeOK
  <2> QED
    BY <1>10, <2>1, <2>2 DEF DumpSyntaxError
<1>11. CASE Compile
  <2>1. CASE CompileError
    <3>1. printed' \in Seq(Messages)
      BY <2>1, Literals DEF CompileError, TypeOK
    <3> QED
      BY <2>1, <3>1 DEF CompileError, args, parsing, TypeOK
  <2>2. CASE Compiled
    <3>1. faults' \in 0 .. MaxFaults
      BY <2>2, BoundsAssumption DEF Compiled, TypeOK
    <3>2. {document', attached', lost'} \subseteq BOOLEAN
      <4>1. lost' \in BOOLEAN
        BY <2>2 DEF Compiled, TypeOK
      <4> QED
        BY <2>2, <4>1 DEF Compiled, parsing, TypeOK
    <3> QED
      BY <2>2, <3>1, <3>2 DEF Compiled, args, parsing, TypeOK
  <2>3. CASE CompileKilled
    BY <2>3, KilledTypes DEF CompileKilled
  <2> QED
    BY <1>11, <2>1, <2>2, <2>3 DEF Compile
<1>12. CASE Return
  BY <1>12 DEF Return, Status, args, parsing, TypeOK
<1>13. CASE Terminating
  BY <1>13, <1>1 DEF Terminating
<1> QED
  BY <1>1, <1>2, <1>3, <1>4, <1>5, <1>6, <1>7, <1>8, <1>9, <1>10, <1>11, <1>12, <1>13 DEF Next

-----------------------------------------------------------------------------
(* What is read of the command line. *)

\* The command line does not change, nor does what is said of it.
LEMMA ArgvFixed ==
  ASSUME argv' = argv
  PROVE  /\ IsOption' = IsOption
         /\ Names' = Names
         /\ \A o : ArgumentsOf(o)' = ArgumentsOf(o)
         /\ \A s : LastOf(s)' = LastOf(s)
         /\ \A s : AllEmptyButLast(s)' = AllEmptyButLast(s)
<1>1. IsOption' = IsOption
  BY DEF IsOption
<1>2. Names' = Names
  BY <1>1 DEF Names
<1>3. \A o : ArgumentsOf(o)' = ArgumentsOf(o)
  BY <1>1 DEF ArgumentsOf
<1>4. \A s : LastOf(s)' = LastOf(s)
  BY DEF LastOf
<1>5. \A s : AllEmptyButLast(s)' = AllEmptyButLast(s)
  BY DEF AllEmptyButLast
<1> QED
  BY <1>1, <1>2, <1>3, <1>4, <1>5

\* Reading an option with its argument.
LEMMA OptionPlaces ==
  ASSUME TypeOK, ~IsOption[i - 1], i <= Len(argv), Arg \in Options
  PROVE  /\ IsOption[i]
         /\ i < Len(argv) =>
              /\ ~IsOption[i + 1]
              /\ Upto(i + 1, Names) = Upto(i - 1, Names)
              /\ Arg = "-l" => i + 1 \in ArgumentsOf("-l")
              /\ \A o : Upto(i + 1, ArgumentsOf(o)) =
                          Upto(i - 1, ArgumentsOf(o)) \cup (IF Arg = o THEN {i + 1} ELSE {})
<1>1. Recursion(IsOption, Len(argv)) /\ argv \in Seq(STRING) /\ i \in 1 .. Len(argv)
  BY IsOptionRecursion DEF TypeOK
<1>2. IsOption[i]
  BY <1>1 DEF Recursion, Arg
<1> SUFFICES ASSUME i < Len(argv)
             PROVE  /\ ~IsOption[i + 1]
                    /\ Upto(i + 1, Names) = Upto(i - 1, Names)
                    /\ Arg = "-l" => i + 1 \in ArgumentsOf("-l")
                    /\ \A o : Upto(i + 1, ArgumentsOf(o)) =
                                Upto(i - 1, ArgumentsOf(o)) \cup (IF Arg = o THEN {i + 1} ELSE {})
  BY <1>2
<1>3. i + 1 \in 1 .. Len(argv) /\ (i + 1) - 1 = i
  BY <1>1
<1>4. ~IsOption[i + 1]
  BY <1>1, <1>2, <1>3 DEF Recursion
<1>5. \A p \in DOMAIN argv : p <= i + 1 <=> p <= i - 1 \/ p = i \/ p = i + 1
  BY <1>1
<1>6. Upto(i + 1, Names) = Upto(i - 1, Names)
  <2>1. i \notin Names /\ i + 1 \notin Names
    BY <1>2, <1>3 DEF Names
  <2>2. Names \subseteq DOMAIN argv
    BY DEF Names
  <2> QED
    BY <2>1, <2>2, <1>5 DEF Upto
<1>7. \A o : i + 1 \in ArgumentsOf(o) <=> Arg = o
  BY <1>1, <1>2, <1>3 DEF ArgumentsOf, Arg
<1>8. ASSUME NEW o
      PROVE  Upto(i + 1, ArgumentsOf(o)) = Upto(i - 1, ArgumentsOf(o)) \cup (IF Arg = o THEN {i + 1} ELSE {})
  <2>1. i \notin ArgumentsOf(o)
    BY DEF ArgumentsOf
  <2>2. ArgumentsOf(o) \subseteq DOMAIN argv
    BY <1>1 DEF ArgumentsOf
  <2> QED
    BY <2>1, <2>2, <1>5, <1>7 DEF Upto
<1> QED
  BY <1>4, <1>6, <1>7, <1>8

\* Reading the name of the source file.
LEMMA NamePlaces ==
  ASSUME TypeOK, ~IsOption[i - 1], i <= Len(argv), Arg \notin Options
  PROVE  /\ ~IsOption[i] /\ i \in Names
         /\ Upto(i, Names) = Upto(i - 1, Names) \cup {i}
         /\ \A o : Upto(i, ArgumentsOf(o)) = Upto(i - 1, ArgumentsOf(o))
<1>1. Recursion(IsOption, Len(argv)) /\ argv \in Seq(STRING) /\ i \in 1 .. Len(argv)
  BY IsOptionRecursion DEF TypeOK
<1>2. ~IsOption[i]
  BY <1>1 DEF Recursion, Arg
<1>3. \A p \in DOMAIN argv : p <= i <=> p <= i - 1 \/ p = i
  BY <1>1
<1>4. i \in Names /\ Names \subseteq DOMAIN argv
  BY <1>1, <1>2 DEF Names
<1>5. Upto(i, Names) = Upto(i - 1, Names) \cup {i}
  BY <1>1, <1>3, <1>4 DEF Upto
<1>6. ASSUME NEW o
      PROVE  Upto(i, ArgumentsOf(o)) = Upto(i - 1, ArgumentsOf(o))
  <2>1. i \notin ArgumentsOf(o)
    BY DEF ArgumentsOf
  <2>2. ArgumentsOf(o) \subseteq DOMAIN argv
    BY <1>1 DEF ArgumentsOf
  <2> QED
    BY <2>1, <2>2, <1>3 DEF Upto
<1> QED
  BY <1>2, <1>4, <1>5, <1>6

\* The places read so far are positions that have been read.
LEMMA PlacesRead ==
  ASSUME TypeOK
  PROVE  /\ i - 1 \in Nat
         /\ Upto(i - 1, Names) \in SUBSET (1 .. i - 1)
         /\ \A o : Upto(i - 1, ArgumentsOf(o)) \in SUBSET (1 .. i - 1)
BY DEF TypeOK, Upto, Names, ArgumentsOf

\* When nothing but empty words has been read at some places, another word may
\* come.
LEMMA EmptySoFar ==
  ASSUME NEW n \in Nat, NEW places \in SUBSET (1 .. n), AllEmptyButLast(places),
         LastOf(places) = NoName, NEW p \in Nat, p > n
  PROVE  AllEmptyButLast(places \cup {p})
<1>1. ASSUME NEW q \in places
      PROVE  argv[q] = NoName
  <2>1. places # {}
    BY <1>1
  <2>2. PICK m \in places : \A x \in places : x <= m
    <3>1. places \subseteq 0 .. n
      OBVIOUS
    <3> QED
      BY <2>1, <3>1, GreatestNatural
  <2>3. (places \ {m}) \cup {m} = places
    OBVIOUS
  <2>4. places \ {m} \in SUBSET (1 .. m - 1) /\ m - 1 \in Nat /\ m \in Nat /\ m > m - 1
    BY <2>2
  <2>5. argv[m] = NoName
    <3>1. LastOf((places \ {m}) \cup {m}) = argv[m]
      BY <2>4, LastAdded, Zenon
    <3> QED
      BY <2>3, <3>1
  <2>6. q = m \/ q < m
    BY <2>2
  <2> QED
    BY <2>5, <2>6 DEF AllEmptyButLast
<1> QED
  BY <1>1 DEF AllEmptyButLast

\* A second word is one too many.
LEMMA NotEmptySoFar ==
  ASSUME NEW n \in Nat, NEW places, Upto(n, places) \in SUBSET (1 .. n),
         LastOf(Upto(n, places)) # NoName, NEW p \in places, p \in Nat, p > n
  PROVE  ~AllEmptyButLast(places)
<1>1. PICK q \in Upto(n, places) : argv[q] # NoName
  BY LastIsWritten
<1>2. q \in places /\ q < p
  BY <1>1 DEF Upto
<1> QED
  BY <1>1, <1>2 DEF AllEmptyButLast

\* What is said of the command line at the end holds as long as main goes on
\* and prints nothing that is said of it.
LEMMA PastArgs ==
  ASSUME TypeOK, OptionsAsWritten, UNCHANGED args,
         pc \notin {"options", "args"} \/ pc' \in {"options", "args", "done"},
         pc # "done" \/ pc' = "done",
         \/ UNCHANGED printed
         \/ \E m : /\ printed' = Append(printed, m)
                   /\ m \notin {"missing_argument", "duplicate", "missing_source", "missing_output"}
  PROVE  OptionsAsWritten'
<1>1. argv' = argv /\ UNCHANGED << language, output, source >>
  BY DEF args
<1>2. WellFormed' = WellFormed
  BY <1>1, ArgvFixed DEF WellFormed
<1>3. \A m \in {"missing_argument", "duplicate", "missing_source", "missing_output"} : printed' = << m >> => printed = << m >>
  BY DEF TypeOK
<1>4. pc' \notin {"options", "args", "done"} => pc \notin {"options", "args", "done"}
  OBVIOUS
<1>5. /\ ArgumentsOf("-l")' = ArgumentsOf("-l") /\ ArgumentsOf("-o")' = ArgumentsOf("-o") /\ Names' = Names
      /\ \A s : LastOf(s)' = LastOf(s)
  BY <1>1, ArgvFixed
<1>6. pc' \notin {"options", "args", "done"} =>
        WellFormed' /\ language' = LastOf(ArgumentsOf("-l"))' /\ output' = LastOf(ArgumentsOf("-o"))'
          /\ source' = LastOf(Names)'
  BY <1>1, <1>2, <1>4, <1>5 DEF OptionsAsWritten
<1>7. printed' \in {<< "missing_argument" >>, << "duplicate" >>} => ~WellFormed'
  BY <1>2, <1>3 DEF OptionsAsWritten
<1>8. printed' = << "missing_source" >> => LastOf(Names)' = NoName
  BY <1>3, <1>5 DEF OptionsAsWritten
<1>9. printed' = << "missing_output" >> => LastOf(Names)' # NoName /\ LastOf(ArgumentsOf("-o"))' = NoName
  BY <1>3, <1>5 DEF OptionsAsWritten
<1> QED
  BY <1>6, <1>7, <1>8, <1>9 DEF OptionsAsWritten

\* Reading the command line.
LEMMA MatchArgsStep == TypeOK /\ PrintedInv /\ ArgsInv /\ MatchArgs => ArgsInv'
<1> SUFFICES ASSUME TypeOK, PrintedInv, ArgsInv, MatchArgs
             PROVE  ArgsInv'
  OBVIOUS
<1>1. Reading /\ pc = "args" /\ argv' = argv
  BY DEF MatchArgs, NoArgument, LanguageOption, IncludeOption, OutputOption, FallbackOption, Reading,
         Reject, Fail, Refuse, Took, args
<1>2. ReadSoFar(i - 1) /\ i \in 1 .. Len(argv) /\ printed = << >>
  BY <1>1 DEF ArgsInv, PrintedInv, Before, Reading, TypeOK
<1>3. ~IsOption[i - 1]
  BY <1>2 DEF ReadSoFar
<1>4. CASE Reject("args", "missing_argument", "EINVAL") /\ Arg \in Options /\ i = Len(argv)
  <2>1. pc' = "done" /\ printed' = << "missing_argument" >>
    BY <1>4, <1>2 DEF Reject, Refuse
  <2>2. IsOption[Len(argv)]
    BY <1>2, <1>3, <1>4, OptionPlaces
  <2>3. ~WellFormed'
    BY <1>1, <2>2, ArgvFixed DEF WellFormed
  <2> QED
    BY <2>1, <2>3 DEF ArgsInv, OptionsAsWritten
<1>5. CASE /\ Reject("args", "duplicate", "EINVAL")
           /\ \/ Arg = "-l" /\ i < Len(argv) /\ language # NoName
              \/ Arg \notin Options /\ source # NoName
  <2>1. pc' = "done" /\ printed' = << "duplicate" >>
    BY <1>5, <1>2 DEF Reject, Refuse
  <2>2. ASSUME Arg = "-l", i < Len(argv), language # NoName
        PROVE  ~WellFormed
    <3>1. i + 1 \in ArgumentsOf("-l")
      BY <2>2, <1>2, <1>3, OptionPlaces DEF Options
    <3>2. LastOf(Upto(i - 1, ArgumentsOf("-l"))) # NoName
      BY <2>2, <1>2 DEF ReadSoFar
    <3>3. ~AllEmptyButLast(ArgumentsOf("-l"))
      BY <3>1, <3>2, <1>2, PlacesRead, NotEmptySoFar
    <3> QED
      BY <3>3 DEF WellFormed
  <2>3. ASSUME Arg \notin Options, source # NoName
        PROVE  ~WellFormed
    <3>1. i \in Names
      BY <2>3, <1>2, <1>3, NamePlaces
    <3>2. LastOf(Upto(i - 1, Names)) # NoName
      BY <2>3, <1>2 DEF ReadSoFar
    <3>3. ~AllEmptyButLast(Names)
      BY <3>1, <3>2, <1>2, PlacesRead, NotEmptySoFar
    <3> QED
      BY <3>3 DEF WellFormed
  <2>4. ~WellFormed
    BY <1>5, <2>2, <2>3
  <2>5. ~WellFormed'
    BY <1>1, <2>4, ArgvFixed DEF WellFormed
  <2> QED
    BY <2>1, <2>5 DEF ArgsInv, OptionsAsWritten
<1>6. CASE Fail("args", "out_of_memory", "ENOMEM")
  <2>1. pc' = "done" /\ printed' = << "out_of_memory" >>
    BY <1>6, <1>2 DEF Fail, Refuse
  <2> QED
    BY <2>1 DEF ArgsInv, OptionsAsWritten
<1>7. CASE /\ Took(2) /\ i < Len(argv) /\ Arg \in Options
           /\ language' = IF Arg = "-l" THEN argv[i + 1] ELSE language
           /\ Arg = "-l" => language = NoName
           /\ output' = IF Arg = "-o" THEN argv[i + 1] ELSE output
           /\ source' = source
  <2>1. pc' = "args" /\ printed' = << >> /\ i' - 1 = i + 1
    BY <1>1, <1>2, <1>7 DEF Took
  <2>2. /\ ~IsOption[i + 1]
        /\ Upto(i + 1, Names) = Upto(i - 1, Names)
        /\ \A o : Upto(i + 1, ArgumentsOf(o)) =
                    Upto(i - 1, ArgumentsOf(o)) \cup (IF Arg = o THEN {i + 1} ELSE {})
    BY <1>2, <1>3, <1>7, OptionPlaces
  <2>3. \A o : LastOf(Upto(i - 1, ArgumentsOf(o)) \cup {i + 1}) = argv[i + 1]
    <3>1. i + 1 \in Nat /\ i + 1 > i - 1
      BY <1>2
    <3> QED
      BY <3>1, PlacesRead, LastAdded
  <2>4. /\ language' = LastOf(Upto(i + 1, ArgumentsOf("-l")))
        /\ output' = LastOf(Upto(i + 1, ArgumentsOf("-o")))
        /\ source' = LastOf(Upto(i + 1, Names))
    BY <2>2, <2>3, <1>2, <1>7 DEF ReadSoFar
  <2>5. AllEmptyButLast(Upto(i + 1, ArgumentsOf("-l")))
    <3>1. CASE Arg = "-l"
      <4>1. i + 1 \in Nat /\ i + 1 > i - 1
        BY <1>2
      <4> QED
        BY <3>1, <4>1, <2>2, <1>2, <1>7, PlacesRead, EmptySoFar DEF ReadSoFar
    <3>2. CASE Arg # "-l"
      BY <3>2, <2>2, <1>2 DEF ReadSoFar
    <3> QED
      BY <3>1, <3>2
  <2>6. AllEmptyButLast(Upto(i + 1, Names))
    BY <2>2, <1>2 DEF ReadSoFar
  <2>7. (ReadSoFar(i - 1))'
    BY <2>1, <2>2, <2>4, <2>5, <2>6, <1>1, ArgvFixed DEF ReadSoFar, Upto
  <2> QED
    BY <2>1, <2>7 DEF ArgsInv, OptionsAsWritten
<1>8. CASE /\ Took(1) /\ Arg \notin Options /\ source = NoName /\ source' = Arg
           /\ UNCHANGED << language, output >>
  <2>1. pc' = "args" /\ printed' = << >> /\ i' - 1 = i
    BY <1>1, <1>2, <1>8 DEF Took
  <2>2. /\ ~IsOption[i]
        /\ Upto(i, Names) = Upto(i - 1, Names) \cup {i}
        /\ \A o : Upto(i, ArgumentsOf(o)) = Upto(i - 1, ArgumentsOf(o))
    BY <1>2, <1>3, <1>8, NamePlaces
  <2>3. i \in Nat /\ i > i - 1
    BY <1>2
  <2>4. LastOf(Upto(i, Names)) = argv[i] /\ AllEmptyButLast(Upto(i, Names))
    <3>1. LastOf(Upto(i - 1, Names) \cup {i}) = argv[i]
      BY <2>3, PlacesRead, LastAdded
    <3>2. AllEmptyButLast(Upto(i - 1, Names) \cup {i})
      BY <2>3, <1>2, <1>8, PlacesRead, EmptySoFar DEF ReadSoFar
    <3> QED
      BY <2>2, <3>1, <3>2
  <2>5. /\ language' = LastOf(Upto(i, ArgumentsOf("-l")))
        /\ output' = LastOf(Upto(i, ArgumentsOf("-o")))
        /\ source' = LastOf(Upto(i, Names))
        /\ AllEmptyButLast(Upto(i, ArgumentsOf("-l")))
    BY <2>2, <2>4, <1>2, <1>8 DEF ReadSoFar, Arg
  <2>6. (ReadSoFar(i - 1))'
    BY <2>1, <2>2, <2>4, <2>5, <1>1, ArgvFixed DEF ReadSoFar, Upto
  <2> QED
    BY <2>1, <2>6 DEF ArgsInv, OptionsAsWritten
<1>9. NoArgument => Reject("args", "missing_argument", "EINVAL") /\ Arg \in Options /\ i = Len(argv)
  BY DEF NoArgument
<1>10. "-l" \in Options /\ "-I" \in Options /\ "-o" \in Options /\ "-l" # "-I" /\ "-l" # "-o" /\ "-I" # "-o"
  BY DEF Options
<1> QED
  BY <1>4, <1>5, <1>6, <1>7, <1>8, <1>9, <1>10
  DEF MatchArgs, LanguageOption, IncludeOption, OutputOption, FallbackOption, Reading

\* Every step keeps what is said of the command line.
LEMMA ArgsStep == TypeOK /\ PrintedInv /\ ArgsInv /\ [Next]_vars => ArgsInv'
<1> SUFFICES ASSUME TypeOK, PrintedInv, ArgsInv, [Next]_vars
             PROVE  ArgsInv'
  OBVIOUS
<1>1. ASSUME UNCHANGED args, pc' \notin {"options", "args"}, pc \notin {"options", "args"} \/ pc' = "done",
             pc # "done" \/ pc' = "done",
             \/ UNCHANGED printed
             \/ \E m : /\ printed' = Append(printed, m)
                       /\ m \notin {"missing_argument", "duplicate", "missing_source", "missing_output"}
      PROVE  ArgsInv'
  <2>1. OptionsAsWritten'
    BY <1>1, PastArgs DEF ArgsInv
  <2> QED
    BY <1>1, <2>1 DEF ArgsInv
<1>2. CASE UNCHANGED vars
  <2>1. OptionsAsWritten'
    BY <1>2, PastArgs DEF ArgsInv, vars
  <2>2. pc = "args" => (ReadSoFar(i - 1))'
    BY <1>2, ArgvFixed DEF ArgsInv, ReadSoFar, Upto, vars, args
  <2> QED
    BY <1>2, <2>1, <2>2 DEF ArgsInv, vars, args
<1>3. CASE BuildOptionMap
  <2>1. CASE Fail("options", "out_of_memory", "ENOMEM")
    BY <2>1, <1>1 DEF Fail, Refuse
  <2>2. CASE Pass("options", "args") /\ UNCHANGED << args, parsing >>
    <3>1. /\ i = 1 /\ language = NoName /\ output = NoName /\ source = NoName /\ pc' = "args"
          /\ argv' = argv /\ UNCHANGED << i, language, output, source, printed >>
      BY <2>2 DEF Pass, ArgsInv, args
    <3>2. Upto(0, Names) = {} /\ Upto(0, ArgumentsOf("-l")) = {} /\ Upto(0, ArgumentsOf("-o")) = {}
      BY DEF Upto, Names, ArgumentsOf, TypeOK
    <3>3. ~IsOption[0]
      BY IsOptionRecursion DEF Recursion, TypeOK
    <3>4. LastOf({}) = NoName /\ AllEmptyButLast({})
      BY DEF LastOf, AllEmptyButLast
    <3>5. i' - 1 = 0
      BY <3>1
    <3>6. (ReadSoFar(i - 1))'
      BY <3>1, <3>2, <3>3, <3>4, <3>5, ArgvFixed DEF ReadSoFar, Upto
    <3>7. OptionsAsWritten'
      <4>1. UNCHANGED args /\ pc = "options" /\ pc' = "args"
        BY <2>2 DEF Pass
      <4> QED
        BY <3>1, <4>1, PastArgs DEF ArgsInv
    <3> QED
      BY <3>1, <3>6, <3>7 DEF ArgsInv
  <2> QED
    BY <1>3, <2>1, <2>2 DEF BuildOptionMap
<1>4. CASE MatchArgs
  BY <1>4, MatchArgsStep
<1>5. CASE CheckNames
  <2>1. pc = "args" /\ i > Len(argv) /\ UNCHANGED args
    BY <1>5 DEF CheckNames, Reject, Refuse, Pass
  <2>2. ReadSoFar(i - 1) /\ i - 1 = Len(argv) /\ argv \in Seq(STRING) /\ printed = << >>
    BY <2>1 DEF ArgsInv, PrintedInv, Before, TypeOK
  <2>3. /\ Upto(Len(argv), Names) = Names
        /\ \A o : Upto(Len(argv), ArgumentsOf(o)) = ArgumentsOf(o)
    BY <2>2 DEF Upto, Names, ArgumentsOf
  <2>4. /\ WellFormed
        /\ language = LastOf(ArgumentsOf("-l"))
        /\ output = LastOf(ArgumentsOf("-o"))
        /\ source = LastOf(Names)
    BY <2>2, <2>3 DEF ReadSoFar, WellFormed
  <2>5. CASE Reject("args", "missing_source", "EINVAL") /\ source = NoName
    <3>1. pc' = "done" /\ printed' = << "missing_source" >>
      BY <2>2, <2>5 DEF Reject, Refuse
    <3>2. LastOf(Names)' = NoName
      BY <2>1, <2>4, <2>5, ArgvFixed DEF args
    <3> QED
      BY <3>1, <3>2 DEF ArgsInv, OptionsAsWritten
  <2>6. CASE Reject("args", "missing_output", "EINVAL") /\ source # NoName /\ output = NoName
    <3>1. pc' = "done" /\ printed' = << "missing_output" >>
      BY <2>2, <2>6 DEF Reject, Refuse
    <3>2. LastOf(Names)' # NoName /\ LastOf(ArgumentsOf("-o"))' = NoName
      BY <2>1, <2>4, <2>6, ArgvFixed DEF args
    <3> QED
      BY <3>1, <3>2 DEF ArgsInv, OptionsAsWritten
  <2>7. CASE Pass("args", "file")
    <3>1. pc' = "file" /\ printed' = << >>
      BY <2>2, <2>7 DEF Pass
    <3>2. WellFormed'
      BY <2>1, <2>4, ArgvFixed DEF WellFormed, args
    <3>3. /\ language' = LastOf(ArgumentsOf("-l"))'
          /\ output' = LastOf(ArgumentsOf("-o"))'
          /\ source' = LastOf(Names)'
      BY <2>1, <2>4, ArgvFixed DEF args
    <3> QED
      BY <3>1, <3>2, <3>3 DEF ArgsInv, OptionsAsWritten
  <2> QED
    BY <1>5, <2>5, <2>6, <2>7 DEF CheckNames
<1>6. CASE ReadSource
  BY <1>6, <1>1 DEF ReadSource, Reject, Fail, Refuse, Pass
<1>7. CASE CheckLanguage
  BY <1>7, <1>1 DEF CheckLanguage, Reject, Refuse, Pass
<1>8. CASE Lex \/ MakeParser \/ MakeModules \/ ParseProgram \/ ParseKilled
  BY <1>8, <1>1 DEF Lex, MakeParser, MakeModules, ParseProgram, ParseKilled, Reject, Fail, Refuse, Pass, Killed
<1>9. CASE DumpSyntaxError
  BY <1>9, <1>1 DEF DumpSyntaxError, Dumping, Dump, Killed
<1>10. CASE ChooseCompiler
  BY <1>10, <1>1 DEF ChooseCompiler, Reject, Refuse, Pass
<1>11. CASE Compile \/ Return
  BY <1>11, <1>1 DEF Compile, CompileError, Compiled, CompileKilled, Return, Killed
<1>12. CASE Terminating
  BY <1>2, <1>12 DEF Terminating
<1> QED
  BY <1>2, <1>3, <1>4, <1>5, <1>6, <1>7, <1>8, <1>9, <1>10, <1>11, <1>12 DEF Next

-----------------------------------------------------------------------------
(* What is printed, and what becomes of the output files. *)

\* main ends early: it returns no 0, and nothing is said of what is printed.
LEMMA EndedEarly ==
  ASSUME TypeOK, pc' = "done", exit' # "0"
  PROVE  PrintedInv'
BY DEF PrintedInv, Before

\* A refusal returns no 0.
LEMMA RefusedNotZero ==
  ASSUME NEW p, NEW message, NEW code \in Codes, Refuse(p, message, code)
  PROVE  /\ pc' = "done" /\ exit' # "0"
         /\ printed' = Append(printed, message) /\ files' = files /\ pc = p
BY DEF Refuse, Status, Codes

\* Every step keeps what is said of the messages.
LEMMA PrintedStep == TypeOK /\ PrintedInv /\ [Next]_vars => PrintedInv'
<1> SUFFICES ASSUME TypeOK, PrintedInv, [Next]_vars
             PROVE  PrintedInv'
  OBVIOUS
<1>1. ASSUME NEW p, NEW message, NEW code \in Codes, Reject(p, message, code) \/ Fail(p, message, code)
      PROVE  PrintedInv'
  BY <1>1, RefusedNotZero, EndedEarly DEF Reject, Fail
<1>2. ASSUME NEW p, Killed(p)
      PROVE  PrintedInv'
  BY <1>2, EndedEarly DEF Killed
<1>3. ASSUME NEW p \in Before, NEW q \in Before, Pass(p, q), UNCHANGED << errors, dumped >>
      PROVE  PrintedInv'
  <2>1. pc = p /\ pc' = q /\ exit = "none" /\ exit' = "none" /\ printed' = printed
    BY <1>3 DEF Pass, TypeOK, Before
  <2> QED
    BY <1>3, <2>1 DEF PrintedInv, Before
<1>4. "options" \in Before /\ "args" \in Before /\ "file" \in Before /\ "language" \in Before
        /\ "lex" \in Before /\ "make" \in Before /\ "modules" \in Before /\ "parse" \in Before
  BY DEF Before
<1>5. CASE UNCHANGED vars
  BY <1>5 DEF vars, parsing, PrintedInv
<1>6. CASE BuildOptionMap \/ CheckNames \/ CheckLanguage
  BY <1>1, <1>3, <1>4, <1>6, Literals DEF BuildOptionMap, CheckNames, CheckLanguage, parsing
<1>7. CASE MatchArgs
  <2>1. ASSUME NEW n, Took(n), pc = "args"
        PROVE  PrintedInv'
    BY <2>1 DEF Took, parsing, PrintedInv, Before
  <2> QED
    BY <1>1, <1>7, <2>1, Literals
    DEF MatchArgs, NoArgument, LanguageOption, IncludeOption, OutputOption, FallbackOption, Reading
<1>8. CASE ReadSource
  <2>1. CASE /\ pc = "file" /\ pc' = "language"
             /\ UNCHANGED << args, parsing, printed, files, exit, lost >>
    BY <2>1 DEF parsing, PrintedInv, Before, TypeOK
  <2> QED
    BY <1>1, <1>3, <1>4, <1>8, <2>1, Literals DEF ReadSource
<1>9. CASE Lex \/ MakeParser \/ MakeModules
  BY <1>1, <1>2, <1>3, <1>4, <1>9, Literals DEF Lex, MakeParser, MakeModules, parsing
<1>10. CASE ParseProgram
  <2>1. pc = "parse" /\ pc' = "report" /\ dumped' = 0 /\ printed' = << >> /\ exit' = "none"
    BY <1>10 DEF ParseProgram, PrintedInv, Before, TypeOK
  <2> QED
    BY <2>1 DEF PrintedInv, Before
<1>11. CASE ParseKilled
  BY <1>2, <1>11 DEF ParseKilled
<1>12. CASE DumpSyntaxError
  <2>1. CASE Dumping /\ Dump /\ printed' = Append(printed, "syntax_error")
    <3>1. /\ pc = "report" /\ pc' = "report" /\ exit = "none" /\ exit' = "none"
          /\ dumped \in Nat /\ dumped' = dumped + 1 /\ printed \in Seq(Messages)
          /\ Len(printed) = dumped /\ \A k \in 1 .. dumped : printed[k] = "syntax_error"
      BY <2>1 DEF Dumping, Dump, PrintedInv, TypeOK
    <3>2. Len(printed') = dumped + 1 /\ \A k \in 1 .. dumped + 1 : printed'[k] = "syntax_error"
      BY <2>1, <3>1
    <3> QED
      BY <3>1, <3>2 DEF PrintedInv, Before
  <2> QED
    BY <1>2, <1>12, <2>1 DEF DumpSyntaxError
<1>13. CASE ChooseCompiler
  <2>1. CASE dumped = Len(errors) /\ Pass("report", "compile") /\ UNCHANGED << args, parsing >>
    BY <2>1 DEF Pass, parsing, PrintedInv, Before, TypeOK
  <2> QED
    BY <1>1, <1>13, <2>1, Literals DEF ChooseCompiler
<1>14. CASE Compile
  <2>1. ASSUME pc = "compile"
        PROVE  /\ exit = "none" /\ Len(printed) = dumped /\ dumped = Len(errors) /\ dumped \in Nat
               /\ \A k \in 1 .. dumped : printed[k] = "syntax_error"
               /\ printed \in Seq(Messages)
    BY <2>1 DEF PrintedInv, TypeOK
  <2>2. CASE CompileError
    <3>1. /\ pc = "compile" /\ pc' = "return" /\ exit' = exit /\ UNCHANGED << errors, dumped >>
          /\ printed' = Append(printed, "compilation_error")
      BY <2>2 DEF CompileError, parsing
    <3>2. /\ Len(printed') = dumped + 1 /\ printed'[dumped + 1] = "compilation_error"
          /\ \A k \in 1 .. dumped : printed'[k] = "syntax_error"
      BY <2>1, <3>1
    <3> QED
      BY <2>1, <3>1, <3>2 DEF PrintedInv, Before
  <2>3. CASE Compiled
    <3>1. /\ pc = "compile" /\ pc' = "return" /\ exit' = exit /\ UNCHANGED << errors, dumped, printed >>
          /\ files' # "whole" => lost'
      BY <2>3 DEF Compiled, parsing
    <3> QED
      BY <2>1, <3>1 DEF PrintedInv, Before
  <2>4. CASE CompileKilled
    BY <1>2, <2>4 DEF CompileKilled
  <2> QED
    BY <1>14, <2>2, <2>3, <2>4 DEF Compile
<1>15. CASE Return
  BY <1>15 DEF Return, parsing, PrintedInv, Before
<1>16. CASE Terminating
  BY <1>5, <1>16 DEF Terminating
<1> QED
  BY <1>5, <1>6, <1>7, <1>8, <1>9, <1>10, <1>11, <1>12, <1>13, <1>14, <1>15, <1>16 DEF Next

\* Every step keeps what is said of the output files.
LEMMA FilesStep == TypeOK /\ FilesInv /\ [Next]_vars => FilesInv'
<1> SUFFICES ASSUME TypeOK, FilesInv, [Next]_vars
             PROVE  FilesInv'
  OBVIOUS
<1>1. ASSUME NEW p \in Pcs \ {"return"}, NEW message, NEW code \in Codes,
             Reject(p, message, code) \/ Fail(p, message, code)
      PROVE  FilesInv'
  <2>1. Refuse(p, message, code)
    BY <1>1 DEF Reject, Fail
  <2>2. pc' = "done" /\ printed' = Append(printed, message) /\ files' = "untouched"
    BY <2>1, RefusedNotZero DEF FilesInv, Pcs, Before
  <2>3. printed' # << >>
    BY <2>2 DEF TypeOK
  <2> QED
    BY <2>2, <2>3 DEF FilesInv, FailureWritesNothing
<1>2. ASSUME NEW p, Killed(p)
      PROVE  FilesInv'
  BY <1>2 DEF Killed, FilesInv, FailureWritesNothing
<1>3. ASSUME pc \notin {"return", "done"}, UNCHANGED << files, exit >>
      PROVE  FilesInv'
  BY <1>3 DEF FilesInv, FailureWritesNothing, TypeOK
<1>4. "return" \notin {"options", "args", "file", "language", "lex", "make", "modules", "report"}
  OBVIOUS
<1>5. CASE UNCHANGED vars
  BY <1>5 DEF vars, FilesInv, FailureWritesNothing
<1>6. CASE BuildOptionMap \/ CheckNames \/ CheckLanguage \/ ChooseCompiler
  BY <1>1, <1>3, <1>4, <1>6, Literals DEF BuildOptionMap, CheckNames, CheckLanguage, ChooseCompiler, Pass
<1>7. CASE MatchArgs
  BY <1>1, <1>3, <1>4, <1>7, Literals
  DEF MatchArgs, NoArgument, LanguageOption, IncludeOption, OutputOption, FallbackOption, Reading, Took
<1>8. CASE ReadSource
  BY <1>1, <1>3, <1>4, <1>8, Literals DEF ReadSource, Pass
<1>9. CASE Lex \/ MakeParser \/ MakeModules \/ ParseProgram \/ ParseKilled
  BY <1>1, <1>2, <1>3, <1>4, <1>9, Literals DEF Lex, MakeParser, MakeModules, ParseProgram, ParseKilled, Pass
<1>10. CASE DumpSyntaxError
  BY <1>2, <1>3, <1>10 DEF DumpSyntaxError, Dumping, Dump
<1>11. CASE Compile
  BY <1>2, <1>11 DEF Compile, CompileError, Compiled, CompileKilled, FilesInv, FailureWritesNothing, TypeOK
<1>12. CASE Return
  BY <1>12 DEF Return, Status, FilesInv, FailureWritesNothing
<1>13. CASE Terminating
  BY <1>5, <1>13 DEF Terminating
<1> QED
  BY <1>5, <1>6, <1>7, <1>8, <1>9, <1>10, <1>11, <1>12, <1>13 DEF Next

-----------------------------------------------------------------------------
(* The invariant, and what follows from it. *)

\* The invariant holds in every reachable state.
THEOREM Invariance == Spec => []IInv
<1>1. Init => IInv
  <2> SUFFICES ASSUME Init
               PROVE  IInv
    OBVIOUS
  <2>1. TypeOK
    <3>1. argv \in Seq(STRING)
      BY ArgListsAssumption DEF Init
    <3>2. faults \in 0 .. MaxFaults
      BY BoundsAssumption DEF Init
    <3>3. << >> \in Seq(ErrorKinds) /\ << >> \in Seq(Messages) /\ Len(<< >>) = 0
      OBVIOUS
    <3>4. i \in 1 .. Len(argv) + 1 /\ dumped \in 0 .. Len(errors)
      BY <3>1 DEF Init
    <3> QED
      BY <3>1, <3>2, <3>3, <3>4 DEF Init, TypeOK
  <2>2. ArgsInv
    BY DEF Init, ArgsInv, OptionsAsWritten
  <2>3. PrintedInv /\ FilesInv
    BY DEF Init, PrintedInv, FilesInv, FailureWritesNothing
  <2> QED
    BY <2>1, <2>2, <2>3 DEF IInv
<1>2. IInv /\ [Next]_vars => IInv'
  BY TypeOKNext, ArgsStep, PrintedStep, FilesStep DEF IInv
<1> QED
  BY <1>1, <1>2, PTL DEF Spec

\* The variables keep their types; main has returned when it is done.
THEOREM TypeCorrect == Spec => []TypeOK
<1>1. IInv => TypeOK
  BY DEF IInv
<1> QED
  BY <1>1, Invariance, PTL

\* Every command line is read as it is written, and it is refused only for an
\* option without its argument, for a second language or source file, or for
\* want of a source file or an output directory.
THEOREM CommandLineRead == Spec => []OptionsAsWritten
<1>1. IInv => OptionsAsWritten
  BY DEF IInv, ArgsInv
<1> QED
  BY <1>1, Invariance, PTL

\* When main returns 0, each syntax error has its message, and output files that
\* are not whole have theirs, unless they could not be flushed.
THEOREM NothingUnreported == Spec => []EverythingReported
<1>1. ASSUME IInv
      PROVE  EverythingReported
  <2> SUFFICES ASSUME exit = "0"
               PROVE  /\ Cardinality({k \in DOMAIN printed : printed[k] = "syntax_error"}) = Len(errors)
                      /\ files # "whole" => lost \/ printed[Len(printed)] = "compilation_error"
    BY DEF EverythingReported
  <2>1. /\ dumped = Len(errors) /\ dumped \in Nat /\ printed \in Seq(Messages)
        /\ \A k \in 1 .. dumped : printed[k] = "syntax_error"
        /\ \/ Len(printed) = dumped /\ (files # "whole" => lost)
           \/ Len(printed) = dumped + 1 /\ printed[dumped + 1] = "compilation_error"
    BY <1>1 DEF IInv, PrintedInv, TypeOK
  <2>2. {k \in DOMAIN printed : printed[k] = "syntax_error"} = 1 .. dumped
    BY <2>1
  <2>3. Cardinality(1 .. dumped) = dumped
    <3>1. 1 \in Int /\ dumped \in Int
      BY <2>1
    <3>2. Cardinality(1 .. dumped) = IF 1 > dumped THEN 0 ELSE dumped - 1 + 1
      BY <3>1, FS_Interval, Zenon
    <3> QED
      BY <2>1, <3>2
  <2> QED
    BY <2>1, <2>2, <2>3
<1> QED
  BY <1>1, Invariance, PTL

\* A status other than 0 comes with a message, and leaves the output files as
\* they were.
THEOREM FailureIsClean == Spec => []FailureWritesNothing
<1>1. IInv => FailureWritesNothing
  BY DEF IInv, FilesInv
<1> QED
  BY <1>1, Invariance, PTL
=============================================================================
