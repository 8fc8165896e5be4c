----------------------------- MODULE LexerProofs -----------------------------
(***************************************************************************)
(* Proofs about Lexer, for every source text and any widths: the tokens    *)
(* tile the text, are located right, read as the kind they have and stand  *)
(* for the value their text is written with; and each step comes nearer to *)
(* the end.                                                                *)
(***************************************************************************)
EXTENDS Lexer, DataInduction

-----------------------------------------------------------------------------
(* The inductive invariant. *)

Texts == Seq(Char \cup {"backspace", "formfeed"})
Values == [form : {"none", "null", "string", "number"}, text : Texts]
Tokens == [kind : TokenKinds \cup {"Unknown"}, value : Values]
Entries ==
  [kind : TokenKinds, value : Values, from : Nat, to : Nat, begin : Positions, end : Positions]
Results ==
  [kind : Errors \cup {"none", "lexed", "undefined", "crashed"}, begin : Positions, end : Positions]

Typed ==
  /\ src \in Seq(Char) /\ Len(src) < SizeModulus
  /\ prev \in 0 .. Len(src) /\ cur \in prev .. Len(src)
  /\ cond \in {"Initial", "String", "Escape", "Comment", "LineComment"}
  /\ token \in Tokens /\ literal \in Texts
  /\ digit \in 0 .. ByteModulus - 1
  /\ tokens \in Seq(Entries)
  /\ pc \in {"token", "scan", "digits", "push", "end", "done"}
  /\ result \in Results
  /\ oom \in 0 .. MaxOOM

\* Where the scanner stands in the token it is in.
Stage ==
  /\ pc \in {"token", "end"} => cur = prev /\ cond = "Initial"
  /\ pc = "end" => cur = Len(src)
  /\ pc = "scan" /\ cond = "Initial" => cur = prev
  /\ pc \in {"scan", "digits"} /\ cond # "Initial" => prev < cur
  /\ pc = "push" => prev < cur /\ cond = "Initial" /\ token.kind # "Unknown"
  /\ pc = "digits" => cond = "String"
  /\ pc \in {"scan", "digits"} /\ cond \in {"Initial", "String", "Escape"} => token = UnknownToken
  /\ pc = "scan" /\ cond = "Comment" => token = [kind |-> "BlockComment", value |-> NoValue]
  /\ pc = "scan" /\ cond = "LineComment" =>
       token.kind \in {"LineComment", "DocumentationComment"} /\ token.value = NoValue
  /\ token.kind # "End"
  /\ pc # "done" => result = NoResult

-----------------------------------------------------------------------------
(* Positions. *)

\* The newlines up to a place are in the text, and the last of them is one.
LEMMA LastNewLineIs ==
  ASSUME src \in Seq(Char), NEW k \in Nat, NewLines(k) # {}
  PROVE  /\ LastNewLine(k) \in NewLines(k)
         /\ \A q \in NewLines(k) : q <= LastNewLine(k)
<1>1. NewLines(k) \subseteq 0 .. k
  BY DEF NewLines
<1>2. \E p \in NewLines(k) : \A q \in NewLines(k) : q <= p
  <2> HIDE DEF NewLines
  <2> QED
    BY <1>1, GreatestNatural, Zenon
<1> QED
  BY <1>2, Zenon DEF LastNewLine

\* A place's line is the number of newlines before it, which is not more than
\* its offset.
LEMMA LineBound ==
  ASSUME NEW k \in Nat
  PROVE  Line(k) \in 0 .. k
<1> DEFINE P == {p \in 0 .. k - 1 : src[p + 1] = "nl"}
<1>1. IsFiniteSet(0 .. k - 1) /\ Cardinality(0 .. k - 1) = k
  <2>1. 0 \in Int /\ k - 1 \in Int
    OBVIOUS
  <2>2. /\ IsFiniteSet(0 .. k - 1)
        /\ Cardinality(0 .. k - 1) = IF 0 > k - 1 THEN 0 ELSE (k - 1) - 0 + 1
    BY <2>1, FS_Interval, Zenon
  <2> QED
    BY <2>2
<1>2. P \subseteq 0 .. k - 1
  OBVIOUS
<1>3. IsFiniteSet(P) /\ Cardinality(P) <= Cardinality(0 .. k - 1)
  <2> HIDE DEF P
  <2> QED
    BY <1>1, <1>2, FS_Subset, Zenon
<1>4. Cardinality(P) \in Nat
  <2> HIDE DEF P
  <2> QED
    BY <1>3, FS_CardinalityType, Zenon
<1>5. Line(k) = Cardinality(P)
  BY DEF Line
<1> HIDE DEF P
<1> QED
  BY <1>1, <1>3, <1>4, <1>5

\* The columns of a place are not more than its offset.
LEMMA ColumnBound ==
  ASSUME src \in Seq(Char), NEW k \in Nat
  PROVE  Column(k) \in 0 .. k
<1>1. CASE NewLines(k) = {}
  BY <1>1 DEF Column
<1>2. CASE NewLines(k) # {}
  <2>1. LastNewLine(k) \in NewLines(k)
    BY <1>2, LastNewLineIs
  <2>2. LastNewLine(k) \in 0 .. k
    BY <2>1 DEF NewLines
  <2> QED
    BY <1>2, <2>2 DEF Column
<1> QED
  BY <1>1, <1>2

\* The remainder of a division by a positive number.
LEMMA Remainder ==
  ASSUME NEW a \in Int, NEW m \in Nat \ {0}
  PROVE  /\ a % m \in 0 .. m - 1
         /\ a \in 0 .. m - 1 => a % m = a
OBVIOUS

\* A place in a text that fits a size_t has a location that does.
LEMMA Placed ==
  ASSUME Typed, NEW k \in 0 .. Len(src)
  PROVE  /\ Position(Line(k), Column(k)) \in Positions
         /\ Position(Line(k), BeginColumn(k)) \in Positions
<1>1. k \in Nat /\ Len(src) < SizeModulus /\ Len(src) \in Nat /\ SizeModulus \in Nat \ {0} /\ src \in Seq(Char)
  BY ModuliAssumption DEF Typed
<1>2. Line(k) \in 0 .. k /\ Column(k) \in 0 .. k
  BY <1>1, LineBound, ColumnBound
<1>3. BeginColumn(k) \in Columns
  <2>1. CASE NewLines(k) = {}
    BY <1>1, <2>1 DEF BeginColumn, Columns
  <2>2. CASE NewLines(k) # {}
    <3>1. LastNewLine(k) \in NewLines(k)
      BY <1>1, <2>2, LastNewLineIs
    <3>2. LastNewLine(k) \in Int
      BY <3>1 DEF NewLines
    <3>3. k - LastNewLine(k) - 1 \in Int
      BY <1>1, <3>2
    <3>4. (k - LastNewLine(k) - 1) % SizeModulus \in 0 .. SizeModulus - 1
      BY <1>1, <3>3, Remainder
    <3> QED
      BY <2>2, <3>4 DEF BeginColumn, Columns
  <2> QED
    BY <2>1, <2>2
<1> QED
  BY <1>1, <1>2, <1>3 DEF Position, Positions, Columns

-----------------------------------------------------------------------------
(* The names of rules and tokens. *)

\* The nineteen rules, and the kinds of the tokens they make.
LEMMA RuleNames ==
  /\ DOMAIN Rules = 1 .. 19
  /\ {Rules[r] : r \in DOMAIN Rules} =
       { "DocumentationComment", "LineComment", "BlockComment", "MulOp", "DivOp", "I8TypeName",
         "VarArg", "Dot", "Id", "OctLiteral", "IntLiteral", "HexLiteral", "BinLiteral",
         "F32Literal", "F64Literal", "StringLiteral", "NewLine", "Whitespace", "Unrecognized" }
BY DEF Rules

\* Each rule that makes a token makes one of a kind there is.
LEMMA KindsOfRules ==
  ASSUME NEW r \in DOMAIN Rules, Rules[r] # "Unrecognized"
  PROVE  KindOf(Rules[r]) \in TokenKinds /\ KindOf(Rules[r]) \notin {"Unknown", "End"}
<1>1. Rules[r] \in {Rules[q] : q \in DOMAIN Rules}
  OBVIOUS
<1>2. Rules[r] \notin {"Unknown", "End", "UIntLiteral"}
  BY <1>1, RuleNames
<1>3. CASE Rules[r] \in UIntRules
  BY <1>3 DEF KindOf, TokenKinds
<1>4. CASE Rules[r] \notin UIntRules
  BY <1>1, <1>2, <1>4 DEF KindOf, TokenKinds
<1> QED
  BY <1>3, <1>4

\* The kinds the actions name.
LEMMA KindsNamed ==
  /\ {"DocumentationComment", "LineComment", "BlockComment", "StringLiteral", "End"} \subseteq TokenKinds
  /\ \A kind \in TokenKinds : kind \notin UIntRules \cup {"Unrecognized", "Unknown"}
<1>1. {"DocumentationComment", "LineComment", "BlockComment", "StringLiteral"}
        \subseteq {Rules[r] : r \in DOMAIN Rules}
  BY RuleNames
<1>2. \A kind \in {Rules[r] : r \in DOMAIN Rules} : kind # "Unknown"
  BY RuleNames
<1> QED
  BY <1>1, <1>2 DEF TokenKinds, UIntRules

\* A piece of the source is a text.
LEMMA TextIsText ==
  ASSUME Typed, NEW from \in 0 .. Len(src), NEW to \in from .. Len(src)
  PROVE  /\ Text(from, to) \in Seq(Char) /\ Text(from, to) \in Texts
         /\ Len(Text(from, to)) = to - from
         /\ \A j \in 1 .. to - from : Text(from, to)[j] = src[from + j]
<1>1. src \in Seq(Char) /\ Len(src) \in Nat
  BY DEF Typed
<1>2. Text(from, to) \in Seq(Char) /\ Len(Text(from, to)) = to - from
  BY <1>1 DEF Text
<1>3. \A j \in 1 .. to - from : Text(from, to)[j] = src[from + j]
  BY <1>1 DEF Text
<1> QED
  BY <1>2, <1>3 DEF Texts

\* The simple values.
LEMMA SimpleValues ==
  /\ NoValue \in Values /\ NullValue \in Values
  /\ \A s \in Texts : Value("string", s) \in Values /\ Value("number", s) \in Values
  /\ Unset \in Positions /\ NoResult \in Results /\ UnknownToken \in Tokens
<1>1. NoValue \in Values /\ NullValue \in Values
  BY DEF NoValue, NullValue, Value, Values, Texts
<1>2. \A s \in Texts : Value("string", s) \in Values /\ Value("number", s) \in Values
  BY DEF Value, Values
<1>3. Unset \in Positions
  BY ModuliAssumption DEF Unset, Position, Positions, Columns
<1> QED
  BY <1>1, <1>2, <1>3 DEF NoResult, Results, UnknownToken, Tokens

\* The greatest of some offsets.
LEMMA LongestIs ==
  ASSUME NEW b \in Nat, NEW T, T \subseteq 0 .. b, T # {}
  PROVE  Longest(T) \in T /\ \A m \in T : m <= Longest(T)
<1>1. \E n \in T : \A m \in T : m <= n
  BY GreatestNatural, Zenon
<1> QED
  BY <1>1, Zenon DEF Longest

\* A number's conversion stops within the source, and not before it began.
LEMMA ReadEndsBound ==
  ASSUME Typed, NEW rule, NEW from \in 0 .. Len(src), NEW to \in from + 1 .. Len(src),
         NEW end \in ReadEnds(rule, from, to)
  PROVE  end \in from .. Len(src)
<1>1. Len(src) \in Nat
  BY DEF Typed
<1>2. CASE rule = "F64Literal"
  <2> DEFINE T == Exponent(to) \cup {to}
  <2>1. T \subseteq 0 .. Len(src) /\ T # {} /\ \A m \in T : m >= from
    BY <1>1 DEF Exponent
  <2>2. end = Longest(T)
    BY <1>2 DEF ReadEnds
  <2>3. Longest(T) \in T
    <3> HIDE DEF T
    <3> QED
      BY <1>1, <2>1, LongestIs
  <2>4. end \in 0 .. Len(src) /\ end >= from
    <3> HIDE DEF T
    <3> QED
      BY <2>1, <2>2, <2>3
  <2> QED
    BY <1>1, <2>4
<1>3. CASE rule = "BinLiteral"
  <2>1. end \in {from + 1, to}
    BY <1>3 DEF ReadEnds
  <2> QED
    BY <1>1, <2>1
<1>4. CASE rule \notin {"F64Literal", "BinLiteral"}
  <2>1. end \in {to}
    BY <1>4 DEF ReadEnds
  <2> QED
    BY <1>1, <2>1
<1> QED
  BY <1>2, <1>3, <1>4

-----------------------------------------------------------------------------
(* The actions keep the types. *)

\* A new entry is well typed.
LEMMA EntryTyped ==
  ASSUME Typed, token.kind \in TokenKinds, NEW from \in 0 .. Len(src), NEW to \in 0 .. Len(src)
  PROVE  NewEntry(from, to) \in Entries
<1>1. token.value \in Values /\ from \in Nat /\ to \in Nat
  BY DEF Typed, Tokens
<1>2. /\ Position(Line(from), BeginColumn(from)) \in Positions
      /\ Position(Line(to), Column(to)) \in Positions
  BY Placed
<1> QED
  BY <1>1, <1>2 DEF NewEntry, Entries

\* An error about characters of the source is well typed.
LEMMA ErrorTyped ==
  ASSUME Typed, NEW kind \in Errors, NEW n \in Nat, cur + n <= Len(src), Error(kind, n)
  PROVE  Typed' /\ pc' = "done" /\ result'.kind = kind
<1>1. prev \in 0 .. Len(src) /\ cur + n \in 0 .. Len(src)
  BY DEF Typed
<1>2. result' \in Results /\ result'.kind = kind
  BY <1>1, Placed DEF Error, Return, Results
<1> QED
  BY <1>2 DEF Error, Return, Typed

\* A match moves YYCURSOR on, and not past the end.
LEMMA Moved ==
  ASSUME Typed, NEW n \in Nat, n <= Len(src) - cur
  PROVE  cur + n \in prev .. Len(src) /\ cur \in Nat /\ prev \in Nat /\ Len(src) \in Nat
BY DEF Typed

\* The scanner's turns in the initial condition keep the types.
LEMMA ScanInitialTyped == Typed /\ Stage /\ ScanInitial => Typed'
<1> SUFFICES ASSUME Typed, Stage, ScanInitial
             PROVE  Typed'
  OBVIOUS
<1>1. PICK r \in DOMAIN Rules, n \in Lengths :
        /\ Match(r, n)
        /\ \/ BeginComment(Rules[r], n) \/ BeginString(Rules[r], n) \/ Simple(Rules[r], n)
           \/ Number(Rules[r], n) \/ Unrecognized(Rules[r], n)
  BY DEF ScanInitial
<1>2. n \in Nat /\ n > 0 /\ n <= Len(src) - cur /\ pc = "scan" /\ cond = "Initial" /\ cur = prev
  BY <1>1 DEF Lengths, Match, Stage, Typed
<1>3. cur + n \in prev .. Len(src) /\ cur \in 0 .. Len(src) /\ prev \in 0 .. Len(src)
  BY <1>2, Moved DEF Typed
<1>4. CASE BeginComment(Rules[r], n)
  <2>1. Rules[r] \in TokenKinds /\ token'.kind = Rules[r] /\ token' \in Tokens
    BY <1>4, KindsNamed DEF BeginComment, CommentRules, Typed, Tokens
  <2>2. cond' \in {"Comment", "LineComment"} /\ cur' = cur + n
    BY <1>4 DEF BeginComment, Turn
  <2> QED
    BY <1>3, <1>4, <2>1, <2>2 DEF BeginComment, Turn, Typed
<1>5. CASE BeginString(Rules[r], n)
  BY <1>3, <1>5 DEF BeginString, Turn, Continue, Typed
<1>6. CASE Simple(Rules[r], n)
  <2>1. Rules[r] \in TokenKinds
    BY <1>6, KindsOfRules DEF Simple, Special, NumberRules, KindOf
  <2>2. token' \in Tokens
    BY <1>6, <2>1, SimpleValues DEF Simple, Complete, Tokens
  <2> QED
    BY <1>3, <1>6, <2>2 DEF Simple, Turn, Complete, Typed
<1>7. CASE Number(Rules[r], n)
  <2>1. Rules[r] # "Unrecognized"
    BY <1>7 DEF Number, NumberRules, UIntRules
  <2>2. KindOf(Rules[r]) \in TokenKinds
    BY <2>1, KindsOfRules
  <2>3. PICK end \in ReadEnds(Rules[r], prev, cur + n) :
          Extension(KindOf(Rules[r]), Value("number", Text(prev, end)))
    BY <1>7 DEF Number
  <2>4. cur + n \in prev + 1 .. Len(src)
    BY <1>2, <1>3
  <2>5. end \in prev .. Len(src)
    BY <1>3, <2>4, ReadEndsBound
  <2>6. Value("number", Text(prev, end)) \in Values
    BY <1>3, <2>5, TextIsText, SimpleValues
  <2>7. token' \in Tokens /\ pc' = "push" /\ oom' \in 0 .. MaxOOM
    BY <2>2, <2>3, <2>6, SimpleValues, MaxOOMAssumption DEF Extension, Complete, Tokens, Typed
  <2> QED
    BY <1>3, <1>7, <2>7 DEF Number, Turn, Typed
<1>8. CASE Unrecognized(Rules[r], n)
  BY <1>2, <1>8, <1>3, ErrorTyped DEF Unrecognized, Errors
<1> QED
  BY <1>1, <1>4, <1>5, <1>6, <1>7, <1>8

\* A turn of one or two characters that leaves the token alone.
LEMMA TurnTyped ==
  ASSUME Typed, NEW n \in Nat, n <= Len(src) - cur,
         NEW c \in {"Initial", "String", "Escape", "Comment", "LineComment"}, Turn(n, c),
         token' \in Tokens, literal' \in Texts, oom' \in 0 .. MaxOOM,
         pc' \in {"token", "scan", "digits", "push", "end", "done"}
  PROVE  Typed'
<1>1. cur + n \in prev .. Len(src)
  BY Moved
<1> QED
  BY <1>1 DEF Turn, Typed

\* Where there is a character, there is one.
LEMMA CharAhead ==
  ASSUME Typed, ~AtEnd
  PROVE  Char0 \in Char /\ 1 <= Len(src) - cur /\ cur + 1 \in 1 .. Len(src)
BY DEF Typed, AtEnd, Char0

\* Every step keeps the types.
LEMMA TypedNext == Typed /\ Stage /\ [Next]_vars => Typed'
<1> SUFFICES ASSUME Typed, Stage, [Next]_vars
             PROVE  Typed'
  OBVIOUS
<1>1. CASE NewToken
  BY <1>1, SimpleValues DEF NewToken, Typed, Texts
<1>2. CASE ScanInitial
  BY <1>2, ScanInitialTyped
<1>3. CASE EndOfInput
  BY <1>3 DEF EndOfInput, Typed
<1>4. CASE StringEnd
  <2>1. Value("string", literal) \in Values /\ "StringLiteral" \in TokenKinds
    BY SimpleValues, KindsNamed DEF Typed
  <2>2. token' \in Tokens /\ pc' = "push" /\ oom' \in 0 .. MaxOOM
    BY <1>4, <2>1, SimpleValues, MaxOOMAssumption DEF StringEnd, Extension, Complete, Tokens, Typed
  <2> QED
    BY <1>4, <2>2, TurnTyped, CharAhead DEF StringEnd, Typed
<1>5. CASE Backslash
  <2>1. token' \in Tokens /\ literal' \in Texts /\ oom' \in 0 .. MaxOOM /\ pc' = "scan"
    BY <1>5 DEF Backslash, Scan, Continue, Typed
  <2> QED
    BY <1>5, <2>1, TurnTyped, CharAhead DEF Backslash
<1>6. CASE StringError
  <2>1. cur \in Nat /\ cur <= Len(src)
    BY DEF Typed
  <2>2. ~AtEnd => cur + 1 <= Len(src)
    BY CharAhead
  <2> QED
    BY <1>6, <2>1, <2>2, ErrorTyped DEF StringError, Errors
<1>7. CASE StringChar
  <2>1. PICK c \in Char \cup {"backspace", "formfeed"} : PushChar(c) /\ ~AtEnd /\ pc = "scan"
    <3>1. CASE PlainChar /\ PushChar(Char0)
      BY <3>1, CharAhead DEF PlainChar, Scan
    <3>2. CASE SimpleEscape /\ PushChar(Escaped[Char0])
      <4>1. Escaped[Char0] \in Char \cup {"backspace", "formfeed"}
        BY <3>2 DEF SimpleEscape, Escaped, Char, Letter
      <4> QED
        BY <3>2, <4>1 DEF SimpleEscape, Scan
    <3> QED
      BY <1>7, <3>1, <3>2 DEF StringChar
  <2>2. literal' \in Texts /\ token' \in Tokens /\ oom' \in 0 .. MaxOOM /\ pc' = "scan"
    BY <2>1 DEF PushChar, Continue, Texts, Typed
  <2> QED
    BY <2>1, <2>2, TurnTyped, CharAhead DEF PushChar
<1>8. CASE BeginNumericEscape
  <2>1. cur' \in cur + 1 .. Len(src)
    BY <1>8 DEF BeginNumericEscape, NumericLengths, Typed
  <2>2. digit' \in 0 .. ByteModulus - 1
    BY <1>8, ModuliAssumption DEF BeginNumericEscape
  <2> QED
    BY <1>8, <2>1, <2>2 DEF BeginNumericEscape, Typed
<1>9. CASE NextDigit
  <2>1. (digit + 1) % ByteModulus \in 0 .. ByteModulus - 1
    <3>1. digit + 1 \in Int /\ ByteModulus \in Nat \ {0}
      BY ModuliAssumption DEF Typed
    <3> QED
      BY <3>1, Remainder
  <2> QED
    BY <1>9, <2>1 DEF NextDigit, Typed
<1>10. CASE Undefined
  <2>1. result' \in Results
    BY <1>10, SimpleValues DEF Undefined, Return, Ended, NoResult, Results
  <2> QED
    BY <1>10, <2>1 DEF Undefined, Return, Typed
<1>11. CASE EscapeError
  BY <1>11, ErrorTyped DEF EscapeError, Errors, Typed
<1>12. CASE CommentEnd
  <2>1. 2 <= Len(src) - cur
    BY <1>12 DEF CommentEnd, Closes, Typed
  <2>2. token' \in Tokens /\ literal' \in Texts /\ oom' \in 0 .. MaxOOM /\ pc' = "push"
    BY <1>12 DEF CommentEnd, Typed
  <2> QED
    BY <1>12, <2>1, <2>2, TurnTyped DEF CommentEnd
<1>13. CASE CommentChar
  <2>1. token' \in Tokens /\ literal' \in Texts /\ oom' \in 0 .. MaxOOM /\ pc' = "scan"
    BY <1>13 DEF CommentChar, Scan, Continue, Typed
  <2> QED
    BY <1>13, <2>1, TurnTyped, CharAhead DEF CommentChar
<1>14. CASE CommentError
  BY <1>14, ErrorTyped DEF CommentError, Errors, Typed
<1>15. CASE LineCommentEnd
  <2>1. token' \in Tokens /\ literal' \in Texts /\ oom' \in 0 .. MaxOOM /\ pc' = "push"
    BY <1>15 DEF LineCommentEnd, Typed
  <2>2. 0 <= Len(src) - cur
    BY DEF Typed
  <2> QED
    BY <1>15, <2>1, <2>2, TurnTyped, CharAhead DEF LineCommentEnd
<1>16. CASE LineCommentChar
  <2>1. token' \in Tokens /\ literal' \in Texts /\ oom' \in 0 .. MaxOOM /\ pc' = "scan"
    BY <1>16 DEF LineCommentChar, Scan, Continue, Typed
  <2> QED
    BY <1>16, <2>1, TurnTyped, CharAhead DEF LineCommentChar
<1>17. CASE Push
  <2>1. token.kind \in TokenKinds /\ prev \in 0 .. Len(src) /\ cur \in 0 .. Len(src)
    BY <1>17 DEF Push, Stage, Typed, Tokens
  <2>2. NewEntry(prev, cur) \in Entries
    BY <2>1, EntryTyped
  <2> QED
    BY <1>17, <2>1, <2>2 DEF Push, Typed
<1>18. CASE PushEnd
  <2> DEFINE e == [kind |-> "End", value |-> NoValue, from |-> cur, to |-> cur, begin |-> Unset, end |-> Unset]
  <2>1. e \in Entries
    BY SimpleValues, KindsNamed DEF Entries, Typed
  <2>2. result' \in Results
    BY <1>18, SimpleValues DEF PushEnd, Ended, NoResult, Results
  <2> QED
    BY <1>18, <2>1, <2>2 DEF PushEnd, Typed
<1>19. CASE EndTokenNull
  <2>1. result' \in Results
    BY <1>19, SimpleValues DEF EndTokenNull, Return, Ended, NoResult, Results
  <2> QED
    BY <1>19, <2>1, MaxOOMAssumption DEF EndTokenNull, Return, Typed
<1>20. CASE OutOfMemory
  <2>1. Position(0, 0) \in Positions
    BY ModuliAssumption DEF Position, Positions, Columns
  <2>2. result' \in Results
    BY <1>20, <2>1 DEF OutOfMemory, Return, Results, Errors
  <2> QED
    BY <1>20, <2>2, MaxOOMAssumption DEF OutOfMemory, Return, Typed
<1>21. CASE UNCHANGED vars
  BY <1>21 DEF vars, Typed
<1> QED
  BY <1>1, <1>2, <1>3, <1>4, <1>5, <1>6, <1>7, <1>8, <1>9, <1>10, <1>11, <1>12, <1>13, <1>14,
     <1>15, <1>16, <1>17, <1>18, <1>19, <1>20, <1>21 DEF Next, Lex, Terminating

-----------------------------------------------------------------------------
(* The stages. *)

\* A step that returns leaves no stage.
LEMMA ReturnStage ==
  ASSUME Stage, NEW r, Return(r)
  PROVE  Stage'
BY DEF Return, Stage

\* A step of the scanner within a token.
LEMMA TurnStage ==
  ASSUME Typed, Stage, pc = "scan", NEW n \in Nat, n <= Len(src) - cur,
         NEW c \in {"String", "Escape", "Comment", "LineComment"}, Turn(n, c),
         n > 0, Continue, c \in {"String", "Escape"} <=> cond \in {"Initial", "String", "Escape"},
         cond \in {"Comment", "LineComment"} => c = cond
  PROVE  Stage'
<1>1. prev < cur + n /\ pc' = "scan" /\ token' = token
  <2>1. prev \in Nat /\ cur \in Nat /\ prev <= cur
    BY DEF Typed
  <2> QED
    BY <2>1 DEF Continue
<1>2. cond' = c /\ result' = NoResult /\ token.kind # "End"
  BY DEF Turn, Stage
<1>3. CASE c \in {"String", "Escape"}
  <2>1. token = UnknownToken
    BY <1>3 DEF Stage
  <2> QED
    BY <1>1, <1>2, <1>3, <2>1 DEF Turn, Stage
<1>4. CASE c \in {"Comment", "LineComment"}
  <2>1. cond = c
    BY <1>4 DEF Typed
  <2>2. /\ c = "Comment" => token = [kind |-> "BlockComment", value |-> NoValue]
        /\ c = "LineComment" =>
             token.kind \in {"LineComment", "DocumentationComment"} /\ token.value = NoValue
    BY <2>1 DEF Stage
  <2> QED
    BY <1>1, <1>2, <1>4, <2>2 DEF Turn, Stage
<1> QED
  BY <1>3, <1>4

\* A step that completes a token.
LEMMA CompleteStage ==
  ASSUME Typed, Stage, pc = "scan", NEW n \in Nat, Turn(n, "Initial"), prev < cur + n,
         pc' = "push", token'.kind \notin {"Unknown", "End"}
  PROVE  Stage'
BY DEF Turn, Stage

\* Every step leads from stage to stage.
LEMMA StageNext == Typed /\ Stage /\ [Next]_vars => Stage'
<1> SUFFICES ASSUME Typed, Stage, [Next]_vars
             PROVE  Stage'
  OBVIOUS
<1>0. prev \in Nat /\ cur \in Nat /\ prev <= cur /\ Len(src) \in Nat /\ cur <= Len(src)
  BY DEF Typed
<1>1. CASE NewToken
  BY <1>1 DEF NewToken, Stage, UnknownToken
<1>2. CASE ScanInitial
  <2>1. PICK r \in DOMAIN Rules, n \in Lengths :
          /\ Match(r, n)
          /\ \/ BeginComment(Rules[r], n) \/ BeginString(Rules[r], n) \/ Simple(Rules[r], n)
             \/ Number(Rules[r], n) \/ Unrecognized(Rules[r], n)
    BY <1>2 DEF ScanInitial
  <2>2. n \in Nat /\ n > 0 /\ pc = "scan" /\ cond = "Initial" /\ token = UnknownToken /\ prev < cur + n
        /\ n <= Len(src) - cur
    BY <1>0, <2>1 DEF Match, Stage, Lengths
  <2>3. CASE BeginComment(Rules[r], n)
    BY <2>2, <2>3 DEF BeginComment, CommentRules, Turn, Stage, UnknownToken
  <2>4. CASE BeginString(Rules[r], n)
    BY <2>2, <2>4, TurnStage DEF BeginString
  <2>5. CASE Simple(Rules[r], n)
    <3>1. Rules[r] \notin {"Unknown", "End"}
      BY <2>5, KindsOfRules DEF Simple, Special, NumberRules, KindOf
    <3>2. token'.kind = Rules[r] /\ pc' = "push" /\ Turn(n, "Initial")
      BY <2>5 DEF Simple, Complete
    <3> QED
      BY <2>2, <3>1, <3>2, CompleteStage
  <2>6. CASE Number(Rules[r], n)
    <3>1. Rules[r] # "Unrecognized"
      BY <2>6 DEF Number, NumberRules, UIntRules
    <3>2. token'.kind = KindOf(Rules[r]) /\ pc' = "push" /\ Turn(n, "Initial")
      BY <2>6 DEF Number, Extension, Complete
    <3>3. token'.kind \notin {"Unknown", "End"}
      BY <3>1, <3>2, KindsOfRules
    <3> QED
      BY <2>2, <3>2, <3>3, CompleteStage
  <2>7. CASE Unrecognized(Rules[r], n)
    BY <2>7, ReturnStage DEF Unrecognized, Error
  <2> QED
    BY <2>1, <2>3, <2>4, <2>5, <2>6, <2>7
<1>3. CASE EndOfInput
  BY <1>3 DEF EndOfInput, Scan, AtEnd, Stage
<1>4. CASE StringEnd
  <2>1. token'.kind = "StringLiteral" /\ pc' = "push"
    BY <1>4 DEF StringEnd, Extension, Complete
  <2>2. pc = "scan" /\ Turn(1, "Initial") /\ prev < cur + 1
    BY <1>0, <1>4 DEF StringEnd, Scan
  <2> QED
    BY <2>1, <2>2, CompleteStage
<1>5. CASE Backslash
  <2>1. pc = "scan" /\ cond = "String" /\ Turn(1, "Escape") /\ Continue /\ 1 <= Len(src) - cur
    BY <1>5, CharAhead DEF Backslash, Scan
  <2> QED
    BY <2>1, TurnStage
<1>6. CASE StringError
  BY <1>6, ReturnStage DEF StringError, Error
<1>7. CASE StringChar
  <2>1. pc = "scan" /\ cond \in {"String", "Escape"} /\ Turn(1, "String") /\ Continue /\ 1 <= Len(src) - cur
    BY <1>7, CharAhead DEF StringChar, PlainChar, SimpleEscape, Scan, PushChar
  <2> QED
    BY <2>1, TurnStage
<1>8. CASE BeginNumericEscape
  <2>1. cur' \in Nat /\ cur' > cur /\ pc' = "digits" /\ cond' = "String" /\ UNCHANGED << src, prev, token, result >>
    BY <1>0, <1>8 DEF BeginNumericEscape, NumericLengths
  <2>2. token = UnknownToken /\ result = NoResult /\ token.kind # "End"
    BY <1>8 DEF BeginNumericEscape, Scan, Stage
  <2>3. prev' < cur'
    BY <1>0, <2>1
  <2> QED
    BY <2>1, <2>2, <2>3 DEF Stage
<1>9. CASE NextDigit
  BY <1>9 DEF NextDigit, Stage
<1>10. CASE Undefined
  BY <1>10, ReturnStage DEF Undefined
<1>11. CASE EscapeError \/ CommentError
  BY <1>11, ReturnStage DEF EscapeError, CommentError, Error
<1>12. CASE CommentEnd
  <2>1. pc = "scan" /\ cond = "Comment" /\ Turn(2, "Initial") /\ pc' = "push" /\ token' = token
    BY <1>12 DEF CommentEnd, Scan
  <2>2. token'.kind = "BlockComment" /\ prev < cur + 2
    BY <1>0, <2>1 DEF Stage
  <2> QED
    BY <2>1, <2>2, CompleteStage
<1>13. CASE CommentChar
  <2>1. pc = "scan" /\ cond = "Comment" /\ Turn(1, "Comment") /\ Continue /\ 1 <= Len(src) - cur
    BY <1>13, CharAhead DEF CommentChar, Scan
  <2> QED
    BY <2>1, TurnStage
<1>14. CASE LineCommentEnd
  <2>1. PICK n \in {0, 1} : Turn(n, "Initial")
    BY <1>14 DEF LineCommentEnd
  <2>2. pc = "scan" /\ cond = "LineComment" /\ pc' = "push" /\ token' = token
    BY <1>14 DEF LineCommentEnd, Scan
  <2>3. token'.kind \notin {"Unknown", "End"} /\ prev < cur + n
    BY <1>0, <2>1, <2>2 DEF Stage
  <2> QED
    BY <2>1, <2>2, <2>3, CompleteStage
<1>15. CASE LineCommentChar
  <2>1. pc = "scan" /\ cond = "LineComment" /\ Turn(1, "LineComment") /\ Continue /\ 1 <= Len(src) - cur
    BY <1>15, CharAhead DEF LineCommentChar, Scan
  <2> QED
    BY <2>1, TurnStage
<1>16. CASE Push
  BY <1>16 DEF Push, Stage
<1>17. CASE PushEnd
  BY <1>17 DEF PushEnd, Stage
<1>18. CASE EndTokenNull \/ OutOfMemory
  BY <1>18, ReturnStage DEF EndTokenNull, OutOfMemory
<1>19. CASE UNCHANGED vars
  BY <1>19 DEF vars, Stage
<1> QED
  BY <1>1, <1>2, <1>3, <1>4, <1>5, <1>6, <1>7, <1>8, <1>9, <1>10, <1>11, <1>12, <1>13, <1>14,
     <1>15, <1>16, <1>17, <1>18, <1>19 DEF Next, Lex, Terminating

-----------------------------------------------------------------------------
(* The tokens lie side by side. *)

\* A step but for the two that add a token leaves the list alone, and lex does
\* not succeed in it.
LEMMA ListKept ==
  ASSUME [Next]_vars, ~Push, ~PushEnd, Stage
  PROVE  /\ UNCHANGED << src, prev, tokens >>
         /\ result'.kind = "lexed" <=> result.kind = "lexed"
<1>1. CASE NewToken \/ EndOfInput \/ BeginNumericEscape \/ NextDigit
  BY <1>1 DEF NewToken, EndOfInput, BeginNumericEscape, NextDigit
<1>2. ASSUME NEW n, NEW c, Turn(n, c)
      PROVE  UNCHANGED << src, prev, tokens, result >>
  BY <1>2 DEF Turn
<1>3. ASSUME NEW kind, kind # "lexed", NEW n, Error(kind, n), pc # "done"
      PROVE  UNCHANGED << src, prev, tokens >> /\ result'.kind # "lexed" /\ result.kind # "lexed"
  BY <1>3 DEF Error, Return, Stage, NoResult
<1>4. ASSUME NEW r, r.kind # "lexed", Return(r), pc # "done"
      PROVE  UNCHANGED << src, prev, tokens >> /\ result'.kind # "lexed" /\ result.kind # "lexed"
  BY <1>4 DEF Return, Stage, NoResult
<1>5. CASE ScanInitial
  <2>1. PICK r \in DOMAIN Rules, n \in Lengths :
          /\ Match(r, n)
          /\ \/ BeginComment(Rules[r], n) \/ BeginString(Rules[r], n) \/ Simple(Rules[r], n)
             \/ Number(Rules[r], n) \/ Unrecognized(Rules[r], n)
    BY <1>5 DEF ScanInitial
  <2>2. pc # "done"
    BY <2>1 DEF Match
  <2> QED
    BY <1>2, <1>3, <2>1, <2>2 DEF BeginComment, BeginString, Simple, Number, Unrecognized
<1>6. CASE StringEnd \/ Backslash \/ StringChar \/ CommentEnd \/ CommentChar \/ LineCommentEnd \/ LineCommentChar
  BY <1>2, <1>6 DEF StringEnd, Backslash, StringChar, PushChar, CommentEnd, CommentChar,
                    LineCommentEnd, LineCommentChar
<1>7. CASE StringError \/ EscapeError \/ CommentError
  BY <1>3, <1>7 DEF StringError, EscapeError, CommentError, Scan
<1>8. CASE Undefined
  <2>1. pc # "done" /\ Return(Ended("undefined"))
    BY <1>8 DEF Undefined, DigitsRead, NoRule, Scan
  <2>2. Ended("undefined").kind # "lexed"
    BY DEF Ended, NoResult
  <2> QED
    BY <1>4, <2>1, <2>2
<1>9. CASE EndTokenNull
  <2>1. pc # "done" /\ Return(Ended("crashed"))
    BY <1>9 DEF EndTokenNull
  <2>2. Ended("crashed").kind # "lexed"
    BY DEF Ended, NoResult
  <2> QED
    BY <1>4, <2>1, <2>2
<1>10. CASE OutOfMemory
  <2>1. pc # "done"
    BY <1>10 DEF OutOfMemory, Allocates, PlainChar, SimpleEscape, DigitsRead, Scan
  <2> QED
    BY <1>4, <1>10, <2>1 DEF OutOfMemory
<1>11. CASE UNCHANGED vars
  BY <1>11 DEF vars
<1> QED
  BY <1>1, <1>5, <1>6, <1>7, <1>8, <1>9, <1>10, <1>11 DEF Next, Lex, Terminating

\* Adding a token that begins where the list ends keeps the tokens side by side.
LEMMA TileAppend ==
  ASSUME Typed, TokensTile, result.kind # "lexed", NEW e \in Entries,
         tokens' = Append(tokens, e), e.from = prev, prev' = e.to,
         e.kind # "End" => e.from < e.to,
         e.kind = "End" <=> result'.kind = "lexed",
         result'.kind = "lexed" => prev' = Len(src'), UNCHANGED src
  PROVE  TokensTile'
<1>1. tokens \in Seq(Entries) /\ tokens' \in Seq(Entries) /\ Len(tokens) \in Nat
  BY DEF Typed
<1>2. /\ DOMAIN tokens = 1 .. Len(tokens) /\ DOMAIN tokens' = 1 .. Len(tokens) + 1
      /\ Len(tokens') = Len(tokens) + 1 /\ tokens'[Len(tokens) + 1] = e
      /\ \A k \in DOMAIN tokens : tokens'[k] = tokens[k]
  BY <1>1
<1>3. ASSUME NEW k \in DOMAIN tokens'
      PROVE  /\ tokens'[k].from = (IF k = 1 THEN 0 ELSE tokens'[k - 1].to)
             /\ tokens'[k].kind # "End" => tokens'[k].from < tokens'[k].to
             /\ tokens'[k].kind = "End" <=> result'.kind = "lexed" /\ k = Len(tokens')
  <2>1. CASE k = Len(tokens) + 1
    <3>1. tokens'[k] = e
      BY <1>2, <2>1
    <3>2. k # 1 => tokens # << >> /\ k - 1 = Len(tokens) /\ k - 1 \in DOMAIN tokens
      BY <1>1, <1>2, <2>1
    <3>3. k = 1 => tokens = << >>
      BY <1>1, <2>1
    <3>4. e.from = (IF k = 1 THEN 0 ELSE tokens'[k - 1].to)
      BY <1>2, <3>2, <3>3 DEF TokensTile
    <3> QED
      BY <1>2, <2>1, <3>1, <3>4
  <2>2. CASE k \in DOMAIN tokens
    <3>1. tokens'[k] = tokens[k] /\ k # Len(tokens') /\ (k # 1 => tokens'[k - 1] = tokens[k - 1])
      BY <1>1, <1>2, <2>2
    <3>2. /\ tokens[k].from = (IF k = 1 THEN 0 ELSE tokens[k - 1].to)
          /\ tokens[k].kind # "End" => tokens[k].from < tokens[k].to
          /\ tokens[k].kind # "End"
      BY <2>2 DEF TokensTile
    <3> QED
      BY <3>1, <3>2
  <2> QED
    BY <1>1, <1>2, <1>3, <2>1, <2>2
<1>4. prev' = (IF tokens' = << >> THEN 0 ELSE tokens'[Len(tokens')].to)
  BY <1>1, <1>2
<1> QED
  BY <1>3, <1>4 DEF TokensTile

\* Every step keeps the tokens side by side.
LEMMA TileNext == Typed /\ Stage /\ TokensTile /\ [Next]_vars => TokensTile'
<1> SUFFICES ASSUME Typed, Stage, TokensTile, [Next]_vars
             PROVE  TokensTile'
  OBVIOUS
<1>1. CASE Push
  <2>1. result = NoResult /\ result' = NoResult /\ token.kind \in TokenKinds /\ token.kind # "End" /\ prev < cur
    BY <1>1 DEF Push, Stage, Typed, Tokens
  <2>2. NewEntry(prev, cur) \in Entries
    BY <2>1, EntryTyped DEF Typed
  <2>3. NewEntry(prev, cur).from = prev /\ NewEntry(prev, cur).to = cur /\ NewEntry(prev, cur).kind = token.kind
    BY DEF NewEntry
  <2>4. result.kind # "lexed" /\ result'.kind # "lexed"
    BY <2>1 DEF NoResult
  <2> QED
    BY <1>1, <2>1, <2>2, <2>3, <2>4, TileAppend DEF Push
<1>2. CASE PushEnd
  <2> DEFINE e == [kind |-> "End", value |-> NoValue, from |-> cur, to |-> cur, begin |-> Unset, end |-> Unset]
  <2>1. result.kind # "lexed" /\ cur = prev /\ cur = Len(src)
    BY <1>2 DEF PushEnd, Stage, NoResult
  <2>2. result'.kind = "lexed" /\ prev' = cur /\ src' = src /\ tokens' = Append(tokens, e)
    BY <1>2, <2>1 DEF PushEnd, Ended, NoResult
  <2>3. e \in Entries
    BY SimpleValues, KindsNamed DEF Entries, Typed
  <2>4. e.from = prev /\ prev' = e.to /\ e.kind = "End"
    BY <2>1, <2>2
  <2> HIDE DEF e
  <2> QED
    BY <2>1, <2>2, <2>3, <2>4, TileAppend
<1>3. CASE ~Push /\ ~PushEnd
  <2>1. UNCHANGED << src, prev, tokens >> /\ (result'.kind = "lexed" <=> result.kind = "lexed")
    BY <1>3, ListKept
  <2> QED
    BY <2>1 DEF TokensTile
<1> QED
  BY <1>1, <1>2, <1>3

-----------------------------------------------------------------------------
(* Locations. *)

\* The newlines before a place are finitely many; the next place has one more
\* before it when a newline is between them.
LEMMA LineStep ==
  ASSUME src \in Seq(Char), NEW k \in 1 .. Len(src)
  PROVE  Line(k) = (IF src[k] = "nl" THEN Line(k - 1) + 1 ELSE Line(k - 1))
<1> DEFINE P == {p \in 0 .. k - 2 : src[p + 1] = "nl"}
<1> DEFINE Q == {p \in 0 .. k - 1 : src[p + 1] = "nl"}
<1>1. k \in Nat /\ k > 0 /\ (k - 1) - 1 = k - 2
  OBVIOUS
<1>2. Line(k) = Cardinality(Q) /\ Line(k - 1) = Cardinality(P)
  BY <1>1 DEF Line
<1>3. IsFiniteSet(P)
  <2>1. 0 \in Int /\ k - 2 \in Int
    BY <1>1
  <2>2. IsFiniteSet(0 .. k - 2)
    BY <2>1, FS_Interval, Zenon
  <2>3. P \subseteq 0 .. k - 2
    OBVIOUS
  <2> HIDE DEF P
  <2> QED
    BY <2>2, <2>3, FS_Subset, Zenon
<1>4. CASE src[k] = "nl"
  <2>1. Q = P \cup {k - 1} /\ k - 1 \notin P
    BY <1>1, <1>4
  <2>2. Cardinality(P \cup {k - 1}) = Cardinality(P) + 1
    <3> HIDE DEF P
    <3> QED
      BY <1>3, <2>1, FS_AddElement, Zenon
  <2> HIDE DEF P, Q
  <2> QED
    BY <1>2, <1>4, <2>1, <2>2
<1>5. CASE src[k] # "nl"
  <2>1. Q = P
    BY <1>1, <1>5
  <2> HIDE DEF P, Q
  <2> QED
    BY <1>2, <1>5, <2>1
<1> QED
  BY <1>4, <1>5

\* The last newline up to a place, recognised.
LEMMA LastNewLineAt ==
  ASSUME src \in Seq(Char), NEW k \in Nat, NEW p \in NewLines(k), \A q \in NewLines(k) : q <= p
  PROVE  LastNewLine(k) = p
<1>1. LastNewLine(k) \in NewLines(k) /\ \A q \in NewLines(k) : q <= LastNewLine(k)
  BY LastNewLineIs
<1>2. p \in Int /\ LastNewLine(k) \in Int
  BY <1>1 DEF NewLines
<1>3. p <= LastNewLine(k) /\ LastNewLine(k) <= p
  BY <1>1
<1> QED
  BY <1>2, <1>3

\* The characters between the last newline before a place and the place.
Since(k) ==
  IF k = 0 \/ NewLines(k - 1) = {} THEN k ELSE k - LastNewLine(k - 1) - 1

\* A newline begins a line, and any other character is a column further.
LEMMA SinceStep ==
  ASSUME src \in Seq(Char), NEW k \in 1 .. Len(src)
  PROVE  Since(k) = (IF src[k] = "nl" THEN 0 ELSE Since(k - 1) + 1)
<1>1. k \in Nat /\ k - 1 \in Nat /\ k > 0 /\ k - 1 \in 0 .. Len(src) - 1 /\ (k - 1) + 1 = k /\ Len(src) \in Nat
  OBVIOUS
<1>2. CASE src[k] = "nl"
  <2>1. k - 1 \in NewLines(k - 1) /\ \A q \in NewLines(k - 1) : q <= k - 1
    BY <1>1, <1>2 DEF NewLines
  <2>2. LastNewLine(k - 1) = k - 1
    BY <1>1, <2>1, LastNewLineAt
  <2> QED
    BY <1>1, <1>2, <2>1, <2>2 DEF Since
<1>3. CASE src[k] # "nl" /\ k = 1
  <2>1. NewLines(k - 1) = {}
    BY <1>1, <1>3 DEF NewLines
  <2> QED
    BY <1>3, <2>1 DEF Since
<1>4. CASE src[k] # "nl" /\ k > 1
  <2>1. NewLines(k - 1) = NewLines((k - 1) - 1)
    BY <1>1, <1>4 DEF NewLines
  <2>2. CASE NewLines(k - 1) = {}
    BY <1>1, <1>4, <2>1, <2>2 DEF Since
  <2>3. CASE NewLines(k - 1) # {}
    <3>1. /\ LastNewLine(k - 1) \in NewLines(k - 1)
          /\ \A q \in NewLines(k - 1) : q <= LastNewLine(k - 1)
      BY <1>1, <2>3, LastNewLineIs
    <3>2. LastNewLine((k - 1) - 1) = LastNewLine(k - 1)
      <4>1. (k - 1) - 1 \in Nat
        BY <1>1, <1>4
      <4> QED
        BY <2>1, <3>1, <4>1, LastNewLineAt
    <3>3. LastNewLine(k - 1) \in Int
      BY <3>1 DEF NewLines
    <3> QED
      BY <1>1, <1>4, <2>1, <2>3, <3>2, <3>3 DEF Since
  <2> QED
    BY <2>2, <2>3
<1> QED
  BY <1>1, <1>2, <1>3, <1>4

\* A place's position is its line and the characters since that line began:
\* what the recursive definition of PositionAt comes to.
LEMMA PositionAtIs ==
  ASSUME src \in Seq(Char)
  PROVE  \A k \in 0 .. Len(src) : PositionAt[k] = Position(Line(k), Since(k))
<1>1. Len(src) \in Nat
  OBVIOUS
<1> DEFINE G == [k \in 0 .. Len(src) |-> Position(Line(k), Since(k))]
<1> DEFINE Step(f, k) == IF k = 0 THEN Position(0, 0)
                         ELSE IF src[k] = "nl" THEN Position(f[k - 1].line + 1, 0)
                         ELSE Position(f[k - 1].line, f[k - 1].column + 1)
<1>2. ASSUME NEW k \in 0 .. Len(src)
      PROVE  G[k] = Step(G, k)
  <2>1. CASE k = 0
    <3>1. Line(0) = 0
      <4>1. Line(0) \in 0 .. 0
        BY LineBound
      <4> QED
        BY <4>1
    <3>2. Since(0) = 0
      BY DEF Since
    <3> QED
      BY <2>1, <3>1, <3>2, <1>1
  <2>2. CASE k # 0
    <3>1. k \in 1 .. Len(src) /\ k - 1 \in 0 .. Len(src)
      BY <1>1, <2>2
    <3>2. /\ Line(k) = (IF src[k] = "nl" THEN Line(k - 1) + 1 ELSE Line(k - 1))
          /\ Since(k) = (IF src[k] = "nl" THEN 0 ELSE Since(k - 1) + 1)
      BY <3>1, LineStep, SinceStep
    <3>3. G[k - 1].line = Line(k - 1) /\ G[k - 1].column = Since(k - 1)
      BY <3>1 DEF Position
    <3> QED
      BY <2>2, <3>2, <3>3
  <2> QED
    BY <2>1, <2>2
<1>3. G = [k \in 0 .. Len(src) |-> Step(G, k)]
  BY <1>2
<1>4. PositionAt = [k \in 0 .. Len(src) |-> Step(PositionAt, k)]
  <2> HIDE DEF G
  <2> QED
    BY <1>3, Zenon DEF PositionAt
<1> DEFINE S == {k \in Nat : k <= Len(src) => PositionAt[k] = G[k]}
<1>5. 0 \in S
  <2>1. 0 \in 0 .. Len(src)
    BY <1>1
  <2> QED
    BY <1>2, <1>4, <2>1
<1>6. ASSUME NEW k \in Nat, k \in S
      PROVE  k + 1 \in S
  <2>1. CASE k + 1 <= Len(src)
    <3>1. k + 1 \in 0 .. Len(src) /\ (k + 1) - 1 = k /\ k + 1 # 0 /\ k <= Len(src)
      BY <1>1, <2>1
    <3>2. PositionAt[k] = G[k]
      BY <1>6, <3>1
    <3>3. PositionAt[k + 1] = Step(PositionAt, k + 1) /\ G[k + 1] = Step(G, k + 1)
      <4>1. G[k + 1] = Step(G, k + 1)
        BY <1>2, <3>1
      <4>2. PositionAt[k + 1] = Step(PositionAt, k + 1)
        BY <1>4, <3>1
      <4> QED
        BY <4>1, <4>2
    <3>4. Step(PositionAt, k + 1) = Step(G, k + 1)
      <4> HIDE DEF G
      <4> QED
        BY <3>1, <3>2
    <3> HIDE DEF G, Step
    <3> QED
      BY <3>3, <3>4
  <2> QED
    BY <2>1
<1>7. \A k \in Nat : k \in S
  <2> HIDE DEF S
  <2> QED
    BY <1>5, <1>6, NaturalsByInduction, Zenon
<1>8. ASSUME NEW k \in 0 .. Len(src)
      PROVE  PositionAt[k] = Position(Line(k), Since(k))
  <2>1. k \in Nat /\ k <= Len(src)
    BY <1>1
  <2>2. PositionAt[k] = G[k]
    <3> HIDE DEF G
    <3> QED
      BY <1>7, <2>1
  <2> QED
    BY <2>2
<1> QED
  BY <1>8

-----------------------------------------------------------------------------
(* What a rule's text is like. *)

\* A number with a dot has at least three characters, the first a digit.
LEMMA DecimalFirst ==
  ASSUME NEW s \in Seq(Char), Decimal(s)
  PROVE  Len(s) >= 3 /\ s[1] \in Digit
<1>1. PICK d \in 2 .. Len(s) - 1 : All(SubSeq(s, 1, d - 1), Digit)
  BY DEF Decimal
<1>2. Len(s) \in Nat /\ d \in Nat /\ d >= 2 /\ d <= Len(s) - 1
  OBVIOUS
<1>3. 1 \in DOMAIN SubSeq(s, 1, d - 1) /\ SubSeq(s, 1, d - 1)[1] = s[1]
  BY <1>2
<1>4. SubSeq(s, 1, d - 1)[1] \in Digit
  BY <1>1, <1>3, Zenon DEF All
<1>5. Len(s) >= 3
  BY <1>2
<1> QED
  BY <1>3, <1>4, <1>5

\* What the rules without a fixed text match.
LEMMA OpenRules ==
  ASSUME NEW s
  PROVE  /\ Matches("Id", s) <=> s[1] \in Letter /\ All(s, Letter \cup Digit)
         /\ Matches("OctLiteral", s) <=> Len(s) > 1 /\ s[1] = "0" /\ All(s, Octal)
         /\ Matches("IntLiteral", s) <=> All(s, Digit)
         /\ Matches("HexLiteral", s) <=>
              Len(s) > 2 /\ s[1] = "0" /\ s[2] = "x" /\ All(SubSeq(s, 3, Len(s)), Hex)
         /\ Matches("BinLiteral", s) <=>
              Len(s) > 2 /\ s[1] = "0" /\ s[2] = "b" /\ All(SubSeq(s, 3, Len(s)), Binary)
         /\ Matches("F32Literal", s) <=> s[Len(s)] = "f" /\ Decimal(SubSeq(s, 1, Len(s) - 1))
         /\ Matches("F64Literal", s) <=> Decimal(s)
         /\ Matches("Whitespace", s) <=> All(s, {"sp"})
         /\ Matches("Unrecognized", s) <=> Len(s) = 1
BY DEF Matches, FixedText

\* What the others match.
LEMMA FixedRules ==
  ASSUME NEW s
  PROVE  /\ Matches("DocumentationComment", s) <=> s = << "/", "/", "/" >>
         /\ Matches("LineComment", s) <=> s = << "/", "/" >>
         /\ Matches("BlockComment", s) <=> s = << "/", "*" >>
         /\ Matches("MulOp", s) <=> s = << "*" >>
         /\ Matches("DivOp", s) <=> s = << "/" >>
         /\ Matches("I8TypeName", s) <=> s = << "i", "8" >>
         /\ Matches("VarArg", s) <=> s = << ".", ".", "." >>
         /\ Matches("Dot", s) <=> s = << "." >>
         /\ Matches("StringLiteral", s) <=> s = << "quote" >>
         /\ Matches("NewLine", s) <=> s = << "nl" >>
BY DEF Matches, FixedText

\* No text begins with a newline but a newline itself.
LEMMA FirstCharacter ==
  ASSUME NEW s \in Seq(Char), Len(s) > 0, NEW r \in DOMAIN Rules, Matches(Rules[r], s),
         Rules[r] \notin {"NewLine", "Unrecognized"}
  PROVE  s[1] # "nl"
<1>1. 1 \in DOMAIN s
  OBVIOUS
<1>2. Rules[r] \in { "DocumentationComment", "LineComment", "BlockComment", "MulOp", "DivOp", "I8TypeName",
         "VarArg", "Dot", "Id", "OctLiteral", "IntLiteral", "HexLiteral", "BinLiteral",
         "F32Literal", "F64Literal", "StringLiteral", "NewLine", "Whitespace", "Unrecognized" }
  BY RuleNames
<1>3. CASE Rules[r] \in {"DocumentationComment", "LineComment", "BlockComment", "MulOp", "DivOp",
                         "I8TypeName", "VarArg", "Dot", "StringLiteral"}
  BY <1>3, FixedRules
<1>4. CASE Rules[r] \in {"Id", "OctLiteral", "IntLiteral", "HexLiteral", "BinLiteral", "Whitespace"}
  BY <1>1, <1>4, OpenRules DEF All, Letter, Digit
<1>5. CASE Rules[r] = "F32Literal"
  <2>1. SubSeq(s, 1, Len(s) - 1) \in Seq(Char) /\ Decimal(SubSeq(s, 1, Len(s) - 1))
    BY <1>5, OpenRules
  <2>2. Len(SubSeq(s, 1, Len(s) - 1)) >= 3 /\ SubSeq(s, 1, Len(s) - 1)[1] \in Digit
    BY <2>1, DecimalFirst
  <2>3. SubSeq(s, 1, Len(s) - 1)[1] = s[1]
    BY <2>2
  <2> QED
    BY <2>2, <2>3 DEF Digit
<1>6. CASE Rules[r] = "F64Literal"
  BY <1>6, OpenRules, DecimalFirst DEF Digit
<1> QED
  BY <1>2, <1>3, <1>4, <1>5, <1>6

\* A match, as a text: what it is, that no earlier rule matches it, and that no
\* rule matches a longer one.
LEMMA MatchIs ==
  ASSUME Typed, NEW r \in DOMAIN Rules, NEW n \in Lengths, Match(r, n)
  PROVE  /\ Text(cur, cur + n) \in Seq(Char) /\ Len(Text(cur, cur + n)) = n
         /\ n \in Nat /\ n > 0 /\ cur + n <= Len(src) /\ cur \in 0 .. Len(src)
         /\ \A j \in 1 .. n : Text(cur, cur + n)[j] = src[cur + j]
         /\ Matches(Rules[r], Text(cur, cur + n))
<1>1. n \in Nat /\ n > 0 /\ cur + n <= Len(src) /\ cur \in 0 .. Len(src) /\ Len(src) \in Nat
  BY DEF Lengths, Typed
<1>2. cur + n \in cur .. Len(src) /\ (cur + n) - cur = n
  BY <1>1
<1>3. /\ Text(cur, cur + n) \in Seq(Char) /\ Len(Text(cur, cur + n)) = n
      /\ \A j \in 1 .. n : Text(cur, cur + n)[j] = src[cur + j]
  BY <1>1, <1>2, TextIsText
<1> QED
  BY <1>1, <1>3 DEF Match, Fits

\* A match of the initial condition does not begin with a newline, unless that
\* is what it is.
LEMMA MatchBegins ==
  ASSUME Typed, NEW r \in DOMAIN Rules, NEW n \in Lengths, Match(r, n), Rules[r] # "NewLine"
  PROVE  src[cur + 1] # "nl"
<1> DEFINE s == Text(cur, cur + n)
<1>1. s \in Seq(Char) /\ Len(s) = n /\ n \in Nat /\ n > 0 /\ Matches(Rules[r], s)
  BY MatchIs
<1>2. s[1] = src[cur + 1]
  <2>1. 1 \in 1 .. n
    BY <1>1
  <2> QED
    BY <2>1, MatchIs
<1>3. CASE Rules[r] # "Unrecognized"
  <2> HIDE DEF s
  <2> QED
    BY <1>1, <1>2, <1>3, FirstCharacter
<1>4. CASE Rules[r] = "Unrecognized"
  <2>1. r = 19 /\ Rules[17] = "NewLine" /\ 17 \in 1 .. r - 1
    BY <1>4 DEF Rules
  <2>2. ~Matches(Rules[17], s)
    BY <2>1 DEF Match, Fits
  <2>3. s # << "nl" >>
    BY <2>1, <2>2, FixedRules
  <2>4. Len(s) = 1
    BY <1>1, <1>4, OpenRules
  <2> HIDE DEF s
  <2>5. s = << s[1] >>
    BY <1>1, <2>4
  <2> QED
    BY <1>2, <2>3, <2>5
<1> QED
  BY <1>3, <1>4

-----------------------------------------------------------------------------
(* Locations are right. *)

\* Nothing but a newline begins with a newline.
Begun ==
  /\ pc \in {"scan", "digits"} /\ cond # "Initial" => src[prev + 1] # "nl"
  /\ pc = "push" /\ token.kind # "NewLine" => src[prev + 1] # "nl"

\* The place a lexical error is about does not begin with a newline.
ErrorPlace ==
  result.kind \in Errors \ {"OutOfMemory"} =>
    /\ prev < Len(src) /\ src[prev + 1] # "nl"
    /\ result.begin = Position(Line(prev), Column(prev))

\* What the proof of LocationsRight adds to the stages.
Located ==
  \A k \in DOMAIN tokens :
    tokens[k].kind \notin {"NewLine", "End"} => tokens[k].begin = PositionAt[tokens[k].from]

\* A place without a newline has a usable column: for a token's begin the right
\* one, for an error's one too many on every line but the first.
LEMMA ColumnsThere ==
  ASSUME Typed, NEW k \in 0 .. Len(src) - 1, src[k + 1] # "nl"
  PROVE  /\ Position(Line(k), BeginColumn(k)) = PositionAt[k]
         /\ Column(k) = (IF PositionAt[k].line = 0 THEN PositionAt[k].column
                         ELSE PositionAt[k].column + 1)
         /\ Line(k) = PositionAt[k].line
<1>1. /\ src \in Seq(Char) /\ Len(src) \in Nat /\ k \in 0 .. Len(src) /\ k \in Nat /\ Len(src) < SizeModulus
      /\ SizeModulus \in Nat \ {0}
  BY ModuliAssumption DEF Typed
<1>2. PositionAt[k] = Position(Line(k), Since(k))
  BY <1>1, PositionAtIs
<1>3. PositionAt[k].line = Line(k) /\ PositionAt[k].column = Since(k)
  BY <1>2 DEF Position
<1>4. BeginColumn(k) = Since(k) /\ Column(k) = (IF Line(k) = 0 THEN Since(k) ELSE Since(k) + 1)
  <2>1. CASE NewLines(k) = {}
    <3>1. Since(k) = k
      <4>1. CASE k = 0
        BY <4>1 DEF Since
      <4>2. CASE k # 0
        <5>1. NewLines(k - 1) = {}
          BY <1>1, <2>1, <4>2 DEF NewLines
        <5> QED
          BY <4>2, <5>1 DEF Since
      <4> QED
        BY <4>1, <4>2
    <3>2. Line(k) = 0
      <4> DEFINE P == {p \in 0 .. k - 1 : src[p + 1] = "nl"}
      <4>1. P = {}
        BY <1>1, <2>1 DEF NewLines
      <4>2. Cardinality(P) = 0
        BY <4>1, FS_EmptySet
      <4> QED
        BY <4>2 DEF Line
    <3> QED
      BY <2>1, <3>1, <3>2 DEF BeginColumn, Column
  <2>2. CASE NewLines(k) # {}
    <3>1. LastNewLine(k) \in NewLines(k) /\ \A q \in NewLines(k) : q <= LastNewLine(k)
      BY <1>1, <2>2, LastNewLineIs
    <3>2. LastNewLine(k) \in 0 .. k - 1 /\ src[LastNewLine(k) + 1] = "nl"
      BY <1>1, <3>1 DEF NewLines
    <3>3. k # 0 /\ k - 1 \in Nat /\ NewLines(k - 1) = NewLines(k)
      BY <1>1, <3>2 DEF NewLines
    <3>4. LastNewLine(k - 1) = LastNewLine(k)
      BY <1>1, <3>1, <3>3, LastNewLineAt
    <3>5. Since(k) = k - LastNewLine(k) - 1
      BY <2>2, <3>3, <3>4 DEF Since
    <3>6. Since(k) \in 0 .. SizeModulus - 1
      BY <1>1, <3>2, <3>5
    <3>7. BeginColumn(k) = Since(k)
      <4>1. k - LastNewLine(k) - 1 \in Int
        BY <1>1, <3>2
      <4>2. (k - LastNewLine(k) - 1) % SizeModulus = k - LastNewLine(k) - 1
        BY <1>1, <3>5, <3>6, <4>1, Remainder
      <4> QED
        BY <2>2, <3>5, <4>2 DEF BeginColumn
    <3>8. Column(k) = Since(k) + 1
      BY <1>1, <2>2, <3>2, <3>5 DEF Column
    <3>9. Line(k) # 0
      <4> DEFINE P == {p \in 0 .. k - 1 : src[p + 1] = "nl"}
      <4>1. LastNewLine(k) \in P
        BY <3>2
      <4>2. IsFiniteSet(P)
        <5>1. 0 \in Int /\ k - 1 \in Int
          BY <1>1
        <5>2. IsFiniteSet(0 .. k - 1)
          BY <5>1, FS_Interval, Zenon
        <5>3. P \subseteq 0 .. k - 1
          OBVIOUS
        <5> HIDE DEF P
        <5> QED
          BY <5>2, <5>3, FS_Subset, Zenon
      <4>3. Cardinality(P) # 0
        <5> HIDE DEF P
        <5> QED
          BY <4>1, <4>2, FS_EmptySet, Zenon
      <4> QED
        BY <4>3 DEF Line
    <3> QED
      BY <3>7, <3>8, <3>9
  <2> QED
    BY <2>1, <2>2
<1> QED
  BY <1>2, <1>3, <1>4

\* Within a token, what it begins with does not change.
LEMMA BegunKept ==
  ASSUME Begun, pc \in {"scan", "digits"}, cond # "Initial", UNCHANGED << src, prev >>
  PROVE  Begun'
BY DEF Begun

\* Every step keeps what tokens begin with.
LEMMA BegunNext == Typed /\ Stage /\ Begun /\ [Next]_vars => Begun'
<1> SUFFICES ASSUME Typed, Stage, Begun, [Next]_vars
             PROVE  Begun'
  OBVIOUS
<1>1. CASE NewToken
  BY <1>1 DEF NewToken, Stage, Begun
<1>2. CASE ScanInitial
  <2>1. PICK r \in DOMAIN Rules, n \in Lengths :
          /\ Match(r, n)
          /\ \/ BeginComment(Rules[r], n) \/ BeginString(Rules[r], n) \/ Simple(Rules[r], n)
             \/ Number(Rules[r], n) \/ Unrecognized(Rules[r], n)
    BY <1>2 DEF ScanInitial
  <2>2. cur = prev /\ (Rules[r] # "NewLine" => src[cur + 1] # "nl")
    BY <2>1, MatchBegins DEF Match, Stage
  <2>3. CASE Unrecognized(Rules[r], n)
    BY <2>3 DEF Unrecognized, Error, Return, Begun
  <2>4. CASE ~Unrecognized(Rules[r], n)
    <3>1. UNCHANGED << src, prev >>
      BY <2>1, <2>4 DEF BeginComment, BeginString, Simple, Number, Turn
    <3>2. Rules[r] = "NewLine" => token'.kind = "NewLine" /\ pc' = "push"
      BY <2>1, <2>4 DEF BeginComment, CommentRules, BeginString, Simple, Complete, Number, NumberRules, UIntRules
    <3> QED
      BY <2>2, <3>1, <3>2 DEF Begun
  <2> QED
    BY <2>3, <2>4
<1>3. CASE EndOfInput
  BY <1>3 DEF EndOfInput, Begun
<1>4. CASE StringEnd \/ Backslash \/ StringChar \/ BeginNumericEscape \/ CommentEnd \/ CommentChar
           \/ LineCommentEnd \/ LineCommentChar
  <2>1. pc = "scan" /\ cond # "Initial" /\ UNCHANGED << src, prev >>
    BY <1>4 DEF StringEnd, Backslash, StringChar, PlainChar, SimpleEscape, PushChar, BeginNumericEscape,
                CommentEnd, CommentChar, LineCommentEnd, LineCommentChar, Scan, Turn
  <2> QED
    BY <2>1, BegunKept
<1>5. CASE NextDigit
  BY <1>5, BegunKept DEF NextDigit, Stage
<1>6. CASE StringError \/ Undefined \/ EscapeError \/ CommentError \/ EndTokenNull \/ OutOfMemory
  BY <1>6 DEF StringError, Undefined, EscapeError, CommentError, EndTokenNull, OutOfMemory, Error, Return, Begun
<1>7. CASE Push
  BY <1>7 DEF Push, Begun
<1>8. CASE PushEnd
  BY <1>8 DEF PushEnd, Begun
<1>9. CASE UNCHANGED vars
  BY <1>9 DEF vars, Begun
<1> QED
  BY <1>1, <1>2, <1>3, <1>4, <1>5, <1>6, <1>7, <1>8, <1>9 DEF Next, Lex, Terminating

\* A lexical error is about the place it says.
LEMMA ErrorPlaceNext == Typed /\ Stage /\ Begun /\ ErrorPlace /\ [Next]_vars => ErrorPlace'
<1> SUFFICES ASSUME Typed, Stage, Begun, ErrorPlace, [Next]_vars
             PROVE  ErrorPlace'
  OBVIOUS
<1>1. ASSUME result' = NoResult \/ UNCHANGED vars
      PROVE  ErrorPlace'
  <2>1. CASE result' = NoResult
    BY <2>1 DEF ErrorPlace, NoResult, Errors
  <2>2. CASE UNCHANGED vars
    <3>1. UNCHANGED << src, prev, result >>
      BY <2>2 DEF vars
    <3>2. UNCHANGED << Line(prev), Column(prev) >>
      BY <3>1 DEF Line, Column, NewLines, LastNewLine
    <3> QED
      BY <3>1, <3>2 DEF ErrorPlace
  <2> QED
    BY <1>1, <2>1, <2>2
<1>2. ASSUME NEW kind, NEW n, Error(kind, n), src[prev + 1] # "nl", prev < Len(src)
      PROVE  ErrorPlace'
  <2>1. /\ result' = [ kind |-> kind, begin |-> Position(Line(prev), Column(prev)),
                       end |-> Position(Line(cur + n), Column(cur + n)) ]
        /\ UNCHANGED << src, prev >>
    BY <1>2 DEF Error, Return
  <2>2. result'.begin = Position(Line(prev), Column(prev))'
    BY <2>1 DEF Line, Column, NewLines, LastNewLine
  <2> QED
    BY <1>2, <2>1, <2>2 DEF ErrorPlace
<1>3. pc \in {"scan", "digits"} /\ cond # "Initial" => src[prev + 1] # "nl" /\ prev < Len(src)
  BY DEF Begun, Stage, Typed
<1>4. pc # "done" => result = NoResult
  BY DEF Stage
<1>5. CASE ScanInitial
  <2>1. PICK r \in DOMAIN Rules, n \in Lengths :
          /\ Match(r, n)
          /\ \/ BeginComment(Rules[r], n) \/ BeginString(Rules[r], n) \/ Simple(Rules[r], n)
             \/ Number(Rules[r], n) \/ Unrecognized(Rules[r], n)
    BY <1>5 DEF ScanInitial
  <2>2. CASE Unrecognized(Rules[r], n)
    <3>1. cur = prev /\ src[cur + 1] # "nl" /\ cur < Len(src)
      BY <2>1, <2>2, MatchBegins, MatchIs DEF Match, Stage, Unrecognized
    <3> QED
      BY <1>2, <2>2, <3>1 DEF Unrecognized
  <2>3. CASE ~Unrecognized(Rules[r], n)
    <3>1. result' = result
      BY <2>1, <2>3 DEF BeginComment, BeginString, Simple, Number, Turn
    <3> QED
      BY <1>1, <1>4, <2>1, <3>1 DEF Match
  <2> QED
    BY <2>2, <2>3
<1>6. CASE StringError \/ EscapeError \/ CommentError
  BY <1>2, <1>3, <1>6 DEF StringError, EscapeError, CommentError, Scan
<1>7. CASE Undefined \/ EndTokenNull \/ OutOfMemory \/ PushEnd
  <2>1. result'.kind \notin Errors \ {"OutOfMemory"}
    BY <1>7 DEF Undefined, EndTokenNull, OutOfMemory, PushEnd, Return, Ended, NoResult, Errors
  <2> QED
    BY <2>1 DEF ErrorPlace
<1>8. CASE NewToken \/ EndOfInput \/ BeginNumericEscape \/ NextDigit \/ Push
  BY <1>1, <1>4, <1>8 DEF NewToken, EndOfInput, BeginNumericEscape, NextDigit, Push, Scan
<1>9. CASE StringEnd \/ Backslash \/ StringChar \/ CommentEnd \/ CommentChar \/ LineCommentEnd \/ LineCommentChar
  BY <1>1, <1>4, <1>9 DEF StringEnd, Backslash, StringChar, PlainChar, SimpleEscape, PushChar,
        CommentEnd, CommentChar, LineCommentEnd, LineCommentChar, Scan, Turn
<1>10. CASE UNCHANGED vars
  BY <1>1, <1>10
<1> QED
  BY <1>5, <1>6, <1>7, <1>8, <1>9, <1>10 DEF Next, Lex, Terminating

\* A token that is added names the place it begins at.
LEMMA LocatedNext == Typed /\ Stage /\ Begun /\ Located /\ [Next]_vars => Located'
<1> SUFFICES ASSUME Typed, Stage, Begun, Located, [Next]_vars
             PROVE  Located'
  OBVIOUS
<1>1. ASSUME UNCHANGED src
      PROVE  PositionAt' = PositionAt
  BY <1>1 DEF PositionAt
<1>2. ASSUME NEW e, tokens' = Append(tokens, e), UNCHANGED src,
             e.kind \notin {"NewLine", "End"} => e.begin = PositionAt[e.from]
      PROVE  Located'
  <2>1. tokens \in Seq(Entries) /\ PositionAt' = PositionAt
    BY <1>1, <1>2 DEF Typed
  <2>2. /\ DOMAIN tokens' = DOMAIN tokens \cup {Len(tokens) + 1}
        /\ tokens'[Len(tokens) + 1] = e /\ \A k \in DOMAIN tokens : tokens'[k] = tokens[k]
    BY <1>2, <2>1
  <2> QED
    BY <1>2, <2>1, <2>2 DEF Located
<1>3. CASE Push
  <2>1. prev \in 0 .. Len(src) - 1 /\ (token.kind # "NewLine" => src[prev + 1] # "nl")
    BY <1>3 DEF Push, Stage, Begun, Typed
  <2>2. token.kind # "NewLine" => Position(Line(prev), BeginColumn(prev)) = PositionAt[prev]
    BY <2>1, ColumnsThere
  <2>3. /\ NewEntry(prev, cur).kind = token.kind /\ NewEntry(prev, cur).from = prev
        /\ NewEntry(prev, cur).begin = Position(Line(prev), BeginColumn(prev))
    BY DEF NewEntry
  <2> QED
    BY <1>2, <1>3, <2>2, <2>3 DEF Push
<1>4. CASE PushEnd
  BY <1>2, <1>4 DEF PushEnd
<1>5. CASE ~Push /\ ~PushEnd
  <2>1. UNCHANGED << src, tokens >>
    BY <1>5, ListKept
  <2> QED
    BY <1>1, <2>1 DEF Located
<1> QED
  BY <1>3, <1>4, <1>5

-----------------------------------------------------------------------------
(* The theorems. *)

IInv == Typed /\ Stage /\ TokensTile /\ Begun /\ ErrorPlace /\ Located

\* The inductive invariant holds in every reachable state.
THEOREM Invariance == Spec => []IInv
<1>1. ASSUME Init
      PROVE  IInv
  <2>1. src \in Seq(Char) /\ Len(src) < SizeModulus /\ Len(src) \in Nat
    BY <1>1, SourcesAssumption DEF Init
  <2>2. Typed
    BY <1>1, <2>1, SimpleValues, ModuliAssumption, MaxOOMAssumption DEF Init, Typed, Texts
  <2>3. Stage
    BY <1>1 DEF Init, Stage, UnknownToken
  <2>4. TokensTile
    BY <1>1 DEF Init, TokensTile, NoResult
  <2>5. Begun /\ ErrorPlace /\ Located
    BY <1>1 DEF Init, Begun, ErrorPlace, Located, NoResult, Errors
  <2> QED
    BY <2>2, <2>3, <2>4, <2>5 DEF IInv
<1>2. ASSUME IInv, [Next]_vars
      PROVE  IInv'
  BY <1>2, TypedNext, StageNext, TileNext, BegunNext, ErrorPlaceNext, LocatedNext DEF IInv
<1> QED
  BY <1>1, <1>2, PTL DEF Spec

\* The variables keep their types, and every token and every error has a
\* location that a size_t can hold.
THEOREM TypeCorrect == Spec => []TypeOK
<1>1. ASSUME Typed
      PROVE  TypeOK
  <2>1. token.kind \in TokenKinds \cup {"Unknown"} /\ Chars(token.value) /\ Chars([text |-> literal])
    BY <1>1 DEF Typed, Tokens, Values, Texts, Chars
  <2>2. ASSUME NEW k \in DOMAIN tokens
        PROVE  /\ tokens[k].kind \in TokenKinds /\ Chars(tokens[k].value)
               /\ {tokens[k].begin, tokens[k].end} \subseteq Positions
    <3>1. tokens[k] \in Entries
      BY <1>1 DEF Typed
    <3> QED
      BY <3>1 DEF Entries, Values, Texts, Chars
  <2>3. /\ result.kind \in Errors \cup {"none", "lexed", "undefined", "crashed"}
        /\ {result.begin, result.end} \subseteq Positions
    BY <1>1 DEF Typed, Results
  <2> QED
    BY <1>1, <2>1, <2>2, <2>3 DEF Typed, TypeOK
<1> QED
  BY <1>1, Invariance, PTL DEF IInv

\* The tokens are the whole text from the first character on, in pieces that
\* are not empty, and the End token is the last and comes with success only.
THEOREM TokensAreTheText == Spec => []TokensTile
BY Invariance, PTL DEF IInv

\* Every token a message may name begins where its location says, and a lexical
\* error names its line, for every text and any width of a size.
THEOREM LocationsAreRight == Spec => []LocationsRight
<1>1. ASSUME Typed, Located, ErrorPlace
      PROVE  LocationsRight
  <2>1. ASSUME result.kind \in Errors \ {"OutOfMemory"}
        PROVE  result.begin = Position(PositionAt[prev].line,
                 IF PositionAt[prev].line = 0 THEN PositionAt[prev].column ELSE PositionAt[prev].column + 1)
    <3>1. prev \in 0 .. Len(src) - 1 /\ src[prev + 1] # "nl"
      BY <1>1, <2>1 DEF ErrorPlace, Typed
    <3> QED
      BY <1>1, <2>1, <3>1, ColumnsThere DEF ErrorPlace
  <2> QED
    BY <1>1, <2>1 DEF LocationsRight, Located
<1> QED
  BY <1>1, Invariance, PTL DEF IInv

-----------------------------------------------------------------------------
(* The tokens are as written. *)

\* No block comment ends with its character at any of these places.
NotClosed(places) == \A j \in places : j < Len(src) => ~(src[j] = "*" /\ src[j + 1] = "/")

\* What is known of the characters of a comment that has begun.
CommentBegun ==
  /\ cond = "Comment" =>
       /\ prev + 2 <= cur /\ src[prev + 1] = "/" /\ src[prev + 2] = "*"
       /\ NotClosed(prev + 3 .. cur)
  /\ cond = "LineComment" =>
       /\ prev + 2 <= cur /\ src[prev + 1] = "/" /\ src[prev + 2] = "/"
       /\ \A j \in prev + 1 .. cur : src[j] # "nl"
       /\ token.kind = "DocumentationComment" <=> prev + 3 <= Len(src) /\ src[prev + 3] = "/"
       /\ token.kind = "DocumentationComment" => prev + 3 <= cur

\* No character of s ends it as a string.
Unended(s) ==
  /\ Len(s) > 0 /\ s[1] = "quote"
  /\ \A j \in 2 .. Len(s) : s[j] # "nl" /\ ~(s[j] = "quote" /\ ~Escapes(s, j - 1))

\* What is known of a string that has begun: the condition tells whether the
\* next character is escaped.
StringBegun ==
  cond \in {"String", "Escape"} =>
    /\ Unended(Text(prev, cur))
    /\ Escapes(Text(prev, cur), cur - prev) <=> cond = "Escape"

\* A token reads as its kind when it is complete.
Written ==
  /\ pc = "scan" => CommentBegun /\ StringBegun
  /\ pc = "push" => AsWritten(token.kind, prev, cur)

\* A piece of the source, one character longer.
LEMMA TextLonger ==
  ASSUME Typed, NEW from \in 0 .. Len(src), NEW to \in from .. Len(src) - 1
  PROVE  /\ Text(from, to + 1) = Append(Text(from, to), src[to + 1])
         /\ src[to + 1] \in Char
<1>1. src \in Seq(Char) /\ Len(src) \in Nat /\ to + 1 \in 1 .. Len(src)
  BY DEF Typed
<1> QED
  BY <1>1 DEF Text

\* A longer text of the same characters.
LEMMA AllLonger ==
  ASSUME NEW s \in Seq(Char), NEW chars, All(s, chars), NEW c \in Char, c \in chars
  PROVE  All(Append(s, c), chars)
<1>1. ASSUME NEW j \in DOMAIN Append(s, c)
      PROVE  Append(s, c)[j] \in chars
  <2>1. j \in DOMAIN s \/ j = Len(s) + 1
    OBVIOUS
  <2>2. CASE j \in DOMAIN s
    <3>1. Append(s, c)[j] = s[j]
      BY <2>2
    <3> QED
      BY <2>2, <3>1 DEF All
  <2>3. CASE j = Len(s) + 1
    BY <2>3
  <2> QED
    BY <2>1, <2>2, <2>3
<1> QED
  BY <1>1 DEF All

\* The characters from a place on, of a longer text.
LEMMA SuffixLonger ==
  ASSUME NEW s \in Seq(Char), NEW c \in Char, NEW i \in 1 .. Len(s) + 1
  PROVE  SubSeq(Append(s, c), i, Len(Append(s, c))) = Append(SubSeq(s, i, Len(s)), c)
OBVIOUS

\* A fraction goes on with a digit.
LEMMA DecimalLonger ==
  ASSUME NEW s \in Seq(Char), Decimal(s), NEW c \in Digit
  PROVE  Decimal(Append(s, c))
<1>1. PICK d \in 2 .. Len(s) - 1 :
        s[d] = "." /\ All(SubSeq(s, 1, d - 1), Digit) /\ All(SubSeq(s, d + 1, Len(s)), Digit)
  BY DEF Decimal
<1>2. c \in Char
  BY DEF Char
<1>3. d \in 2 .. Len(Append(s, c)) - 1 /\ Append(s, c)[d] = "."
  BY <1>1, <1>2
<1>4. SubSeq(Append(s, c), 1, d - 1) = SubSeq(s, 1, d - 1)
  BY <1>1, <1>2
<1>5. SubSeq(Append(s, c), d + 1, Len(Append(s, c))) = Append(SubSeq(s, d + 1, Len(s)), c)
  <2>1. d + 1 \in 1 .. Len(s) + 1
    BY <1>1
  <2> QED
    BY <1>2, <2>1, SuffixLonger
<1>6. All(Append(SubSeq(s, d + 1, Len(s)), c), Digit)
  <2>1. SubSeq(s, d + 1, Len(s)) \in Seq(Char)
    BY <1>1
  <2> QED
    BY <1>1, <1>2, <2>1, AllLonger
<1> QED
  BY <1>1, <1>3, <1>4, <1>5, <1>6 DEF Decimal

\* Of what a rule matches and any character that follows, no rule matches the
\* whole: no token goes on.
LEMMA LongestMatch ==
  ASSUME Typed, NEW r \in DOMAIN Rules, NEW n \in Lengths, Match(r, n), cur + n # Len(src),
         NEW q \in DOMAIN Rules
  PROVE  /\ ~Matches(Rules[q], Append(Text(cur, cur + n), src[cur + n + 1]))
         /\ src[cur + n + 1] \in Char
<1>1. n \in Nat /\ n > 0 /\ cur + n <= Len(src) /\ cur \in 0 .. Len(src) /\ Len(src) \in Nat
  BY MatchIs DEF Typed
<1>2. n + 1 \in n + 1 .. Len(src) - cur /\ cur + (n + 1) = (cur + n) + 1 /\ cur + n \in cur .. Len(src) - 1
  BY <1>1
<1>3. ~Fits(q, n + 1)
  BY <1>2 DEF Match
<1>4. Text(cur, cur + (n + 1)) = Append(Text(cur, cur + n), src[cur + n + 1]) /\ src[cur + n + 1] \in Char
  BY <1>1, <1>2, TextLonger
<1> QED
  BY <1>3, <1>4 DEF Fits

\* Where each rule stands.
LEMMA RulePlaces ==
  /\ Rules[1] = "DocumentationComment" /\ Rules[2] = "LineComment" /\ Rules[3] = "BlockComment"
  /\ Rules[6] = "I8TypeName" /\ Rules[9] = "Id" /\ Rules[10] = "OctLiteral" /\ Rules[11] = "IntLiteral"
  /\ Rules[12] = "HexLiteral" /\ Rules[13] = "BinLiteral" /\ Rules[14] = "F32Literal"
  /\ Rules[15] = "F64Literal" /\ Rules[18] = "Whitespace"
  /\ \A r \in DOMAIN Rules : (Rules[r] = "Id" => r = 9) /\ (Rules[r] = "IntLiteral" => r = 11)
BY DEF Rules

\* Short texts, character by character.
LEMMA ShortTexts ==
  ASSUME NEW s \in Seq(Char)
  PROVE  /\ Len(s) = 1 => s = << s[1] >>
         /\ Len(s) = 2 => s = << s[1], s[2] >>
         /\ Len(s) = 3 => s = << s[1], s[2], s[3] >>
OBVIOUS

\* A match of an integer, a word, a blank or a fraction does not go on.
LEMMA OpenMatchEnds ==
  ASSUME Typed, NEW r \in DOMAIN Rules, NEW n \in Lengths, Match(r, n), cur + n # Len(src)
  PROVE  LET c == src[cur + n + 1] IN
         /\ Rules[r] \in {"Id", "I8TypeName"} => c \notin Letter \cup Digit
         /\ Rules[r] \in {"IntLiteral", "OctLiteral"} => c \notin Digit
         /\ Rules[r] = "HexLiteral" => c \notin Hex
         /\ Rules[r] = "BinLiteral" => c \notin Binary
         /\ Rules[r] = "F64Literal" => c \notin Digit \cup {"f"}
         /\ Rules[r] = "Whitespace" => c # "sp"
         /\ Rules[r] = "DivOp" => c \notin {"/", "*"}
         /\ Rules[r] = "LineComment" => c # "/"
<1> DEFINE s == Text(cur, cur + n)  c == src[cur + n + 1]
<1>1. s \in Seq(Char) /\ Len(s) = n /\ n \in Nat /\ n > 0 /\ Matches(Rules[r], s)
  BY MatchIs
<1>2. c \in Char
  <2>1. 1 \in DOMAIN Rules
    BY RuleNames
  <2> QED
    BY <2>1, LongestMatch
<1>3. \A q \in 1 .. 19 : ~Matches(Rules[q], Append(s, c))
  BY LongestMatch, RuleNames
<1> HIDE DEF s, c
<1>4. /\ Append(s, c) \in Seq(Char) /\ Len(Append(s, c)) = n + 1 /\ Append(s, c)[n + 1] = c
      /\ \A j \in 1 .. n : Append(s, c)[j] = s[j]
  BY <1>1, <1>2
<1>5. Rules[r] \in {"Id", "I8TypeName"} => c \notin Letter \cup Digit
  <2> SUFFICES ASSUME Rules[r] \in {"Id", "I8TypeName"}, c \in Letter \cup Digit
               PROVE  FALSE
    OBVIOUS
  <2>1. s[1] \in Letter /\ All(s, Letter \cup Digit)
    BY <1>1, OpenRules, FixedRules DEF All, Letter, Digit
  <2>2. All(Append(s, c), Letter \cup Digit)
    BY <1>1, <1>2, <2>1, AllLonger
  <2>3. Append(s, c)[1] = s[1]
    BY <1>1, <1>4
  <2>4. Matches("Id", Append(s, c))
    BY <2>1, <2>2, <2>3, OpenRules
  <2> QED
    BY <1>3, <2>4, RulePlaces
<1>6. Rules[r] \in {"IntLiteral", "OctLiteral"} => c \notin Digit
  <2> SUFFICES ASSUME Rules[r] \in {"IntLiteral", "OctLiteral"}, c \in Digit
               PROVE  FALSE
    OBVIOUS
  <2>1. All(s, Digit)
    BY <1>1, OpenRules DEF All, Octal, Digit
  <2>2. Matches("IntLiteral", Append(s, c))
    BY <1>1, <1>2, <2>1, AllLonger, OpenRules
  <2> QED
    BY <1>3, <2>2, RulePlaces
<1>7. Rules[r] = "HexLiteral" => c \notin Hex
  <2> SUFFICES ASSUME Rules[r] = "HexLiteral", c \in Hex
               PROVE  FALSE
    OBVIOUS
  <2>1. n > 2 /\ s[1] = "0" /\ s[2] = "x" /\ All(SubSeq(s, 3, Len(s)), Hex)
    BY <1>1, OpenRules
  <2>2. SubSeq(Append(s, c), 3, Len(Append(s, c))) = Append(SubSeq(s, 3, Len(s)), c) /\ SubSeq(s, 3, Len(s)) \in Seq(Char)
    BY <1>1, <1>2, <2>1, SuffixLonger
  <2>3. All(SubSeq(Append(s, c), 3, Len(Append(s, c))), Hex)
    BY <1>2, <2>1, <2>2, AllLonger
  <2>4. Append(s, c)[1] = s[1] /\ Append(s, c)[2] = s[2] /\ Len(Append(s, c)) > 2
    BY <1>1, <1>4, <2>1
  <2>5. Matches("HexLiteral", Append(s, c))
    BY <2>1, <2>3, <2>4, OpenRules
  <2> QED
    BY <1>3, <2>5, RulePlaces
<1>8. Rules[r] = "BinLiteral" => c \notin Binary
  <2> SUFFICES ASSUME Rules[r] = "BinLiteral", c \in Binary
               PROVE  FALSE
    OBVIOUS
  <2>1. n > 2 /\ s[1] = "0" /\ s[2] = "b" /\ All(SubSeq(s, 3, Len(s)), Binary)
    BY <1>1, OpenRules
  <2>2. SubSeq(Append(s, c), 3, Len(Append(s, c))) = Append(SubSeq(s, 3, Len(s)), c) /\ SubSeq(s, 3, Len(s)) \in Seq(Char)
    BY <1>1, <1>2, <2>1, SuffixLonger
  <2>3. All(SubSeq(Append(s, c), 3, Len(Append(s, c))), Binary)
    BY <1>2, <2>1, <2>2, AllLonger
  <2>4. Append(s, c)[1] = s[1] /\ Append(s, c)[2] = s[2] /\ Len(Append(s, c)) > 2
    BY <1>1, <1>4, <2>1
  <2>5. Matches("BinLiteral", Append(s, c))
    BY <2>1, <2>3, <2>4, OpenRules
  <2> QED
    BY <1>3, <2>5, RulePlaces
<1>9. Rules[r] = "F64Literal" => c \notin Digit \cup {"f"}
  <2> SUFFICES ASSUME Rules[r] = "F64Literal", c \in Digit \cup {"f"}
               PROVE  FALSE
    OBVIOUS
  <2>1. Decimal(s)
    BY <1>1, OpenRules
  <2>2. CASE c \in Digit
    <3>1. Matches("F64Literal", Append(s, c))
      BY <1>1, <2>1, <2>2, DecimalLonger, OpenRules
    <3> QED
      BY <1>3, <3>1, RulePlaces
  <2>3. CASE c = "f"
    <3>1. SubSeq(Append(s, c), 1, Len(Append(s, c)) - 1) = s /\ Append(s, c)[Len(Append(s, c))] = "f"
      BY <1>1, <1>2, <2>3
    <3>2. Matches("F32Literal", Append(s, c))
      BY <2>1, <3>1, OpenRules
    <3> QED
      BY <1>3, <3>2, RulePlaces
  <2> QED
    BY <2>2, <2>3
<1>10. Rules[r] = "Whitespace" => c # "sp"
  <2> SUFFICES ASSUME Rules[r] = "Whitespace", c = "sp"
               PROVE  FALSE
    OBVIOUS
  <2>1. Matches("Whitespace", Append(s, c))
    BY <1>1, <1>2, AllLonger, OpenRules
  <2> QED
    BY <1>3, <2>1, RulePlaces
<1>11. Rules[r] = "DivOp" => c \notin {"/", "*"}
  <2> SUFFICES ASSUME Rules[r] = "DivOp", c \in {"/", "*"}
               PROVE  FALSE
    OBVIOUS
  <2>0. s = << "/" >>
    BY <1>1, FixedRules
  <2>1. s[1] = "/" /\ n = 1
    BY <1>1, <2>0
  <2>2. Append(s, c) = << "/", c >>
    <3>1. Append(s, c) = << Append(s, c)[1], Append(s, c)[2] >>
      <4>1. Len(Append(s, c)) = 2 /\ Append(s, c) \in Seq(Char)
        BY <1>4, <2>1
      <4> QED
        BY <4>1, ShortTexts
    <3>2. Append(s, c)[1] = "/" /\ Append(s, c)[2] = c
      BY <1>4, <2>1
    <3> QED
      BY <3>1, <3>2
  <2>3. Matches("LineComment", Append(s, c)) \/ Matches("BlockComment", Append(s, c))
    BY <2>2, FixedRules
  <2> QED
    BY <1>3, <2>3, RulePlaces
<1>12. Rules[r] = "LineComment" => c # "/"
  <2> SUFFICES ASSUME Rules[r] = "LineComment", c = "/"
               PROVE  FALSE
    OBVIOUS
  <2>1. Append(s, c) = << "/", "/", "/" >>
    <3>0. s = << "/", "/" >>
      BY <1>1, FixedRules
    <3>1. s[1] = "/" /\ s[2] = "/" /\ n = 2
      BY <1>1, <3>0
    <3>2. Append(s, c) = << Append(s, c)[1], Append(s, c)[2], Append(s, c)[3] >>
      <4>1. Len(Append(s, c)) = 3 /\ Append(s, c) \in Seq(Char)
        BY <1>4, <3>1
      <4> QED
        BY <4>1, ShortTexts
    <3>3. Append(s, c)[1] = "/" /\ Append(s, c)[2] = "/" /\ Append(s, c)[3] = c
      BY <1>4, <3>1
    <3> QED
      BY <3>2, <3>3
  <2>2. Matches("DocumentationComment", Append(s, c))
    BY <2>1, FixedRules
  <2> QED
    BY <1>3, <2>2, RulePlaces
<1> QED
  BY <1>5, <1>6, <1>7, <1>8, <1>9, <1>10, <1>11, <1>12 DEF c

\* What an unsigned literal's rule matches is one, with the digits it reads.
LEMMA UIntMatch ==
  ASSUME NEW s \in Seq(Char), NEW rule \in UIntRules, Matches(rule, s)
  PROVE  /\ IsUInt(s)
         /\ rule = "OctLiteral" => UIntDigits(s) = Octal /\ s[2] # "b"
         /\ rule = "HexLiteral" => UIntDigits(s) = Hex /\ Hex # Octal
         /\ rule = "BinLiteral" => UIntDigits(s) = Binary /\ s[2] = "b"
<1>1. CASE rule = "OctLiteral"
  <2>1. Len(s) > 1 /\ s[1] = "0" /\ All(s, Octal)
    BY <1>1, OpenRules
  <2>2. s[2] = "0"
    BY <2>1 DEF All, Octal
  <2>3. UIntDigits(s) = Octal
    BY <2>1, <2>2 DEF UIntDigits
  <2>4. All(SubSeq(s, 2, Len(s)), Octal)
    <3>1. ASSUME NEW j \in DOMAIN SubSeq(s, 2, Len(s))
          PROVE  SubSeq(s, 2, Len(s))[j] \in Octal
      <4>1. j + 1 \in DOMAIN s /\ SubSeq(s, 2, Len(s))[j] = s[j + 1]
        BY <2>1
      <4> QED
        BY <2>1, <4>1 DEF All
    <3> QED
      BY <3>1 DEF All
  <2> QED
    BY <1>1, <2>2, <2>3, <2>4 DEF IsUInt, Octal
<1>2. CASE rule = "HexLiteral"
  <2>1. Len(s) > 2 /\ s[1] = "0" /\ s[2] = "x" /\ All(SubSeq(s, 3, Len(s)), Hex)
    BY <1>2, OpenRules
  <2>2. UIntDigits(s) = Hex
    BY <2>1 DEF UIntDigits
  <2>3. Hex # {} /\ Hex # Octal
    BY DEF Hex, Octal
  <2> QED
    BY <1>2, <2>1, <2>2, <2>3 DEF IsUInt
<1>3. CASE rule = "BinLiteral"
  <2>1. Len(s) > 2 /\ s[1] = "0" /\ s[2] = "b" /\ All(SubSeq(s, 3, Len(s)), Binary)
    BY <1>3, OpenRules
  <2>2. UIntDigits(s) = Binary
    BY <2>1 DEF UIntDigits
  <2> QED
    BY <1>3, <2>1, <2>2 DEF IsUInt, Binary
<1> QED
  BY <1>1, <1>2, <1>3 DEF UIntRules

\* Digits that read as an unsigned literal are octal.
LEMMA UIntOfDigits ==
  ASSUME NEW s \in Seq(Char), All(s, Digit), IsUInt(s)
  PROVE  Matches("OctLiteral", s)
<1>1. Len(s) >= 2 /\ s[1] = "0"
  BY DEF IsUInt, UIntDigits
<1>2. s[2] \in Digit /\ s[2] \notin {"x", "b"}
  BY <1>1 DEF All, Digit
<1>3. UIntDigits(s) = Octal
  BY <1>1, <1>2 DEF UIntDigits
<1>4. All(SubSeq(s, 2, Len(s)), Octal)
  BY <1>2, <1>3 DEF IsUInt
<1>5. ASSUME NEW j \in DOMAIN s
      PROVE  s[j] \in Octal
  <2>1. CASE j = 1
    BY <1>1, <2>1 DEF Octal
  <2>2. CASE j # 1
    <3>1. j - 1 \in DOMAIN SubSeq(s, 2, Len(s)) /\ SubSeq(s, 2, Len(s))[j - 1] = s[j]
      BY <1>1, <2>2
    <3> QED
      BY <1>4, <3>1 DEF All
  <2> QED
    BY <2>1, <2>2
<1> QED
  BY <1>1, <1>5, OpenRules DEF All

\* Every word, number, blank and operator is complete and reads as its kind.
LEMMA MatchWritten ==
  ASSUME Typed, NEW r \in DOMAIN Rules, NEW n \in Lengths, Match(r, n),
         Rules[r] \notin CommentRules \cup {"StringLiteral", "Unrecognized"}
  PROVE  AsWritten(KindOf(Rules[r]), cur, cur + n)
<1> DEFINE s == Text(cur, cur + n)  c == src[cur + n + 1]
<1>1. s \in Seq(Char) /\ Len(s) = n /\ n \in Nat /\ n > 0 /\ Matches(Rules[r], s)
  BY MatchIs
<1>2. \A q \in 1 .. r - 1 : ~Matches(Rules[q], s)
  BY DEF Match, Fits
<1>3. CASE Rules[r] \in {"Id", "I8TypeName"}
  <2>1. cur + n = Len(src) \/ c \notin Letter \cup Digit
    BY <1>3, OpenMatchEnds
  <2>2. s[1] \in Letter /\ All(s, Letter \cup Digit)
    BY <1>1, <1>3, OpenRules, FixedRules DEF All, Letter, Digit
  <2>3. Rules[r] = "I8TypeName" <=> s = << "i", "8" >>
    <3>1. CASE Rules[r] = "Id"
      <4>1. 6 \in 1 .. r - 1
        BY <3>1, RulePlaces
      <4> QED
        BY <1>2, <3>1, <4>1, RulePlaces, FixedRules
    <3>2. CASE Rules[r] = "I8TypeName"
      BY <1>1, <3>2, FixedRules
    <3> QED
      BY <1>3, <3>1, <3>2
  <2>4. KindOf(Rules[r]) = Rules[r]
    BY <1>3 DEF KindOf, UIntRules
  <2> QED
    BY <1>3, <2>1, <2>2, <2>3, <2>4 DEF AsWritten
<1>4. CASE Rules[r] = "IntLiteral"
  <2>1. cur + n = Len(src) \/ c \notin Digit
    BY <1>4, OpenMatchEnds
  <2>2. All(s, Digit)
    BY <1>1, <1>4, OpenRules
  <2>3. ~IsUInt(s)
    <3>1. 10 \in 1 .. r - 1
      BY <1>4, RulePlaces
    <3>2. ~Matches("OctLiteral", s)
      BY <1>2, <3>1, RulePlaces
    <3> QED
      BY <1>1, <2>2, <3>2, UIntOfDigits
  <2>4. KindOf(Rules[r]) = "IntLiteral"
    BY <1>4 DEF KindOf, UIntRules
  <2> QED
    BY <2>1, <2>2, <2>3, <2>4 DEF AsWritten
<1>5. CASE Rules[r] \in UIntRules
  <2>1. IsUInt(s)
    BY <1>1, <1>5, UIntMatch
  <2>2. cur + n = Len(src)
          \/ c \notin (IF UIntDigits(s) = Octal /\ s[2] # "b" THEN Digit ELSE UIntDigits(s))
    <3>1. CASE Rules[r] = "OctLiteral"
      BY <1>1, <1>5, <3>1, UIntMatch, OpenMatchEnds
    <3>2. CASE Rules[r] = "HexLiteral"
      BY <1>1, <1>5, <3>2, UIntMatch, OpenMatchEnds
    <3>3. CASE Rules[r] = "BinLiteral"
      BY <1>1, <1>5, <3>3, UIntMatch, OpenMatchEnds
    <3> QED
      BY <1>5, <3>1, <3>2, <3>3 DEF UIntRules
  <2>3. KindOf(Rules[r]) = "UIntLiteral"
    BY <1>5 DEF KindOf
  <2> QED
    BY <2>1, <2>2, <2>3 DEF AsWritten
<1>6. CASE Rules[r] = "F64Literal"
  <2>1. cur + n = Len(src) \/ c \notin Digit \cup {"f"}
    BY <1>6, OpenMatchEnds
  <2>2. Decimal(s)
    BY <1>1, <1>6, OpenRules
  <2>3. KindOf(Rules[r]) = "F64Literal"
    BY <1>6 DEF KindOf, UIntRules
  <2> QED
    BY <2>1, <2>2, <2>3 DEF AsWritten
<1>7. CASE Rules[r] = "F32Literal"
  <2>1. Decimal(SubSeq(s, 1, Len(s) - 1)) /\ s[Len(s)] = "f"
    BY <1>1, <1>7, OpenRules
  <2>2. KindOf(Rules[r]) = "F32Literal"
    BY <1>7 DEF KindOf, UIntRules
  <2> QED
    BY <2>1, <2>2 DEF AsWritten
<1>8. CASE Rules[r] = "Whitespace"
  <2>1. cur + n = Len(src) \/ c \notin {"sp"}
    BY <1>8, OpenMatchEnds
  <2>2. All(s, {"sp"})
    BY <1>1, <1>8, OpenRules
  <2>3. KindOf(Rules[r]) = "Whitespace"
    BY <1>8 DEF KindOf, UIntRules
  <2> QED
    BY <2>1, <2>2, <2>3 DEF AsWritten
<1>9. CASE Rules[r] = "DivOp"
  <2>1. cur + n = Len(src) \/ c \notin {"/", "*"}
    BY <1>9, OpenMatchEnds
  <2>2. s = << "/" >>
    BY <1>1, <1>9, FixedRules
  <2>3. KindOf(Rules[r]) = "DivOp"
    BY <1>9 DEF KindOf, UIntRules
  <2> QED
    BY <2>1, <2>2, <2>3 DEF AsWritten
<1>10. CASE Rules[r] \in {"MulOp", "VarArg", "Dot", "NewLine"}
  <2>1. KindOf(Rules[r]) \in {"MulOp", "VarArg", "Dot", "NewLine"}
    BY <1>10 DEF KindOf, UIntRules
  <2> QED
    BY <2>1 DEF AsWritten
<1>11. Rules[r] \in { "DocumentationComment", "LineComment", "BlockComment", "MulOp", "DivOp", "I8TypeName",
         "VarArg", "Dot", "Id", "OctLiteral", "IntLiteral", "HexLiteral", "BinLiteral",
         "F32Literal", "F64Literal", "StringLiteral", "NewLine", "Whitespace", "Unrecognized" }
  BY RuleNames
<1> QED
  BY <1>3, <1>4, <1>5, <1>6, <1>7, <1>8, <1>9, <1>10, <1>11 DEF CommentRules, UIntRules

-----------------------------------------------------------------------------
(* Comments. *)

\* The opening of a comment.
LEMMA CommentOpens ==
  ASSUME Typed, Stage, NEW r \in DOMAIN Rules, NEW n \in Lengths, Match(r, n), BeginComment(Rules[r], n)
  PROVE  CommentBegun' /\ cond' \in {"Comment", "LineComment"} /\ pc' = "scan"
<1> DEFINE s == Text(cur, cur + n)
<1>1. /\ s \in Seq(Char) /\ Len(s) = n /\ Matches(Rules[r], s) /\ n \in Nat /\ cur \in Nat
      /\ cur + n <= Len(src) /\ cur = prev /\ \A j \in 1 .. n : s[j] = src[cur + j]
  BY MatchIs DEF Match, Stage
<1> HIDE DEF s
<1>2. UNCHANGED << src, prev, pc >> /\ cur' = cur + n /\ token'.kind = Rules[r] /\ pc = "scan"
  <2>1. token'.kind = Rules[r]
    BY DEF BeginComment, Typed, Tokens
  <2> QED
    BY <2>1 DEF BeginComment, Turn, Match
<1>3. CASE Rules[r] = "BlockComment"
  <2>1. s = << "/", "*" >>
    BY <1>1, <1>3, FixedRules
  <2>2. n = 2 /\ s[1] = "/" /\ s[2] = "*"
    BY <1>1, <2>1
  <2>3. src[cur + 1] = "/" /\ src[cur + 2] = "*"
    BY <1>1, <2>2
  <2>4. cond' = "Comment"
    BY <1>3 DEF BeginComment, Turn
  <2>5. NotClosed(prev + 3 .. cur)'
    BY <1>1, <1>2, <2>2 DEF NotClosed
  <2> QED
    BY <1>1, <1>2, <2>2, <2>3, <2>4, <2>5 DEF CommentBegun
<1>4. CASE Rules[r] = "LineComment"
  <2>1. s = << "/", "/" >>
    BY <1>1, <1>4, FixedRules
  <2>2. n = 2 /\ s[1] = "/" /\ s[2] = "/"
    BY <1>1, <2>1
  <2>3. src[cur + 1] = "/" /\ src[cur + 2] = "/"
    BY <1>1, <2>2
  <2>4. prev + 3 <= Len(src) => src[prev + 3] # "/"
    <3> SUFFICES ASSUME prev + 3 <= Len(src)
                 PROVE  src[prev + 3] # "/"
      OBVIOUS
    <3>1. cur + n # Len(src) /\ cur + n + 1 = prev + 3
      BY <1>1, <2>2 DEF Typed
    <3> QED
      BY <1>4, <3>1, OpenMatchEnds
  <2>5. cond' = "LineComment"
    BY <1>4 DEF BeginComment, Turn
  <2>6. \A j \in prev + 1 .. cur + n : src[j] # "nl"
    BY <1>1, <2>2, <2>3
  <2> QED
    BY <1>1, <1>2, <1>4, <2>2, <2>3, <2>4, <2>5, <2>6 DEF CommentBegun
<1>5. CASE Rules[r] = "DocumentationComment"
  <2>1. s = << "/", "/", "/" >>
    BY <1>1, <1>5, FixedRules
  <2>2. n = 3 /\ s[1] = "/" /\ s[2] = "/" /\ s[3] = "/"
    BY <1>1, <2>1
  <2>3. src[cur + 1] = "/" /\ src[cur + 2] = "/" /\ src[cur + 3] = "/"
    BY <1>1, <2>2
  <2>4. cond' = "LineComment"
    BY <1>5 DEF BeginComment, CommentRules, Turn
  <2>5. \A j \in prev + 1 .. cur + n : src[j] # "nl"
    BY <1>1, <2>2, <2>3
  <2> QED
    BY <1>1, <1>2, <1>5, <2>2, <2>3, <2>4, <2>5 DEF CommentBegun
<1> QED
  BY <1>2, <1>3, <1>4, <1>5 DEF BeginComment, CommentRules, Turn

\* A comment's next character.
LEMMA CommentGoesOn ==
  ASSUME Typed, CommentBegun, CommentChar \/ LineCommentChar
  PROVE  CommentBegun' /\ cond' = cond /\ cond \in {"Comment", "LineComment"}
<1>1. /\ prev \in Nat /\ cur \in Nat /\ Len(src) \in Nat /\ cur < Len(src) /\ cur' = cur + 1 /\ cond' = cond
      /\ UNCHANGED << src, prev, token >>
  BY CharAhead DEF CommentChar, LineCommentChar, Scan, Turn, Continue, Typed
<1>2. CASE CommentChar
  <2>1. ~(src[cur + 1] = "*" /\ src[cur + 2] = "/") \/ cur + 1 = Len(src)
    <3> SUFFICES ASSUME cur + 1 # Len(src)
                 PROVE  ~(src[cur + 1] = "*" /\ src[cur + 2] = "/")
      OBVIOUS
    <3>1. cur + 2 <= Len(src)
      BY <1>1
    <3>2. Text(cur, cur + 2) # << "*", "/" >>
      BY <1>2, <3>1 DEF CommentChar, Closes
    <3>3. /\ Text(cur, cur + 2) \in Seq(Char) /\ Len(Text(cur, cur + 2)) = 2
          /\ Text(cur, cur + 2)[1] = src[cur + 1] /\ Text(cur, cur + 2)[2] = src[cur + 2]
      <4>1. cur \in 0 .. Len(src) /\ cur + 2 \in cur .. Len(src) /\ 1 \in 1 .. (cur + 2) - cur
            /\ 2 \in 1 .. (cur + 2) - cur /\ (cur + 2) - cur = 2
        BY <1>1, <3>1
      <4> QED
        BY <4>1, TextIsText
    <3> QED
      BY <3>2, <3>3, ShortTexts
  <2>2. cond = "Comment" /\ NotClosed(prev + 3 .. cur) /\ prev + 2 <= cur
    BY <1>2 DEF CommentChar, Scan, CommentBegun
  <2>3. ASSUME NEW j \in prev + 3 .. cur + 1, j < Len(src)
        PROVE  ~(src[j] = "*" /\ src[j + 1] = "/")
    <3>1. CASE j = cur + 1
      <4>1. j + 1 = cur + 2
        BY <1>1, <3>1
      <4> QED
        BY <2>1, <2>3, <3>1, <4>1
    <3>2. CASE j \in prev + 3 .. cur
      BY <2>2, <2>3, <3>2 DEF NotClosed
    <3> QED
      BY <1>1, <3>1, <3>2
  <2>4. NotClosed(prev + 3 .. cur)'
    BY <1>1, <2>3 DEF NotClosed
  <2> QED
    BY <1>1, <2>2, <2>4 DEF CommentBegun
<1>3. CASE LineCommentChar
  <2>1. cond = "LineComment" /\ src[cur + 1] # "nl"
    BY <1>3 DEF LineCommentChar, Scan, Char0
  <2> QED
    BY <1>1, <2>1 DEF CommentBegun
<1> QED
  BY <1>1, <1>2, <1>3 DEF CommentChar, LineCommentChar, Scan

\* A block comment that ends is one.
LEMMA BlockCommentWritten ==
  ASSUME Typed, Stage, CommentBegun, CommentEnd
  PROVE  AsWritten("BlockComment", prev, cur + 2)
<1> DEFINE s == Text(prev, cur + 2)
<1>1. /\ prev \in Nat /\ cur \in Nat /\ Len(src) \in Nat /\ prev \in 0 .. Len(src) /\ prev + 2 <= cur
      /\ cur + 2 <= Len(src) /\ src[prev + 1] = "/" /\ src[prev + 2] = "*" /\ NotClosed(prev + 3 .. cur)
  BY DEF CommentEnd, Scan, Closes, CommentBegun, Typed
<1>2. s \in Seq(Char) /\ Len(s) = (cur + 2) - prev /\ \A j \in 1 .. (cur + 2) - prev : s[j] = src[prev + j]
  <2>1. cur + 2 \in prev .. Len(src)
    BY <1>1
  <2> QED
    BY <1>1, <2>1, TextIsText
<1>3. src[cur + 1] = "*" /\ src[cur + 2] = "/"
  <2>1. /\ Text(cur, cur + 2)[1] = src[cur + 1] /\ Text(cur, cur + 2)[2] = src[cur + 2]
    <3>1. cur \in 0 .. Len(src) /\ cur + 2 \in cur .. Len(src) /\ 1 \in 1 .. (cur + 2) - cur
            /\ 2 \in 1 .. (cur + 2) - cur
      BY <1>1
    <3> QED
      BY <3>1, TextIsText
  <2>2. Text(cur, cur + 2) = << "*", "/" >>
    BY DEF CommentEnd, Closes
  <2> QED
    BY <2>1, <2>2
<1> HIDE DEF s
<1>4. Len(s) > 3 /\ s[1] = "/" /\ s[2] = "*"
  BY <1>1, <1>2
<1>5. Closed(s, Len(s) - 1)
  <2>1. /\ Len(s) - 1 \in 1 .. (cur + 2) - prev /\ Len(s) \in 1 .. (cur + 2) - prev
        /\ prev + (Len(s) - 1) = cur + 1 /\ prev + Len(s) = cur + 2 /\ (Len(s) - 1) + 1 = Len(s)
    BY <1>1, <1>2
  <2> QED
    BY <1>2, <1>3, <2>1 DEF Closed
<1>6. ASSUME NEW j \in 3 .. Len(s) - 2
      PROVE  ~Closed(s, j)
  <2>1. /\ j \in 1 .. (cur + 2) - prev /\ j + 1 \in 1 .. (cur + 2) - prev /\ prev + j \in prev + 3 .. cur
        /\ prev + j < Len(src) /\ prev + (j + 1) = (prev + j) + 1
    BY <1>1, <1>2
  <2>2. ~(src[prev + j] = "*" /\ src[(prev + j) + 1] = "/")
    BY <1>1, <2>1 DEF NotClosed
  <2> QED
    BY <1>2, <2>1, <2>2 DEF Closed
<1>7. IsBlockComment(s)
  BY <1>4, <1>5, <1>6 DEF IsBlockComment
<1> QED
  BY <1>7 DEF AsWritten, s

\* A line comment that ends is one.
LEMMA LineCommentWritten ==
  ASSUME Typed, Stage, CommentBegun, LineCommentEnd
  PROVE  AsWritten(token.kind, prev, cur')
<1>1. /\ prev \in Nat /\ cur \in Nat /\ Len(src) \in Nat /\ prev \in 0 .. Len(src) /\ prev + 2 <= cur
      /\ cur <= Len(src) /\ src[prev + 1] = "/" /\ src[prev + 2] = "/"
      /\ \A j \in prev + 1 .. cur : src[j] # "nl"
      /\ token.kind = "DocumentationComment" <=> prev + 3 <= Len(src) /\ src[prev + 3] = "/"
      /\ token.kind = "DocumentationComment" => prev + 3 <= cur
      /\ token.kind \in {"LineComment", "DocumentationComment"}
  BY DEF LineCommentEnd, Scan, CommentBegun, Typed, Stage
<1>2. CASE ~AtEnd /\ Char0 = "nl" /\ Turn(1, "Initial")
  <2> DEFINE s == Text(prev, cur + 1)
  <2>1. cur' = cur + 1 /\ cur < Len(src) /\ src[cur + 1] = "nl"
    BY <1>1, <1>2 DEF AtEnd, Char0, Turn
  <2>2. s \in Seq(Char) /\ Len(s) = (cur + 1) - prev /\ \A j \in 1 .. (cur + 1) - prev : s[j] = src[prev + j]
    <3>1. cur + 1 \in prev .. Len(src)
      BY <1>1, <2>1
    <3> QED
      BY <1>1, <3>1, TextIsText
  <2> HIDE DEF s
  <2>3. IsLineComment(s)
    BY <1>1, <2>2 DEF IsLineComment
  <2>4. s[Len(s)] = "nl"
    <3>1. Len(s) \in 1 .. (cur + 1) - prev /\ prev + Len(s) = cur + 1
      BY <1>1, <2>2
    <3> QED
      BY <2>1, <2>2, <3>1
  <2>5. token.kind = "DocumentationComment" <=> Len(s) > 2 /\ s[3] = "/"
    <3>1. Len(s) > 2 /\ 3 \in 1 .. (cur + 1) - prev /\ prev + 3 <= Len(src)
      BY <1>1, <2>1, <2>2
    <3>2. s[3] = src[prev + 3]
      BY <2>2, <3>1
    <3> QED
      BY <1>1, <3>1, <3>2
  <2> QED
    BY <1>1, <2>1, <2>3, <2>4, <2>5 DEF AsWritten, s
<1>3. CASE AtEnd /\ Turn(0, "Initial")
  <2> DEFINE s == Text(prev, cur)
  <2>1. cur' = cur /\ cur = Len(src)
    BY <1>1, <1>3 DEF AtEnd, Turn
  <2>2. s \in Seq(Char) /\ Len(s) = cur - prev /\ \A j \in 1 .. cur - prev : s[j] = src[prev + j]
    <3>1. cur \in prev .. Len(src)
      BY <1>1
    <3> QED
      BY <1>1, <3>1, TextIsText
  <2> HIDE DEF s
  <2>3. IsLineComment(Append(s, "nl"))
    <3>1. /\ Len(Append(s, "nl")) = Len(s) + 1
          /\ \A j \in 1 .. Len(s) : Append(s, "nl")[j] = s[j]
      BY <2>2 DEF Char
    <3>2. s[1] = "/" /\ s[2] = "/" /\ Len(s) \in Nat /\ Len(s) > 1
      BY <1>1, <2>2
    <3>3. \A j \in 1 .. Len(s) : s[j] # "nl"
      BY <1>1, <2>2
    <3> QED
      BY <3>1, <3>2, <3>3 DEF IsLineComment
  <2>4. token.kind = "DocumentationComment" <=> Len(s) > 2 /\ s[3] = "/"
    <3>1. Len(s) > 2 => s[3] = src[prev + 3]
      BY <1>1, <2>2
    <3>2. Len(s) > 2 <=> prev + 3 <= Len(src)
      BY <1>1, <2>1, <2>2
    <3> QED
      BY <1>1, <3>1, <3>2
  <2> QED
    BY <1>1, <2>1, <2>3, <2>4 DEF AsWritten, s
<1> QED
  BY <1>2, <1>3 DEF LineCommentEnd

-----------------------------------------------------------------------------
(* Strings. *)

\* What the characters between two places are.
LEMMA AllBetween ==
  ASSUME NEW s \in Seq(Char), NEW i \in 1 .. Len(s) + 1, NEW j \in i - 1 .. Len(s), NEW chars
  PROVE  All(SubSeq(s, i, j), chars) <=> \A k \in i .. j : s[k] \in chars
<1> DEFINE u == SubSeq(s, i, j)
<1>1. Len(s) \in Nat /\ i \in Nat /\ j \in Int /\ i >= 1 /\ j >= i - 1 /\ j <= Len(s)
  OBVIOUS
<1>2. DOMAIN u = 1 .. j - i + 1 /\ \A m \in 1 .. j - i + 1 : u[m] = s[i + m - 1]
  BY <1>1
<1> HIDE DEF u
<1>3. ASSUME All(u, chars), NEW k \in i .. j
      PROVE  s[k] \in chars
  <2>1. k - i + 1 \in 1 .. j - i + 1 /\ i + (k - i + 1) - 1 = k
    BY <1>1
  <2>2. u[k - i + 1] = s[k]
    BY <1>2, <2>1
  <2> QED
    BY <1>2, <1>3, <2>1, <2>2 DEF All
<1>4. ASSUME \A k \in i .. j : s[k] \in chars, NEW m \in DOMAIN u
      PROVE  u[m] \in chars
  <2>1. i + m - 1 \in i .. j /\ u[m] = s[i + m - 1]
    BY <1>1, <1>2
  <2> QED
    BY <1>4, <2>1
<1> QED
  BY <1>3, <1>4 DEF All, u

\* The backslashes before a place number one more than those before the place
\* before it, or none when that is no backslash.
LEMMA BackslashesStep ==
  ASSUME NEW s \in Seq(Char), NEW j \in 1 .. Len(s)
  PROVE  /\ Backslashes(s, j) \in Nat
         /\ Backslashes(s, j + 1) = (IF s[j] = "bslash" THEN Backslashes(s, j) + 1 ELSE 0)
<1> DEFINE B(k) == {i \in 1 .. k - 1 : All(SubSeq(s, i, k - 1), {"bslash"})}
<1>1. Backslashes(s, j) = Cardinality(B(j)) /\ Backslashes(s, j + 1) = Cardinality(B(j + 1))
  BY DEF Backslashes
<1>2. Len(s) \in Nat /\ j \in Nat /\ (j + 1) - 1 = j
  OBVIOUS
<1>3. IsFiniteSet(B(j))
  <2>1. 1 \in Int /\ j - 1 \in Int
    BY <1>2
  <2>2. IsFiniteSet(1 .. j - 1)
    BY <2>1, FS_Interval, Zenon
  <2>3. B(j) \subseteq 1 .. j - 1
    OBVIOUS
  <2> HIDE DEF B
  <2> QED
    BY <2>2, <2>3, FS_Subset, Zenon
<1>4. Cardinality(B(j)) \in Nat
  <2> HIDE DEF B
  <2> QED
    BY <1>3, FS_CardinalityType, Zenon
<1>5. ASSUME NEW i \in 1 .. j
      PROVE  All(SubSeq(s, i, j), {"bslash"})
               <=> s[j] = "bslash" /\ (i < j => All(SubSeq(s, i, j - 1), {"bslash"}))
  <2>1. All(SubSeq(s, i, j), {"bslash"}) <=> \A k \in i .. j : s[k] \in {"bslash"}
    <3>1. i \in 1 .. Len(s) + 1 /\ j \in i - 1 .. Len(s)
      BY <1>2
    <3> QED
      BY <3>1, AllBetween
  <2>2. All(SubSeq(s, i, j - 1), {"bslash"}) <=> \A k \in i .. j - 1 : s[k] \in {"bslash"}
    <3>1. i \in 1 .. Len(s) + 1 /\ j - 1 \in i - 1 .. Len(s)
      BY <1>2
    <3> QED
      BY <3>1, AllBetween
  <2>3. i .. j = (i .. j - 1) \cup {j}
    BY <1>2
  <2>4. i = j => i .. j - 1 = {}
    BY <1>2
  <2> QED
    BY <1>2, <2>1, <2>2, <2>3, <2>4
<1>6. CASE s[j] = "bslash"
  <2>1. B(j + 1) = B(j) \cup {j} /\ j \notin B(j)
    BY <1>2, <1>5, <1>6
  <2>2. Cardinality(B(j) \cup {j}) = Cardinality(B(j)) + 1
    <3> HIDE DEF B
    <3> QED
      BY <1>3, <2>1, FS_AddElement, Zenon
  <2> HIDE DEF B
  <2> QED
    BY <1>1, <1>4, <1>6, <2>1, <2>2
<1>7. CASE s[j] # "bslash"
  <2>1. B(j + 1) = {}
    BY <1>2, <1>5, <1>7
  <2>2. Cardinality(B(j + 1)) = 0
    BY <2>1, FS_EmptySet
  <2> HIDE DEF B
  <2> QED
    BY <1>1, <1>4, <1>7, <2>2
<1> QED
  BY <1>6, <1>7

\* A backslash escapes unless it is itself escaped.
LEMMA EscapesStep ==
  ASSUME NEW s \in Seq(Char), NEW j \in 1 .. Len(s) - 1
  PROVE  Escapes(s, j + 1) <=> s[j + 1] = "bslash" /\ ~Escapes(s, j)
<1>1. /\ Backslashes(s, j) \in Nat
      /\ Backslashes(s, j + 1) = (IF s[j] = "bslash" THEN Backslashes(s, j) + 1 ELSE 0)
  BY BackslashesStep
<1>2. ASSUME NEW b \in Nat
      PROVE  (b + 1) % 2 = 0 <=> b % 2 # 0
  OBVIOUS
<1>3. CASE s[j] = "bslash"
  <2>1. Backslashes(s, j + 1) % 2 = 0 <=> Backslashes(s, j) % 2 # 0
    BY <1>1, <1>2, <1>3
  <2> QED
    BY <1>3, <2>1 DEF Escapes
<1>4. CASE s[j] # "bslash"
  <2>1. Backslashes(s, j + 1) % 2 = 0
    BY <1>1, <1>4
  <2> QED
    BY <1>4, <2>1 DEF Escapes
<1> QED
  BY <1>3, <1>4

\* Whether a character escapes the next depends on what is before it only.
LEMMA EscapesLonger ==
  ASSUME NEW s \in Seq(Char), NEW c \in Char, NEW j \in 1 .. Len(s)
  PROVE  Escapes(Append(s, c), j) <=> Escapes(s, j)
<1>1. ASSUME NEW i \in 1 .. j - 1
      PROVE  SubSeq(Append(s, c), i, j - 1) = SubSeq(s, i, j - 1)
  OBVIOUS
<1>2. {i \in 1 .. j - 1 : All(SubSeq(Append(s, c), i, j - 1), {"bslash"})}
        = {i \in 1 .. j - 1 : All(SubSeq(s, i, j - 1), {"bslash"})}
  BY <1>1
<1>3. Backslashes(Append(s, c), j) = Backslashes(s, j)
  BY <1>2 DEF Backslashes
<1>4. Append(s, c)[j] = s[j]
  OBVIOUS
<1> QED
  BY <1>3, <1>4 DEF Escapes

\* A string's next character: it ends the string if it is a quote that is not
\* escaped, and may not be a newline.
LEMMA StringLonger ==
  ASSUME NEW s \in Seq(Char), Unended(s), NEW c \in Char, c # "nl"
  PROVE  /\ ~(c = "quote" /\ ~Escapes(s, Len(s))) => Unended(Append(s, c))
         /\ c = "quote" /\ ~Escapes(s, Len(s)) => IsString(Append(s, c))
         /\ Escapes(Append(s, c), Len(s) + 1) <=> c = "bslash" /\ ~Escapes(s, Len(s))
<1> DEFINE u == Append(s, c)  n == Len(s)
<1>1. n \in Nat /\ n > 0 /\ s[1] = "quote" /\ Len(s) = n
  BY DEF Unended
<1>2. u \in Seq(Char) /\ Len(u) = n + 1 /\ u[n + 1] = c /\ \A j \in 1 .. n : u[j] = s[j]
  BY <1>1
<1>3. \A j \in 1 .. n : Escapes(u, j) <=> Escapes(s, j)
  BY EscapesLonger
<1> HIDE DEF u, n
<1>4. ASSUME NEW j \in 2 .. n
      PROVE  u[j] # "nl" /\ ~(u[j] = "quote" /\ ~Escapes(u, j - 1))
  <2>1. s[j] # "nl" /\ ~(s[j] = "quote" /\ ~Escapes(s, j - 1))
    BY <1>1 DEF Unended
  <2>2. j \in 1 .. n /\ j - 1 \in 1 .. n
    BY <1>1
  <2> QED
    BY <1>2, <1>3, <2>1, <2>2
<1>5. Escapes(u, n) <=> Escapes(s, n)
  <2>1. n \in 1 .. n
    BY <1>1
  <2> QED
    BY <1>3, <2>1
<1>6. Escapes(u, n + 1) <=> c = "bslash" /\ ~Escapes(s, n)
  <2>1. n \in 1 .. Len(u) - 1
    BY <1>1, <1>2
  <2> QED
    BY <1>2, <1>5, <2>1, EscapesStep
<1>7. u[1] = "quote"
  BY <1>1, <1>2
<1>8. ASSUME ~(c = "quote" /\ ~Escapes(s, n))
      PROVE  Unended(u)
  <2>1. ASSUME NEW j \in 2 .. Len(u)
        PROVE  u[j] # "nl" /\ ~(u[j] = "quote" /\ ~Escapes(u, j - 1))
    <3>1. CASE j \in 2 .. n
      BY <1>4, <3>1
    <3>2. CASE j = n + 1
      <4>1. j - 1 = n /\ u[j] = c
        BY <1>1, <1>2, <3>2
      <4> QED
        BY <1>5, <1>8, <4>1
    <3> QED
      BY <1>1, <1>2, <3>1, <3>2
  <2> QED
    BY <1>1, <1>2, <1>7, <2>1 DEF Unended
<1>9. ASSUME c = "quote", ~Escapes(s, n)
      PROVE  IsString(u)
  <2>1. ASSUME NEW j \in 2 .. Len(u)
        PROVE  u[j] # "nl" /\ (u[j] = "quote" /\ ~Escapes(u, j - 1) <=> j = Len(u))
    <3>1. CASE j \in 2 .. n
      <4>1. j # Len(u)
        BY <1>1, <1>2, <3>1
      <4> QED
        BY <1>4, <3>1, <4>1
    <3>2. CASE j = n + 1
      <4>1. j - 1 = n /\ u[j] = c
        BY <1>1, <1>2, <3>2
      <4> QED
        BY <1>2, <1>5, <1>9, <3>2, <4>1
    <3> QED
      BY <1>1, <1>2, <3>1, <3>2
  <2> QED
    BY <1>1, <1>2, <1>7, <2>1 DEF IsString
<1> QED
  BY <1>6, <1>8, <1>9 DEF u, n

\* The opening of a string.
LEMMA StringOpens ==
  ASSUME Typed, Stage, NEW r \in DOMAIN Rules, NEW n \in Lengths, Match(r, n), BeginString(Rules[r], n)
  PROVE  StringBegun' /\ cond' = "String" /\ pc' = "scan"
<1> DEFINE s == Text(cur, cur + n)
<1>1. /\ s \in Seq(Char) /\ Len(s) = n /\ Matches(Rules[r], s) /\ n \in Nat /\ cur \in Nat /\ cur = prev
  BY MatchIs DEF Match, Stage, Typed
<1>2. s = << "quote" >>
  BY <1>1, FixedRules DEF BeginString
<1>3. /\ UNCHANGED << src, prev >> /\ cur' = cur + n /\ cond' = "String" /\ pc' = "scan"
  BY DEF BeginString, Turn, Continue, Match
<1>4. Text(prev, cur)' = s
  BY <1>1, <1>3 DEF Text
<1> HIDE DEF s
<1>5. s[1] = "quote" /\ n = 1
  BY <1>1, <1>2
<1>6. Unended(s)
  BY <1>1, <1>5 DEF Unended
<1>7. ~Escapes(s, 1)
  BY <1>5 DEF Escapes
<1>8. cur' - prev' = 1
  BY <1>1, <1>3, <1>5
<1> QED
  BY <1>3, <1>4, <1>6, <1>7, <1>8 DEF StringBegun

\* A character of a string.
LEMMA StringGoesOn ==
  ASSUME Typed, Stage, StringBegun, Backslash \/ StringChar
  PROVE  StringBegun' /\ cond' \in {"String", "Escape"} /\ pc' = "scan"
<1> DEFINE s == Text(prev, cur)
<1>1. /\ pc = "scan" /\ cond \in {"String", "Escape"} /\ ~AtEnd /\ pc' = "scan"
      /\ UNCHANGED << src, prev >> /\ cur' = cur + 1
  BY DEF Backslash, StringChar, PlainChar, SimpleEscape, PushChar, Scan, Turn, Continue
<1>2. Char0 \in Char /\ cur \in prev .. Len(src) - 1 /\ prev \in 0 .. Len(src) /\ cur \in Nat /\ prev \in Nat
      /\ cur < Len(src)
  BY <1>1, CharAhead DEF Typed
<1>3. s \in Seq(Char) /\ Len(s) = cur - prev
  <2>1. cur \in prev .. Len(src)
    BY <1>2
  <2> QED
    BY <1>2, <2>1, TextIsText
<1>4. Text(prev, cur)' = Append(s, Char0)
  <2>1. Text(prev, cur + 1) = Append(s, Char0)
    BY <1>2, TextLonger DEF Char0
  <2> QED
    BY <1>1, <2>1 DEF Text
<1>5. Unended(s) /\ (Escapes(s, Len(s)) <=> cond = "Escape")
  BY <1>1, <1>3 DEF StringBegun
<1> HIDE DEF s
<1>6. cur' - prev' = Len(s) + 1
  BY <1>1, <1>2, <1>3
<1>7. CASE Backslash
  <2>1. cond = "String" /\ Char0 = "bslash" /\ cond' = "Escape"
    BY <1>7 DEF Backslash, Scan, Turn
  <2>2. Unended(Append(s, Char0)) /\ Escapes(Append(s, Char0), Len(s) + 1)
    BY <1>2, <1>3, <1>5, <2>1, StringLonger
  <2> QED
    BY <1>1, <1>4, <1>6, <2>1, <2>2 DEF StringBegun
<1>8. CASE PlainChar /\ StringChar
  <2>1. cond = "String" /\ Char0 \notin {"quote", "bslash", "nl"} /\ cond' = "String"
    BY <1>8 DEF StringChar, PushChar, PlainChar, Scan, Turn
  <2>2. Unended(Append(s, Char0)) /\ ~Escapes(Append(s, Char0), Len(s) + 1)
    BY <1>2, <1>3, <1>5, <2>1, StringLonger
  <2> QED
    BY <1>1, <1>4, <1>6, <2>1, <2>2 DEF StringBegun
<1>9. CASE SimpleEscape /\ StringChar
  <2>1. cond = "Escape" /\ Char0 # "nl" /\ cond' = "String"
    BY <1>9 DEF StringChar, PushChar, SimpleEscape, Escaped, Scan, Turn
  <2>2. Unended(Append(s, Char0)) /\ ~Escapes(Append(s, Char0), Len(s) + 1)
    BY <1>2, <1>3, <1>5, <2>1, StringLonger
  <2> QED
    BY <1>1, <1>4, <1>6, <2>1, <2>2 DEF StringBegun
<1> QED
  BY <1>7, <1>8, <1>9 DEF StringChar

\* A string that ends is one.
LEMMA StringWritten ==
  ASSUME Typed, Stage, StringBegun, StringEnd
  PROVE  AsWritten("StringLiteral", prev, cur + 1)
<1> DEFINE s == Text(prev, cur)
<1>1. pc = "scan" /\ cond = "String" /\ ~AtEnd /\ Char0 = "quote"
  BY DEF StringEnd, Scan
<1>2. Char0 \in Char /\ cur \in prev .. Len(src) - 1 /\ prev \in 0 .. Len(src) /\ cur \in prev .. Len(src)
  BY <1>1, CharAhead DEF Typed
<1>3. s \in Seq(Char) /\ Len(s) = cur - prev
  BY <1>2, TextIsText
<1>4. Text(prev, cur + 1) = Append(s, Char0)
  BY <1>2, TextLonger DEF Char0
<1>5. Unended(s) /\ ~Escapes(s, Len(s))
  BY <1>1, <1>3 DEF StringBegun
<1>6. IsString(Append(s, Char0))
  <2> HIDE DEF s
  <2> QED
    BY <1>1, <1>2, <1>3, <1>5, StringLonger
<1> QED
  BY <1>4, <1>6 DEF AsWritten

-----------------------------------------------------------------------------
(* Every step. *)

\* A condition tells nothing of the other kinds of token.
LEMMA OtherBegun ==
  /\ cond \notin {"Comment", "LineComment"} => CommentBegun
  /\ cond \notin {"String", "Escape"} => StringBegun
BY DEF CommentBegun, StringBegun

\* Every step keeps what is known of the token the scanner is in.
LEMMA WrittenNext == Typed /\ Stage /\ Written /\ [Next]_vars => Written'
<1> SUFFICES ASSUME Typed, Stage, Written, [Next]_vars
             PROVE  Written'
  OBVIOUS
<1>1. ASSUME pc' \notin {"scan", "push"}
      PROVE  Written'
  BY <1>1 DEF Written
<1>2. ASSUME pc' = "scan", cond' = "Initial"
      PROVE  Written'
  BY <1>2 DEF Written, CommentBegun, StringBegun
<1>3. ASSUME UNCHANGED src, pc' = "push", AsWritten(token'.kind, prev', cur')
      PROVE  Written'
  BY <1>3 DEF Written, AsWritten, Text
<1>4. CASE NewToken
  BY <1>2, <1>4 DEF NewToken, Stage
<1>5. CASE ScanInitial
  <2>1. PICK r \in DOMAIN Rules, n \in Lengths :
          /\ Match(r, n)
          /\ \/ BeginComment(Rules[r], n) \/ BeginString(Rules[r], n) \/ Simple(Rules[r], n)
             \/ Number(Rules[r], n) \/ Unrecognized(Rules[r], n)
    BY <1>5 DEF ScanInitial
  <2>2. cur = prev
    BY <2>1 DEF Match, Stage
  <2>3. CASE BeginComment(Rules[r], n)
    BY <2>1, <2>3, CommentOpens DEF Written, StringBegun
  <2>4. CASE BeginString(Rules[r], n)
    BY <2>1, <2>4, StringOpens DEF Written, CommentBegun
  <2>5. CASE Simple(Rules[r], n) \/ Number(Rules[r], n)
    <3>1. Rules[r] \notin CommentRules \cup {"StringLiteral", "Unrecognized"}
      BY <2>5 DEF Simple, Special, Number, NumberRules, UIntRules, CommentRules
    <3>2. token'.kind = KindOf(Rules[r])
      BY <2>5 DEF Simple, Special, NumberRules, Number, Extension, Complete, KindOf
    <3>3. pc' = "push" /\ cur' = cur + n /\ UNCHANGED << src, prev >>
      BY <2>5 DEF Simple, Number, Extension, Complete, Turn
    <3>4. AsWritten(token'.kind, prev', cur')
      BY <2>1, <2>2, <3>1, <3>2, <3>3, MatchWritten
    <3> QED
      BY <1>3, <3>3, <3>4
  <2>6. CASE Unrecognized(Rules[r], n)
    BY <1>1, <2>6 DEF Unrecognized, Error, Return
  <2> QED
    BY <2>1, <2>3, <2>4, <2>5, <2>6
<1>6. CASE Backslash \/ StringChar
  <2>1. StringBegun
    BY <1>6 DEF Backslash, StringChar, PlainChar, SimpleEscape, Scan, Written
  <2> QED
    BY <1>6, <2>1, StringGoesOn DEF Written, CommentBegun
<1>7. CASE StringEnd
  <2>1. StringBegun
    BY <1>7 DEF StringEnd, Scan, Written
  <2>2. pc' = "push" /\ token'.kind = "StringLiteral" /\ cur' = cur + 1 /\ UNCHANGED << src, prev >>
    BY <1>7 DEF StringEnd, Extension, Complete, Turn
  <2> QED
    BY <1>3, <1>7, <2>1, <2>2, StringWritten
<1>8. CASE CommentChar \/ LineCommentChar
  <2>1. CommentBegun /\ pc' = "scan"
    BY <1>8 DEF CommentChar, LineCommentChar, Scan, Continue, Written
  <2> QED
    BY <1>8, <2>1, CommentGoesOn DEF Written, StringBegun
<1>9. CASE CommentEnd
  <2>1. CommentBegun /\ token.kind = "BlockComment"
    BY <1>9 DEF CommentEnd, Scan, Written, Stage
  <2>2. pc' = "push" /\ token'.kind = "BlockComment" /\ cur' = cur + 2 /\ UNCHANGED << src, prev >>
    BY <1>9, <2>1 DEF CommentEnd, Turn
  <2> QED
    BY <1>3, <1>9, <2>1, <2>2, BlockCommentWritten
<1>10. CASE LineCommentEnd
  <2>1. CommentBegun
    BY <1>10 DEF LineCommentEnd, Scan, Written
  <2>2. pc' = "push" /\ token' = token /\ UNCHANGED << src, prev >>
    BY <1>10 DEF LineCommentEnd, Turn
  <2> QED
    BY <1>3, <1>10, <2>1, <2>2, LineCommentWritten
<1>11. CASE EndOfInput \/ BeginNumericEscape \/ NextDigit \/ Push \/ PushEnd
  BY <1>1, <1>11 DEF EndOfInput, BeginNumericEscape, NextDigit, Push, PushEnd
<1>12. CASE StringError \/ Undefined \/ EscapeError \/ CommentError \/ EndTokenNull \/ OutOfMemory
  BY <1>1, <1>12 DEF StringError, Undefined, EscapeError, CommentError, EndTokenNull, OutOfMemory, Error, Return
<1>13. CASE UNCHANGED vars
  BY <1>13 DEF vars, Written, CommentBegun, NotClosed, StringBegun, AsWritten, Text
<1> QED
  BY <1>4, <1>5, <1>6, <1>7, <1>8, <1>9, <1>10, <1>11, <1>12, <1>13 DEF Next, Lex, Terminating

\* A token that is added reads as its kind.
LEMMA ListWrittenNext == Typed /\ Stage /\ Written /\ TokensAsWritten /\ [Next]_vars => TokensAsWritten'
<1> SUFFICES ASSUME Typed, Stage, Written, TokensAsWritten, [Next]_vars
             PROVE  TokensAsWritten'
  OBVIOUS
<1>1. ASSUME NEW e, tokens' = Append(tokens, e), UNCHANGED src, AsWritten(e.kind, e.from, e.to)
      PROVE  TokensAsWritten'
  <2>1. tokens \in Seq(Entries)
    BY DEF Typed
  <2>2. /\ DOMAIN tokens' = DOMAIN tokens \cup {Len(tokens) + 1}
        /\ tokens'[Len(tokens) + 1] = e /\ \A k \in DOMAIN tokens : tokens'[k] = tokens[k]
    BY <1>1, <2>1
  <2>3. ASSUME NEW k \in DOMAIN tokens'
        PROVE  AsWritten(tokens[k].kind, tokens[k].from, tokens[k].to)'
    <3>1. AsWritten(tokens'[k].kind, tokens'[k].from, tokens'[k].to)
      BY <1>1, <2>2 DEF TokensAsWritten
    <3> QED
      BY <1>1, <3>1 DEF AsWritten, Text
  <2> QED
    BY <2>3 DEF TokensAsWritten
<1>2. CASE Push
  <2>1. AsWritten(token.kind, prev, cur)
    BY <1>2 DEF Push, Written
  <2>2. /\ NewEntry(prev, cur).kind = token.kind /\ NewEntry(prev, cur).from = prev
        /\ NewEntry(prev, cur).to = cur
    BY DEF NewEntry
  <2> QED
    BY <1>1, <1>2, <2>1, <2>2 DEF Push
<1>3. CASE PushEnd
  <2>1. AsWritten("End", cur, cur)
    BY DEF AsWritten
  <2> QED
    BY <1>1, <1>3, <2>1 DEF PushEnd
<1>4. CASE ~Push /\ ~PushEnd
  <2>1. UNCHANGED << src, tokens >>
    BY <1>4, ListKept
  <2>2. ASSUME NEW k \in DOMAIN tokens'
        PROVE  AsWritten(tokens[k].kind, tokens[k].from, tokens[k].to)'
    <3>1. AsWritten(tokens[k].kind, tokens[k].from, tokens[k].to)
      BY <2>1 DEF TokensAsWritten
    <3> QED
      BY <2>1, <3>1 DEF AsWritten, Text
  <2> QED
    BY <2>2 DEF TokensAsWritten
<1> QED
  BY <1>2, <1>3, <1>4

-----------------------------------------------------------------------------
(* The values are as written. *)

\* What has been read of a string, and the value of a complete token.
Valued ==
  /\ pc = "scan" /\ cond = "Initial" => literal = << >>
  /\ pc = "scan" /\ cond \in {"String", "Escape"} => literal = Decoding(Text(prev, cur))[cur - prev]
  /\ pc = "push" => ValueAsWritten(token.kind, token.value, prev, cur)

\* One character of a string literal, decoded after those before it.
DecodingStep(f, s, j) ==
  IF j = 1 THEN << >>
  ELSE IF Escapes(s, j) THEN f[j - 1]
  ELSE Append(f[j - 1], IF Escapes(s, j - 1) THEN Escaped[s[j]] ELSE s[j])

\* Decoding is the function its recursive definition describes.
LEMMA DecodingRecursion ==
  ASSUME NEW s \in Seq(Char)
  PROVE  \A j \in 1 .. Len(s) : Decoding(s)[j] = DecodingStep(Decoding(s), s, j)
<1>1. Len(s) \in Nat
  OBVIOUS
<1> DEFINE Rec(f, n) == f = [j \in 1 .. n |-> DecodingStep(f, s, j)]
<1> DEFINE S == {n \in Nat : \E f : Rec(f, n)}
<1>2. 0 \in S
  <2> DEFINE f == [j \in 1 .. 0 |-> << >>]
  <2>1. Rec(f, 0)
    <3>1. 1 .. 0 = {}
      OBVIOUS
    <3> QED
      BY <3>1
  <2> QED
    BY <2>1
<1>3. ASSUME NEW n \in Nat, n \in S
      PROVE  n + 1 \in S
  <2>1. PICK f : Rec(f, n)
    BY <1>3
  <2> DEFINE g == [j \in 1 .. n + 1 |-> IF j <= n THEN f[j] ELSE DecodingStep(f, s, n + 1)]
  <2>2. ASSUME NEW j \in 1 .. n + 1
        PROVE  g[j] = DecodingStep(g, s, j)
    <3>1. j # 1 => g[j - 1] = f[j - 1]
      OBVIOUS
    <3>2. DecodingStep(g, s, j) = DecodingStep(f, s, j)
      <4> HIDE DEF g
      <4> QED
        BY <3>1 DEF DecodingStep
    <3>3. CASE j <= n
      <4>1. g[j] = f[j] /\ j \in 1 .. n
        BY <3>3
      <4>2. f[j] = DecodingStep(f, s, j)
        BY <2>1, <4>1
      <4> QED
        BY <3>2, <4>1, <4>2
    <3>4. CASE j = n + 1
      <4>1. g[j] = DecodingStep(f, s, n + 1)
        BY <3>4
      <4> QED
        BY <3>2, <3>4, <4>1
    <3> QED
      BY <3>3, <3>4
  <2>3. Rec(g, n + 1)
    <3>1. g = [j \in 1 .. n + 1 |-> g[j]]
      OBVIOUS
    <3> HIDE DEF g
    <3> QED
      BY <2>2, <3>1
  <2> HIDE DEF g, Rec
  <2> QED
    BY <2>3
<1>4. \A n \in Nat : n \in S
  <2> HIDE DEF S
  <2> QED
    BY <1>2, <1>3, NaturalsByInduction, Zenon
<1>5. PICK f : f = [j \in 1 .. Len(s) |-> DecodingStep(f, s, j)]
  BY <1>1, <1>4
<1>6. Decoding(s) = [j \in 1 .. Len(s) |-> DecodingStep(Decoding(s), s, j)]
  BY <1>5, Zenon DEF Decoding, DecodingStep
<1> QED
  BY <1>6

\* What the first characters stand for does not depend on those that follow.
LEMMA DecodingLonger ==
  ASSUME NEW s \in Seq(Char), Len(s) > 0, NEW c \in Char
  PROVE  /\ \A j \in 1 .. Len(s) : Decoding(Append(s, c))[j] = Decoding(s)[j]
         /\ Decoding(Append(s, c))[Len(s) + 1] =
              IF Escapes(Append(s, c), Len(s) + 1) THEN Decoding(s)[Len(s)]
              ELSE Append(Decoding(s)[Len(s)], IF Escapes(s, Len(s)) THEN Escaped[c] ELSE c)
<1> DEFINE u == Append(s, c)  n == Len(s)
<1>1. n \in Nat /\ n > 0 /\ u \in Seq(Char) /\ Len(u) = n + 1 /\ u[n + 1] = c /\ \A j \in 1 .. n : u[j] = s[j]
  OBVIOUS
<1>2. \A j \in 1 .. n : Escapes(u, j) <=> Escapes(s, j)
  BY EscapesLonger
<1>3. /\ \A j \in 1 .. n : Decoding(s)[j] = DecodingStep(Decoding(s), s, j)
      /\ \A j \in 1 .. n + 1 : Decoding(u)[j] = DecodingStep(Decoding(u), u, j)
  BY <1>1, DecodingRecursion
<1> HIDE DEF u, n
<1> DEFINE S == {j \in Nat : j \in 1 .. n => Decoding(u)[j] = Decoding(s)[j]}
<1>4. 0 \in S
  OBVIOUS
<1>5. ASSUME NEW j \in Nat, j \in S
      PROVE  j + 1 \in S
  <2> SUFFICES ASSUME j + 1 \in 1 .. n
               PROVE  Decoding(u)[j + 1] = Decoding(s)[j + 1]
    OBVIOUS
  <2>1. j + 1 \in 1 .. n + 1 /\ (j + 1) - 1 = j /\ u[j + 1] = s[j + 1] /\ (Escapes(u, j + 1) <=> Escapes(s, j + 1))
    BY <1>1, <1>2
  <2>2. Decoding(u)[j + 1] = DecodingStep(Decoding(u), u, j + 1)
    BY <1>3, <2>1
  <2>3. Decoding(s)[j + 1] = DecodingStep(Decoding(s), s, j + 1)
    BY <1>3
  <2>4. CASE j = 0
    BY <2>2, <2>3, <2>4 DEF DecodingStep
  <2>5. CASE j # 0
    <3>1. j \in 1 .. n /\ j + 1 # 1
      BY <1>1, <2>5
    <3>2. Decoding(u)[j] = Decoding(s)[j] /\ (Escapes(u, j) <=> Escapes(s, j))
      BY <1>2, <1>5, <3>1
    <3> QED
      BY <2>1, <2>2, <2>3, <3>1, <3>2 DEF DecodingStep
  <2> QED
    BY <2>4, <2>5
<1>6. \A j \in Nat : j \in S
  <2> HIDE DEF S
  <2> QED
    BY <1>4, <1>5, NaturalsByInduction, Zenon
<1>7. \A j \in 1 .. n : Decoding(u)[j] = Decoding(s)[j]
  BY <1>1, <1>6
<1>8. Decoding(u)[n + 1] =
        IF Escapes(u, n + 1) THEN Decoding(s)[n]
        ELSE Append(Decoding(s)[n], IF Escapes(s, n) THEN Escaped[c] ELSE c)
  <2>1. n + 1 \in 1 .. n + 1 /\ n + 1 # 1 /\ (n + 1) - 1 = n /\ n \in 1 .. n
    BY <1>1
  <2>2. Decoding(u)[n] = Decoding(s)[n] /\ (Escapes(u, n) <=> Escapes(s, n))
    BY <1>2, <1>7, <2>1
  <2>3. Decoding(u)[n + 1] = DecodingStep(Decoding(u), u, n + 1)
    BY <1>3, <2>1
  <2> QED
    BY <1>1, <2>1, <2>2, <2>3 DEF DecodingStep
<1> QED
  BY <1>7, <1>8 DEF u, n

\* A number's value is its text, but for the two that are misread.
LEMMA NumberValue ==
  ASSUME Typed, NEW r \in DOMAIN Rules, NEW n \in Lengths, Match(r, n), Rules[r] \in NumberRules,
         NEW end \in ReadEnds(Rules[r], cur, cur + n)
  PROVE  LET v == Text(cur, end)  s == Text(cur, cur + n) IN
         \/ v = s
         \/ /\ KindOf(Rules[r]) = "F64Literal" /\ SubSeq(v, 1, Len(s)) = s
            /\ src[cur + n + 1] = "e" /\ src[cur + n + 2] \in Digit
         \/ KindOf(Rules[r]) = "UIntLiteral" /\ s[2] = "b" /\ v = << "0" >>
<1> DEFINE v == Text(cur, end)  s == Text(cur, cur + n)  to == cur + n
<1>1. /\ s \in Seq(Char) /\ Len(s) = n /\ n \in Nat /\ n > 0 /\ cur \in Nat /\ to \in cur + 1 .. Len(src)
      /\ cur \in 0 .. Len(src) /\ Len(src) \in Nat /\ Matches(Rules[r], s)
      /\ \A j \in 1 .. n : s[j] = src[cur + j]
  BY MatchIs DEF Typed
<1>2. CASE Rules[r] = "F64Literal" /\ end # to
  <2> DEFINE T == Exponent(to) \cup {to}
  <2>1. end \in T
    <3>1. T \subseteq 0 .. Len(src) /\ T # {}
      BY <1>1 DEF Exponent
    <3>2. end = Longest(T)
      BY <1>2 DEF ReadEnds
    <3> HIDE DEF T
    <3> QED
      BY <1>1, <3>1, <3>2, LongestIs
  <2>2. end \in to + 2 .. Len(src) /\ src[to + 1] = "e" /\ All(Text(to + 1, end), Digit)
    BY <1>2, <2>1 DEF Exponent
  <2>3. src[to + 2] \in Digit
    <3>1. to + 1 \in 0 .. Len(src) /\ end \in to + 1 .. Len(src) /\ 1 \in 1 .. end - (to + 1)
          /\ (to + 1) + 1 = to + 2
      BY <1>1, <2>2
    <3>2. /\ Text(to + 1, end) \in Seq(Char) /\ Len(Text(to + 1, end)) = end - (to + 1)
          /\ Text(to + 1, end)[1] = src[(to + 1) + 1]
      <4> HIDE DEF to
      <4> QED
        BY <3>1, TextIsText
    <3>3. 1 \in DOMAIN Text(to + 1, end)
      <4> HIDE DEF to
      <4> QED
        BY <3>1, <3>2
    <3>4. Text(to + 1, end)[1] \in Digit
      BY <2>2, <3>3, Zenon DEF All
    <3> QED
      BY <3>1, <3>2, <3>4
  <2>4. SubSeq(v, 1, Len(s)) = s
    <3>1. end \in cur .. Len(src) /\ n <= end - cur /\ end \in Nat
      BY <1>1, <2>2
    <3>2. v \in Seq(Char) /\ Len(v) = end - cur /\ \A j \in 1 .. end - cur : v[j] = src[cur + j]
      BY <1>1, <3>1, TextIsText
    <3> HIDE DEF v, s
    <3>3. \A j \in 1 .. n : v[j] = s[j]
      BY <1>1, <3>1, <3>2
    <3>4. SubSeq(v, 1, n) \in Seq(Char) /\ Len(SubSeq(v, 1, n)) = n /\ \A j \in 1 .. n : SubSeq(v, 1, n)[j] = v[j]
      BY <1>1, <3>1, <3>2
    <3> DEFINE w == SubSeq(v, 1, n)
    <3>5. w \in Seq(Char) /\ Len(w) = Len(s) /\ \A j \in 1 .. Len(s) : w[j] = s[j]
      BY <1>1, <3>3, <3>4
    <3> HIDE DEF w
    <3>6. w = s
      BY <1>1, <3>5
    <3> QED
      BY <1>1, <3>6 DEF w
  <2>5. KindOf(Rules[r]) = "F64Literal"
    BY <1>2 DEF KindOf, UIntRules
  <2> QED
    BY <2>2, <2>3, <2>4, <2>5
<1>3. CASE Rules[r] = "BinLiteral" /\ end # to
  <2>1. end = cur + 1
    BY <1>3 DEF ReadEnds
  <2>2. n > 2 /\ s[1] = "0" /\ s[2] = "b"
    <3> HIDE DEF s
    <3> QED
      BY <1>1, <1>3, OpenRules
  <2>3. v \in Seq(Char) /\ Len(v) = 1 /\ v[1] = src[cur + 1]
    <3>1. end \in cur .. Len(src) /\ 1 \in 1 .. end - cur /\ end - cur = 1
      BY <1>1, <2>1
    <3> QED
      BY <1>1, <3>1, TextIsText
  <2>4. v[1] = "0"
    <3>1. 1 \in 1 .. n
      BY <1>1
    <3> QED
      BY <1>1, <2>2, <2>3, <3>1
  <2>5. v = << "0" >>
    <3> HIDE DEF v
    <3> QED
      BY <2>3, <2>4, ShortTexts
  <2>6. KindOf(Rules[r]) = "UIntLiteral"
    BY <1>3 DEF KindOf, UIntRules
  <2> QED
    BY <2>2, <2>5, <2>6
<1>4. CASE end = to
  BY <1>4
<1>5. Rules[r] \notin {"F64Literal", "BinLiteral"} => end = to
  BY DEF ReadEnds
<1> QED
  BY <1>2, <1>3, <1>4, <1>5

\* The opening quote stands for nothing.
LEMMA StringOpensEmpty ==
  ASSUME Typed, Stage, Valued, NEW r \in DOMAIN Rules, NEW n \in Lengths, Match(r, n), BeginString(Rules[r], n)
  PROVE  literal' = Decoding(Text(prev, cur)')[cur' - prev']
<1> DEFINE s == Text(cur, cur + n)
<1>1. s \in Seq(Char) /\ Len(s) = n /\ Matches(Rules[r], s) /\ cur \in Nat /\ cur = prev
  BY MatchIs DEF Match, Stage, Typed
<1>2. UNCHANGED << src, prev, literal >> /\ cur' = cur + n /\ literal = << >>
  BY DEF BeginString, Turn, Match, Valued
<1>3. Text(prev, cur)' = s
  BY <1>1, <1>2 DEF Text
<1> HIDE DEF s
<1>4. s = << "quote" >>
  BY <1>1, FixedRules DEF BeginString
<1>5. n = 1 /\ cur' - prev' = 1
  BY <1>1, <1>2, <1>4
<1>6. Decoding(s)[1] = << >>
  <2>1. 1 \in 1 .. Len(s)
    BY <1>1, <1>5
  <2> QED
    BY <1>1, <2>1, DecodingRecursion DEF DecodingStep
<1> QED
  BY <1>2, <1>3, <1>5, <1>6

\* A character of a string is decoded.
LEMMA StringDecoded ==
  ASSUME Typed, Stage, StringBegun, Valued, Backslash \/ StringChar
  PROVE  literal' = Decoding(Text(prev, cur)')[cur' - prev']
<1> DEFINE s == Text(prev, cur)
<1>1. /\ pc = "scan" /\ cond \in {"String", "Escape"} /\ ~AtEnd
      /\ UNCHANGED << src, prev >> /\ cur' = cur + 1
  BY DEF Backslash, StringChar, PlainChar, SimpleEscape, PushChar, Scan, Turn
<1>2. Char0 \in Char /\ cur \in prev .. Len(src) - 1 /\ prev \in 0 .. Len(src) /\ cur \in Nat /\ prev \in Nat
      /\ cur \in prev .. Len(src) /\ prev < cur
  BY <1>1, CharAhead DEF Typed, Stage
<1>3. s \in Seq(Char) /\ Len(s) = cur - prev
  BY <1>2, TextIsText
<1>4. Text(prev, cur)' = Append(s, Char0)
  <2>1. Text(prev, cur + 1) = Append(s, Char0)
    BY <1>2, TextLonger DEF Char0
  <2> QED
    BY <1>1, <2>1 DEF Text
<1>5. Unended(s) /\ (Escapes(s, Len(s)) <=> cond = "Escape") /\ literal = Decoding(s)[Len(s)]
  BY <1>1, <1>3 DEF StringBegun, Valued
<1> HIDE DEF s
<1>6. cur' - prev' = Len(s) + 1 /\ Len(s) > 0
  BY <1>1, <1>2, <1>3
<1>7. Decoding(Append(s, Char0))[Len(s) + 1] =
        IF Escapes(Append(s, Char0), Len(s) + 1) THEN literal
        ELSE Append(literal, IF cond = "Escape" THEN Escaped[Char0] ELSE Char0)
  BY <1>2, <1>3, <1>5, <1>6, DecodingLonger
<1>8. CASE Backslash
  <2>1. cond = "String" /\ Char0 = "bslash" /\ literal' = literal
    BY <1>8 DEF Backslash, Scan
  <2>2. Escapes(Append(s, Char0), Len(s) + 1)
    BY <1>2, <1>3, <1>5, <2>1, StringLonger
  <2> QED
    BY <1>4, <1>6, <1>7, <2>1, <2>2
<1>9. CASE PlainChar /\ PushChar(Char0)
  <2>1. cond = "String" /\ Char0 \notin {"quote", "bslash", "nl"} /\ literal' = Append(literal, Char0)
    BY <1>9 DEF PushChar, PlainChar, Scan
  <2>2. ~Escapes(Append(s, Char0), Len(s) + 1)
    BY <1>2, <1>3, <1>5, <2>1, StringLonger
  <2> QED
    BY <1>4, <1>6, <1>7, <2>1, <2>2
<1>10. CASE SimpleEscape /\ PushChar(Escaped[Char0])
  <2>1. cond = "Escape" /\ Char0 # "nl" /\ literal' = Append(literal, Escaped[Char0])
    BY <1>10 DEF PushChar, SimpleEscape, Escaped, Scan
  <2>2. ~Escapes(Append(s, Char0), Len(s) + 1)
    BY <1>2, <1>3, <1>5, <2>1, StringLonger
  <2> QED
    BY <1>4, <1>6, <1>7, <2>1, <2>2
<1> QED
  BY <1>8, <1>9, <1>10 DEF StringChar

\* The literal of a string that ends is what its characters stand for.
LEMMA StringValue ==
  ASSUME Typed, Stage, StringBegun, Valued, StringEnd
  PROVE  literal = Decoded(Text(prev, cur + 1))
<1> DEFINE s == Text(prev, cur)
<1>1. pc = "scan" /\ cond = "String" /\ ~AtEnd
  BY DEF StringEnd, Scan
<1>2. Char0 \in Char /\ cur \in prev .. Len(src) - 1 /\ prev \in 0 .. Len(src) /\ cur \in prev .. Len(src)
      /\ prev < cur
  BY <1>1, CharAhead DEF Typed, Stage
<1>3. s \in Seq(Char) /\ Len(s) = cur - prev
  BY <1>2, TextIsText
<1>4. Text(prev, cur + 1) = Append(s, Char0)
  BY <1>2, TextLonger DEF Char0
<1>5. literal = Decoding(s)[Len(s)]
  BY <1>1, <1>3 DEF Valued
<1> HIDE DEF s
<1>6. Len(s) > 0 /\ Len(Append(s, Char0)) - 1 = Len(s) /\ Len(s) \in 1 .. Len(s)
  BY <1>2, <1>3
<1>7. Decoding(Append(s, Char0))[Len(s)] = Decoding(s)[Len(s)]
  BY <1>2, <1>3, <1>6, DecodingLonger
<1> QED
  BY <1>4, <1>5, <1>6, <1>7 DEF Decoded

\* The failures that may still happen are no more than they were.
LEMMA FailuresNext == Typed /\ [Next]_vars => oom' <= oom
<1> SUFFICES ASSUME Typed, [Next]_vars
             PROVE  oom' <= oom
  OBVIOUS
<1>1. oom \in Nat
  BY MaxOOMAssumption DEF Typed
<1>2. CASE UNCHANGED oom
  BY <1>1, <1>2
<1>3. CASE oom' = oom - 1
  BY <1>1, <1>3
<1>4. UNCHANGED oom \/ oom' = oom - 1
  BY DEF Next, Lex, Terminating, vars, NewToken, ScanInitial, BeginComment, BeginString, Simple, Number,
         Unrecognized, Extension, EndOfInput, StringEnd, Backslash, StringError, StringChar, PushChar,
         BeginNumericEscape, NextDigit, Undefined, EscapeError, CommentEnd, CommentChar, CommentError,
         LineCommentEnd, LineCommentChar, Push, PushEnd, EndTokenNull, OutOfMemory, Error
<1> QED
  BY <1>2, <1>3, <1>4

\* A token that is no literal has no value, and one whose extension could not be
\* allocated has a null one.
LEMMA WithoutValue ==
  ASSUME NEW kind, NEW from, NEW to
  PROVE  /\ kind # "StringLiteral" => ValueAsWritten(kind, NoValue, from, to)
         /\ oom < MaxOOM => ValueAsWritten(kind, NullValue, from, to)
BY DEF ValueAsWritten, NoValue, NullValue, Value

\* Every step keeps what is known of values.
LEMMA ValuedNext == Typed /\ Stage /\ Written /\ Valued /\ [Next]_vars => Valued'
<1> SUFFICES ASSUME Typed, Stage, Written, Valued, [Next]_vars
             PROVE  Valued'
  OBVIOUS
<1>1. ASSUME pc' \notin {"scan", "push"} \/ (pc' = "scan" /\ cond' \in {"Comment", "LineComment"})
      PROVE  Valued'
  BY <1>1 DEF Valued
<1>2. ASSUME pc' = "push", ValueAsWritten(token.kind, token.value, prev, cur)'
      PROVE  Valued'
  BY <1>2 DEF Valued
<1>3. ASSUME pc' = "scan", cond' \in {"String", "Escape"}, literal' = Decoding(Text(prev, cur)')[cur' - prev']
      PROVE  Valued'
  BY <1>3 DEF Valued
<1>4. ASSUME token'.value = NoValue, token'.kind # "StringLiteral"
      PROVE  ValueAsWritten(token.kind, token.value, prev, cur)'
  BY <1>4 DEF ValueAsWritten, NoValue, NullValue, Value
<1>5. ASSUME NEW kind, token' = [kind |-> kind, value |-> NullValue], oom' = oom - 1, oom > 0
      PROVE  ValueAsWritten(token.kind, token.value, prev, cur)'
  <2>1. oom' < MaxOOM /\ token'.value = NullValue
    BY <1>5, MaxOOMAssumption DEF Typed
  <2> QED
    BY <2>1 DEF ValueAsWritten, NullValue, Value
<1>6. CASE NewToken
  BY <1>6 DEF NewToken, Stage, Valued
<1>7. CASE ScanInitial
  <2>1. PICK r \in DOMAIN Rules, n \in Lengths :
          /\ Match(r, n)
          /\ \/ BeginComment(Rules[r], n) \/ BeginString(Rules[r], n) \/ Simple(Rules[r], n)
             \/ Number(Rules[r], n) \/ Unrecognized(Rules[r], n)
    BY <1>7 DEF ScanInitial
  <2>2. cur = prev
    BY <2>1 DEF Match, Stage
  <2>3. CASE BeginComment(Rules[r], n)
    BY <1>1, <2>1, <2>3, CommentOpens
  <2>4. CASE BeginString(Rules[r], n)
    BY <1>3, <2>1, <2>4, StringOpens, StringOpensEmpty
  <2>5. CASE Simple(Rules[r], n)
    <3>1. token'.value = NoValue /\ token'.kind # "StringLiteral" /\ pc' = "push"
      BY <2>5 DEF Simple, Complete, Special
    <3> QED
      BY <1>2, <1>4, <3>1
  <2>6. CASE Number(Rules[r], n)
    <3>1. PICK end \in ReadEnds(Rules[r], prev, cur + n) :
            Extension(KindOf(Rules[r]), Value("number", Text(prev, end)))
      BY <2>6 DEF Number
    <3>2. pc' = "push" /\ cur' = cur + n /\ UNCHANGED << src, prev >>
      BY <2>6, <3>1 DEF Number, Extension, Complete, Turn
    <3>3. KindOf(Rules[r]) # "StringLiteral" /\ Rules[r] \in NumberRules
      BY <2>6 DEF Number, NumberRules, UIntRules, KindOf
    <3>4. CASE Complete(KindOf(Rules[r]), Value("number", Text(prev, end))) /\ UNCHANGED oom
      <4> DEFINE v == Text(cur, end)  s == Text(cur, cur + n)
      <4>1. \/ v = s
            \/ /\ KindOf(Rules[r]) = "F64Literal" /\ SubSeq(v, 1, Len(s)) = s
               /\ src[cur + n + 1] = "e" /\ src[cur + n + 2] \in Digit
            \/ KindOf(Rules[r]) = "UIntLiteral" /\ s[2] = "b" /\ v = << "0" >>
        BY <2>1, <2>2, <3>1, <3>3, NumberValue
      <4>2. token'.kind = KindOf(Rules[r]) /\ token'.value = [form |-> "number", text |-> v]
        BY <2>2, <3>4 DEF Complete, Value
      <4>3. Text(prev, cur)' = s
        BY <2>2, <3>2 DEF Text
      <4> HIDE DEF v, s
      <4>4. token'.value.form = "number" /\ token'.value.text = v
        BY <4>2
      <4>5. ValueAsWritten(token.kind, token.value, prev, cur)'
        BY <2>2, <3>2, <3>3, <4>1, <4>2, <4>3, <4>4 DEF ValueAsWritten
      <4> QED
        BY <1>2, <3>2, <4>5
    <3>5. CASE oom > 0 /\ oom' = oom - 1 /\ Complete(KindOf(Rules[r]), NullValue)
      BY <1>2, <1>5, <3>2, <3>5 DEF Complete
    <3> QED
      BY <3>1, <3>4, <3>5 DEF Extension
  <2>7. CASE Unrecognized(Rules[r], n)
    BY <1>1, <2>7 DEF Unrecognized, Error, Return
  <2> QED
    BY <2>1, <2>3, <2>4, <2>5, <2>6, <2>7
<1>8. CASE Backslash \/ StringChar
  <2>1. StringBegun
    BY <1>8 DEF Backslash, StringChar, PlainChar, SimpleEscape, Scan, Written
  <2> QED
    BY <1>3, <1>8, <2>1, StringGoesOn, StringDecoded
<1>9. CASE StringEnd
  <2>1. StringBegun
    BY <1>9 DEF StringEnd, Scan, Written
  <2>2. literal = Decoded(Text(prev, cur + 1))
    BY <1>9, <2>1, StringValue
  <2>3. pc' = "push" /\ cur' = cur + 1 /\ UNCHANGED << src, prev >>
    BY <1>9 DEF StringEnd, Extension, Complete, Turn
  <2>4. CASE Complete("StringLiteral", Value("string", literal))
    <3>1. token'.kind = "StringLiteral" /\ token'.value = [form |-> "string", text |-> literal]
      BY <2>4 DEF Complete, Value
    <3>2. Text(prev, cur)' = Text(prev, cur + 1)
      BY <2>3 DEF Text
    <3>3. token'.value # NullValue /\ token'.value.form = "string" /\ token'.value.text = literal
      BY <3>1 DEF NullValue, Value
    <3>4. ValueAsWritten(token.kind, token.value, prev, cur)'
      BY <2>2, <3>1, <3>2, <3>3 DEF ValueAsWritten
    <3> QED
      BY <1>2, <2>3, <3>4
  <2>5. CASE oom > 0 /\ oom' = oom - 1 /\ Complete("StringLiteral", NullValue)
    BY <1>2, <1>5, <2>3, <2>5 DEF Complete
  <2> QED
    BY <1>9, <2>4, <2>5 DEF StringEnd, Extension
<1>10. CASE CommentChar \/ LineCommentChar
  BY <1>1, <1>10 DEF CommentChar, LineCommentChar, Scan, Continue, Turn
<1>11. CASE CommentEnd \/ LineCommentEnd
  <2>1. token.value = NoValue /\ token.kind # "StringLiteral" /\ token' = token /\ pc' = "push"
    BY <1>11 DEF CommentEnd, LineCommentEnd, Scan, Stage
  <2> QED
    BY <1>2, <1>4, <2>1
<1>12. CASE EndOfInput \/ BeginNumericEscape \/ NextDigit \/ Push \/ PushEnd
  BY <1>1, <1>12 DEF EndOfInput, BeginNumericEscape, NextDigit, Push, PushEnd
<1>13. CASE StringError \/ Undefined \/ EscapeError \/ CommentError \/ EndTokenNull \/ OutOfMemory
  BY <1>1, <1>13 DEF StringError, Undefined, EscapeError, CommentError, EndTokenNull, OutOfMemory, Error, Return
<1>14. CASE UNCHANGED vars
  BY <1>14 DEF vars, Valued, ValueAsWritten, Text
<1> QED
  BY <1>6, <1>7, <1>8, <1>9, <1>10, <1>11, <1>12, <1>13, <1>14 DEF Next, Lex, Terminating

\* A token that is added has the value it is written with.
LEMMA ListValuedNext ==
  Typed /\ Stage /\ Valued /\ LiteralsAsWritten /\ [Next]_vars => LiteralsAsWritten'
<1> SUFFICES ASSUME Typed, Stage, Valued, LiteralsAsWritten, [Next]_vars
             PROVE  LiteralsAsWritten'
  OBVIOUS
<1>1. oom' <= oom /\ oom \in Nat
  BY FailuresNext, MaxOOMAssumption DEF Typed
<1>2. Typed'
  BY TypedNext
<1>3. oom < MaxOOM => oom' < MaxOOM
  BY <1>1, <1>2, MaxOOMAssumption DEF Typed
<1>4. ASSUME UNCHANGED src, NEW k \in DOMAIN tokens',
             ValueAsWritten(tokens'[k].kind, tokens'[k].value, tokens'[k].from, tokens'[k].to)
      PROVE  ValueAsWritten(tokens[k].kind, tokens[k].value, tokens[k].from, tokens[k].to)'
  BY <1>3, <1>4 DEF ValueAsWritten, Text
<1>5. ASSUME NEW e, tokens' = Append(tokens, e), UNCHANGED src, ValueAsWritten(e.kind, e.value, e.from, e.to)
      PROVE  LiteralsAsWritten'
  <2>1. tokens \in Seq(Entries)
    BY DEF Typed
  <2>2. /\ DOMAIN tokens' = DOMAIN tokens \cup {Len(tokens) + 1}
        /\ tokens'[Len(tokens) + 1] = e /\ \A k \in DOMAIN tokens : tokens'[k] = tokens[k]
    BY <1>5, <2>1
  <2>3. ASSUME NEW k \in DOMAIN tokens'
        PROVE  ValueAsWritten(tokens[k].kind, tokens[k].value, tokens[k].from, tokens[k].to)'
    <3>1. ValueAsWritten(tokens'[k].kind, tokens'[k].value, tokens'[k].from, tokens'[k].to)
      BY <1>5, <2>2 DEF LiteralsAsWritten
    <3> QED
      BY <1>4, <1>5, <3>1
  <2> QED
    BY <2>3 DEF LiteralsAsWritten
<1>6. CASE Push
  <2>1. ValueAsWritten(token.kind, token.value, prev, cur)
    BY <1>6 DEF Push, Valued
  <2>2. /\ NewEntry(prev, cur).kind = token.kind /\ NewEntry(prev, cur).from = prev
        /\ NewEntry(prev, cur).to = cur /\ NewEntry(prev, cur).value = token.value
    BY DEF NewEntry
  <2> QED
    BY <1>5, <1>6, <2>1, <2>2 DEF Push
<1>7. CASE PushEnd
  <2>1. ValueAsWritten("End", NoValue, cur, cur)
    BY WithoutValue
  <2> QED
    BY <1>5, <1>7, <2>1 DEF PushEnd
<1>8. CASE ~Push /\ ~PushEnd
  <2>1. UNCHANGED << src, tokens >>
    BY <1>8, ListKept
  <2>2. ASSUME NEW k \in DOMAIN tokens'
        PROVE  ValueAsWritten(tokens[k].kind, tokens[k].value, tokens[k].from, tokens[k].to)'
    <3>1. ValueAsWritten(tokens'[k].kind, tokens'[k].value, tokens'[k].from, tokens'[k].to)
      BY <2>1 DEF LiteralsAsWritten
    <3> QED
      BY <1>4, <2>1, <3>1
  <2> QED
    BY <2>2 DEF LiteralsAsWritten
<1> QED
  BY <1>6, <1>7, <1>8

-----------------------------------------------------------------------------
(* The theorems. *)

\* What is known of the token the scanner is in and of those in the list.
TextInv == Written /\ TokensAsWritten /\ Valued /\ LiteralsAsWritten

\* Together with the invariant of the stages it is inductive.
THEOREM TextInvariance == Spec => []TextInv
<1>1. ASSUME Init
      PROVE  TextInv
  BY <1>1 DEF Init, TextInv, Written, TokensAsWritten, Valued, LiteralsAsWritten
<1>2. ASSUME IInv, TextInv, [Next]_vars
      PROVE  TextInv'
  BY <1>2, WrittenNext, ListWrittenNext, ValuedNext, ListValuedNext DEF IInv, TextInv
<1> QED
  BY <1>1, <1>2, Invariance, PTL DEF Spec

\* No word, number, comment or string is split or runs on, and each reads as
\* the kind it is given, for every text.
THEOREM TokensReadAsWritten == Spec => []TokensAsWritten
BY TextInvariance, PTL DEF TextInv

\* Every string and every number has the value its own text stands for, but for
\* the exponents and the binary numbers the conversions misread.
THEOREM LiteralsReadAsWritten == Spec => []LiteralsAsWritten
BY TextInvariance, PTL DEF TextInv

-----------------------------------------------------------------------------
(* Progress.  A step consumes a character or leaves less to do without one,  *)
(* except in the loop over the digits of an escape when a byte cannot count  *)
(* the characters of its string.                                             *)

Stuck == pc = "digits" /\ cur - prev >= ByteModulus

\* At most how many steps lex can still take at this character.
StepsAt == [done |-> 0, end |-> 1, token |-> 4, push |-> 5]
Left ==
  IF pc = "digits" THEN IF digit < cur - prev THEN cur - prev - digit + 1 ELSE 1
  ELSE IF pc = "scan" THEN IF cond = "Initial" THEN 3 ELSE 6
  ELSE StepsAt[pc]

Nearer == cur' > cur \/ (cur' = cur /\ Left' < Left)

\* What is left is a number.
LEMMA LeftType ==
  ASSUME Typed
  PROVE  /\ Left \in Nat /\ cur \in 0 .. Len(src)
         /\ pc # "done" => Left > 0
         /\ cur \in Nat /\ prev \in Nat /\ digit \in Nat /\ digit < ByteModulus
<1>1. cur \in Nat /\ prev \in Nat /\ digit \in Nat /\ digit < ByteModulus /\ Len(src) \in Nat
  BY ModuliAssumption DEF Typed
<1>2. pc \in {"done", "end", "token", "push"} =>
        StepsAt[pc] \in Nat /\ (pc # "done" => StepsAt[pc] > 0)
  BY DEF StepsAt
<1> QED
  BY <1>1, <1>2 DEF Typed, Left

\* The text is only read.
LEMMA SourceStays ==
  ASSUME Next
  PROVE  UNCHANGED src
BY DEF Next, Lex, NewToken, ScanInitial, BeginComment, BeginString, Simple, Number, Unrecognized,
   EndOfInput, StringEnd, Backslash, StringError, StringChar, PushChar, BeginNumericEscape,
   NextDigit, Undefined, EscapeError, CommentEnd, CommentChar, CommentError, LineCommentEnd,
   LineCommentChar, Push, PushEnd, EndTokenNull, OutOfMemory, Terminating, vars, Turn, Return, Error

\* Every step but those of a scanner that is done or stuck comes nearer to the end.
LEMMA EveryTurnNearer ==
  ASSUME Typed, Stage, Next, pc # "done", ~Stuck
  PROVE  Nearer
<1>0. Left \in Nat /\ Left > 0 /\ cur \in Nat /\ prev \in Nat /\ digit \in Nat /\ digit < ByteModulus
  BY LeftType
<1>a. ASSUME NEW n \in Nat, n > 0, cur' = cur + n
      PROVE  Nearer
  BY <1>0, <1>a DEF Nearer
<1>d. ASSUME pc' = "done", UNCHANGED cur
      PROVE  Nearer
  BY <1>0, <1>d DEF Nearer, Left, StepsAt
<1>1. CASE NewToken
  BY <1>0, <1>1 DEF NewToken, Stage, Nearer, Left, StepsAt
<1>2. CASE ScanInitial
  <2>1. PICK r \in DOMAIN Rules, n \in Lengths :
             \/ BeginComment(Rules[r], n) \/ BeginString(Rules[r], n) \/ Simple(Rules[r], n)
             \/ Number(Rules[r], n) \/ Unrecognized(Rules[r], n)
    BY <1>2 DEF ScanInitial
  <2>2. n \in Nat /\ n > 0
    BY DEF Lengths
  <2>3. cur' = cur + n \/ (pc' = "done" /\ UNCHANGED cur)
    BY <2>1 DEF BeginComment, BeginString, Simple, Number, Unrecognized, Error, Return, Turn
  <2> QED
    BY <1>a, <1>d, <2>2, <2>3
<1>3. CASE EndOfInput
  BY <1>0, <1>3 DEF EndOfInput, Scan, Nearer, Left, StepsAt
<1>4. CASE StringEnd \/ Backslash \/ StringChar \/ CommentEnd \/ CommentChar \/ LineCommentChar
  <2>1. cur' = cur + 1 \/ cur' = cur + 2
    BY <1>4 DEF StringEnd, Backslash, StringChar, PushChar, CommentEnd, CommentChar,
       LineCommentChar, Turn
  <2> QED
    BY <1>a, <2>1
<1>5. CASE StringError \/ Undefined \/ EscapeError \/ CommentError
  BY <1>d, <1>5 DEF StringError, Undefined, EscapeError, CommentError, Error, Return
<1>6. CASE BeginNumericEscape
  <2>1. \E n \in NumericLengths : cur' = cur + n
    BY <1>6 DEF BeginNumericEscape
  <2>2. \A n \in NumericLengths : n \in Nat /\ n > 0
    BY DEF NumericLengths
  <2> QED
    BY <1>a, <2>1, <2>2
<1>7. CASE NextDigit
  <2>1. /\ pc = "digits" /\ pc' = "digits" /\ UNCHANGED << cur, prev >>
        /\ digit < cur - prev /\ digit' = (digit + 1) % ByteModulus
    BY <1>7 DEF NextDigit
  <2>2. cur - prev < ByteModulus /\ cur - prev \in Int
    BY <1>0, <2>1, ModuliAssumption DEF Stuck
  <2>3. digit + 1 < ByteModulus /\ ByteModulus \in Nat
    BY <1>0, <2>1, <2>2, ModuliAssumption
  <2>4. digit' = digit + 1
    BY <1>0, <2>1, <2>3
  <2> QED
    BY <1>0, <2>1, <2>4 DEF Nearer, Left
<1>8. CASE LineCommentEnd
  <2>1. \/ cur' = cur + 1
        \/ cur' = cur /\ pc' = "push" /\ pc = "scan" /\ cond = "LineComment"
    BY <1>0, <1>8 DEF LineCommentEnd, Scan, Turn
  <2> QED
    BY <1>a, <2>1 DEF Nearer, Left, StepsAt
<1>9. CASE Push
  BY <1>0, <1>9 DEF Push, Nearer, Left, StepsAt
<1>10. CASE PushEnd \/ EndTokenNull \/ OutOfMemory
  BY <1>d, <1>10 DEF PushEnd, EndTokenNull, OutOfMemory, Return
<1>11. CASE Terminating
  BY <1>11 DEF Terminating
<1> QED
  BY <1>1, <1>2, <1>3, <1>4, <1>5, <1>6, <1>7, <1>8, <1>9, <1>10, <1>11 DEF Next, Lex

\* lex ends on every text: a step consumes a character, of which there are so
\* many, or leaves a smaller number of steps at this one.  The one exception is
\* an escape so far into its string that a byte cannot count the characters.
THEOREM ScanningProgresses ==
  Spec => /\ [](Left \in Nat /\ cur \in 0 .. Len(src))
          /\ [][pc # "done" /\ ~Stuck => UNCHANGED src /\ Nearer]_vars
<1>1. IInv => Left \in Nat /\ cur \in 0 .. Len(src)
  BY LeftType DEF IInv
<1>2. IInv /\ [Next]_vars => [pc # "done" /\ ~Stuck => UNCHANGED src /\ Nearer]_vars
  <2> SUFFICES ASSUME IInv, Next, pc # "done", ~Stuck
               PROVE  UNCHANGED src /\ Nearer
    OBVIOUS
  <2>1. UNCHANGED src
    BY SourceStays
  <2> QED
    BY <2>1, EveryTurnNearer DEF IInv
<1> QED
  BY <1>1, <1>2, Invariance, PTL DEF Spec
=============================================================================
