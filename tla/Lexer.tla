-------------------------------- MODULE Lexer --------------------------------
(***************************************************************************)
(* Lexer::lex (ast/lexer.in.cpp): the characters of the source file become *)
(* the list of tokens the parser reads.                                    *)
(*                                                                         *)
(* A step is one turn of the loop around the scanner re2c generates: the   *)
(* longest text a rule of the current condition matches, the first of such *)
(* rules when there are several, and that rule's action.  re2c's own part, *)
(* the matching, the end-of-input rule included, is taken as re2c documents*)
(* it.  Positions are offsets into the source, from 0 on.                  *)
(*                                                                         *)
(* A character stands for a class of characters: i for the letters no rule *)
(* names, 8 for the digits that are not octal (1 to 7 are as 8 where a     *)
(* number begins and as 0 inside it, and left out), sp for blanks, # for   *)
(* what begins no token; and the operators and keywords of a single rule   *)
(* each are represented by a few of them.                                  *)
(***************************************************************************)
EXTENDS Integers, Sequences, FiniteSets

CONSTANTS
  Sources,       \* the texts to be lexed
  SizeModulus,   \* 2^w of size_t, in which columns are computed
  ByteModulus,   \* 2^w of uint_fast8_t, which counts the digits of an escape
  MaxOOM         \* bound on the failing allocations

Letter == {"i", "b", "e", "f", "x"}
Octal == {"0"}
Digit == {"0", "8"}
Hex == {"0", "8", "b", "e", "f"}
Binary == {"0"}
Char == Letter \cup Digit \cup {".", "quote", "bslash", "nl", "/", "*", "sp", "#"}

\* The length of a text is a size_t.
ASSUME SourcesAssumption == \A s \in Sources : s \in Seq(Char) /\ Len(s) < SizeModulus
ASSUME ModuliAssumption == SizeModulus \in Nat \ {0} /\ ByteModulus \in Nat \ {0, 1}
ASSUME MaxOOMAssumption == MaxOOM \in Nat

VARIABLES
  src,       \* the source text
  cur,       \* YYCURSOR
  prev,      \* prev_yycursor: where the token begins
  cond,      \* YYCONDITION
  token,     \* token: its kind and its value (ex_data)
  literal,   \* str_literal
  digit,     \* i, the loop variable of a numeric escape
  tokens,    \* token_list
  pc,        \* what comes next: "token", "scan", "digits", "push", "end", "done"
  result,    \* what lex returned: a kind, and the location of an error
  oom        \* allocations that may still fail

vars == << src, cur, prev, cond, token, literal, digit, tokens, pc, result, oom >>

-----------------------------------------------------------------------------
(* The rules. *)

All(s, chars) == \A j \in DOMAIN s : s[j] \in chars

\* Digits on both sides of a dot.
Decimal(s) ==
  \E d \in 2 .. Len(s) - 1 :
    s[d] = "." /\ All(SubSeq(s, 1, d - 1), Digit) /\ All(SubSeq(s, d + 1, Len(s)), Digit)

FixedText ==
  [ DocumentationComment |-> << "/", "/", "/" >>, LineComment |-> << "/", "/" >>,
    BlockComment |-> << "/", "*" >>, MulOp |-> << "*" >>, DivOp |-> << "/" >>,
    I8TypeName |-> << "i", "8" >>, VarArg |-> << ".", ".", "." >>, Dot |-> << "." >>,
    StringLiteral |-> << "quote" >>, NewLine |-> << "nl" >> ]

\* The rules of the initial condition, in their order.
Rules ==
  << "DocumentationComment", "LineComment", "BlockComment", "MulOp", "DivOp",
     "I8TypeName", "VarArg", "Dot", "Id", "OctLiteral", "IntLiteral", "HexLiteral",
     "BinLiteral", "F32Literal", "F64Literal", "StringLiteral", "NewLine", "Whitespace", "Unrecognized" >>

Matches(rule, s) ==
  CASE rule \in DOMAIN FixedText -> s = FixedText[rule]
    [] rule = "Id" -> s[1] \in Letter /\ All(s, Letter \cup Digit)
    [] rule = "OctLiteral" -> Len(s) > 1 /\ s[1] = "0" /\ All(s, Octal)
    [] rule = "IntLiteral" -> All(s, Digit)
    [] rule = "HexLiteral" ->
         Len(s) > 2 /\ s[1] = "0" /\ s[2] = "x" /\ All(SubSeq(s, 3, Len(s)), Hex)
    [] rule = "BinLiteral" ->
         Len(s) > 2 /\ s[1] = "0" /\ s[2] = "b" /\ All(SubSeq(s, 3, Len(s)), Binary)
    [] rule = "F32Literal" -> s[Len(s)] = "f" /\ Decimal(SubSeq(s, 1, Len(s) - 1))
    [] rule = "F64Literal" -> Decimal(s)
    [] rule = "Whitespace" -> All(s, {"sp"})
    [] rule = "Unrecognized" -> Len(s) = 1

AtEnd == cur = Len(src)
Text(from, to) == SubSeq(src, from + 1, to)
Char0 == src[cur + 1]

Fits(r, n) == Matches(Rules[r], Text(cur, cur + n))

\* The initial condition's match: n characters, by the r-th rule.
Lengths == 1 .. Len(src) - cur
Match(r, n) ==
  /\ pc = "scan" /\ cond = "Initial"
  /\ Fits(r, n)
  /\ \A q \in 1 .. r - 1 : ~Fits(q, n)
  /\ \A m \in n + 1 .. Len(src) - cur : \A q \in DOMAIN Rules : ~Fits(q, m)

-----------------------------------------------------------------------------
(* Positions. *)

NewLines(k) == {p \in 0 .. Len(src) - 1 : p <= k /\ src[p + 1] = "nl"}
LastNewLine(k) == CHOOSE p \in NewLines(k) : \A q \in NewLines(k) : q <= p

Position(line, column) == [line |-> line, column |-> column]
Unset == Position(SizeModulus - 1, SizeModulus - 1)
Line(k) == Cardinality({p \in 0 .. k - 1 : src[p + 1] = "nl"})

\* Mutant: columns count from the newline, as those of ends and errors do.
BeginColumnFromNewLine(k) == IF NewLines(k) = {} THEN k ELSE k - LastNewLine(k)

\* find_last_of looks at the character at k too: a newline's own column wraps.
BeginColumn(k) ==
  IF NewLines(k) = {} THEN k ELSE (k - LastNewLine(k) - 1) % SizeModulus

\* The columns of ends and of errors start at 1 on all lines but the first.
Column(k) == IF NewLines(k) = {} THEN k ELSE k - LastNewLine(k)

-----------------------------------------------------------------------------
(* Values.  A number is represented by the text its conversion reads.       *)

Value(form, text) == [form |-> form, text |-> text]
NoValue == Value("none", << >>)
NullValue == Value("null", << >>)

UIntRules == {"OctLiteral", "HexLiteral", "BinLiteral"}
NumberRules == UIntRules \cup {"IntLiteral", "F32Literal", "F64Literal"}
KindOf(rule) == IF rule \in UIntRules THEN "UIntLiteral" ELSE rule

\* strtod is not told where the token ends: it reads an exponent that follows.
Exponent(to) ==
  {n \in to + 2 .. Len(src) : src[to + 1] = "e" /\ All(Text(to + 1, n), Digit)}
Longest(ends) == CHOOSE n \in ends : \A m \in ends : m <= n
\* Where the conversion of a number stops that begins at from and whose token
\* ends at to.  Before C23 strtoul knows no 0b and stops after the 0.
ReadEnds(rule, from, to) ==
  CASE rule = "F64Literal" -> {Longest(Exponent(to) \cup {to})}
    [] rule = "BinLiteral" -> {from + 1, to}
    [] OTHER -> {to}

-----------------------------------------------------------------------------
NoResult == [kind |-> "none", begin |-> Unset, end |-> Unset]
Ended(kind) == [NoResult EXCEPT !.kind = kind]
UnknownToken == [kind |-> "Unknown", value |-> NoValue]

Init ==
  /\ src \in Sources
  /\ cur = 0 /\ prev = 0
  /\ cond = "Initial"
  /\ token = UnknownToken /\ literal = << >> /\ digit = 0
  /\ tokens = << >>
  /\ pc = "token" /\ result = NoResult
  /\ oom = MaxOOM

\* lex returns, or does not go on.
Return(r) ==
  /\ result' = r /\ pc' = "done"
  /\ UNCHANGED << src, cur, prev, cond, token, literal, digit, tokens >>

\* lex returns an error about what lies between prev_yycursor and YYCURSOR,
\* n characters on.
Error(kind, n) ==
  /\ Return([ kind |-> kind, begin |-> Position(Line(prev), Column(prev)),
              end |-> Position(Line(cur + n), Column(cur + n)) ])
  /\ UNCHANGED oom

\* Mutant: the literal is declared outside of the loop.
NewTokenKeepsLiteral ==
  /\ pc = "token"
  /\ token' = UnknownToken /\ pc' = "scan"
  /\ UNCHANGED << src, cur, prev, cond, literal, digit, tokens, result, oom >>

NewToken ==
  /\ pc = "token"
  /\ token' = UnknownToken /\ literal' = << >> /\ pc' = "scan"
  /\ UNCHANGED << src, cur, prev, cond, digit, tokens, result, oom >>

\* A turn of the inner loop that matches n characters, under condition c.
Scan(c) == pc = "scan" /\ cond = c
Turn(n, c) ==
  /\ cur' = cur + n /\ cond' = c
  /\ UNCHANGED << src, prev, digit, tokens, result >>
\* The token is complete: break.
Complete(kind, value) == token' = [kind |-> kind, value |-> value] /\ pc' = "push"
Continue == UNCHANGED << token, pc >>

-----------------------------------------------------------------------------
(* InitialCondition *)

CommentRules == {"DocumentationComment", "LineComment", "BlockComment"}
Special == CommentRules \cup NumberRules \cup {"StringLiteral", "Unrecognized"}

\* Mutant: the star of the opening is left to be matched again.
BeginCommentSlash(rule, n) ==
  /\ \/ rule = "BlockComment" /\ Turn(1, "Comment")
     \/ rule \in CommentRules \ {"BlockComment"} /\ Turn(n, "LineComment")
  /\ token' = [token EXCEPT !.kind = rule]
  /\ UNCHANGED << literal, pc, oom >>

BeginComment(rule, n) ==
  /\ \/ rule = "BlockComment" /\ Turn(n, "Comment")
     \/ rule \in CommentRules \ {"BlockComment"} /\ Turn(n, "LineComment")
  /\ token' = [token EXCEPT !.kind = rule]
  /\ UNCHANGED << literal, pc, oom >>

BeginString(rule, n) ==
  /\ rule = "StringLiteral"
  /\ Turn(n, "String") /\ Continue /\ UNCHANGED << literal, oom >>

Simple(rule, n) ==
  /\ rule \notin Special
  /\ Turn(n, "Initial") /\ Complete(rule, NoValue)
  /\ UNCHANGED << literal, oom >>

\* The allocation of the token's extension is not checked.
Extension(kind, value) ==
  \/ Complete(kind, value) /\ UNCHANGED oom
  \/ oom > 0 /\ oom' = oom - 1 /\ Complete(kind, NullValue)

Number(rule, n) ==
  /\ rule \in NumberRules
  /\ Turn(n, "Initial")
  /\ \E end \in ReadEnds(rule, prev, cur + n) :
       Extension(KindOf(rule), Value("number", Text(prev, end)))
  /\ UNCHANGED literal

Unrecognized(rule, n) == rule = "Unrecognized" /\ Error("UnrecognizedToken", n)

ScanInitial ==
  \E r \in DOMAIN Rules, n \in Lengths :
    /\ Match(r, n)
    /\ \/ BeginComment(Rules[r], n) \/ BeginString(Rules[r], n) \/ Simple(Rules[r], n)
       \/ Number(Rules[r], n) \/ Unrecognized(Rules[r], n)

EndOfInput ==
  /\ Scan("Initial") /\ AtEnd
  /\ pc' = "end"
  /\ UNCHANGED << src, cur, prev, cond, token, literal, digit, tokens, result, oom >>

-----------------------------------------------------------------------------
(* StringCondition, EscapeCondition *)

StringEnd ==
  /\ Scan("String") /\ ~AtEnd /\ Char0 = "quote"
  /\ Turn(1, "Initial") /\ Extension("StringLiteral", Value("string", literal))
  /\ UNCHANGED literal

Backslash ==
  /\ Scan("String") /\ ~AtEnd /\ Char0 = "bslash"
  /\ Turn(1, "Escape") /\ Continue /\ UNCHANGED << literal, oom >>

StringError ==
  \/ Scan("String") /\ ~AtEnd /\ Char0 = "nl" /\ Error("UnexpectedEndOfLine", 1)
  \/ Scan("String") /\ AtEnd /\ Error("PrematuredEndOfFile", 0)

PlainChar == Scan("String") /\ ~AtEnd /\ Char0 \notin {"quote", "bslash", "nl"}

\* The escapes of one letter; the other seven behave as f does.
Escaped == [quote |-> "quote", bslash |-> "bslash", b |-> "backspace", f |-> "formfeed"]
SimpleEscape == Scan("Escape") /\ ~AtEnd /\ Char0 \in DOMAIN Escaped

PushChar(c) ==
  /\ Turn(1, "String") /\ literal' = Append(literal, c)
  /\ Continue /\ UNCHANGED oom
StringChar ==
  \/ PlainChar /\ PushChar(Char0)
  \/ SimpleEscape /\ PushChar(Escaped[Char0])

\* One to three octal digits, x and one or two hexadecimal ones.
Numeric(s) ==
  \/ Len(s) \in 1 .. 3 /\ All(s, Octal)
  \/ Len(s) \in 2 .. 3 /\ s[1] = "x" /\ All(Tail(s), Hex)
NumericLengths == {n \in 1 .. Len(src) - cur : Numeric(Text(cur, cur + n))}

BeginNumericEscape ==
  /\ Scan("Escape") /\ NumericLengths # {}
  /\ \E n \in NumericLengths :
       (\A m \in NumericLengths : m <= n) /\ cur' = cur + n
  /\ cond' = "String" /\ pc' = "digits"
  /\ digit' = IF Char0 = "x" THEN 1 ELSE 0
  /\ UNCHANGED << src, prev, token, literal, tokens, result, oom >>

\* Mutant: the loop variable is as wide as the size.
NextDigitWide ==
  /\ pc = "digits" /\ digit < cur - prev
  /\ digit' = digit + 1
  /\ UNCHANGED << src, cur, prev, cond, token, literal, tokens, pc, result, oom >>

\* The loop over the digits takes those from prev_yycursor on, the start of
\* the token, and counts them in eight bits.
NextDigit ==
  /\ pc = "digits" /\ digit < cur - prev
  /\ digit' = (digit + 1) % ByteModulus
  /\ UNCHANGED << src, cur, prev, cond, token, literal, tokens, pc, result, oom >>

DigitsRead == pc = "digits" /\ digit >= cur - prev

\* Neither rule of a numeric escape ends in a jump, and no rule matches other
\* characters: control leaves the action, or the scanner, for wherever re2c
\* placed the code behind it.
NoRule == Scan("Escape") /\ ~AtEnd /\ Char0 \notin DOMAIN Escaped /\ NumericLengths = {}
Undefined == (DigitsRead \/ NoRule) /\ Return(Ended("undefined")) /\ UNCHANGED oom

EscapeError == Scan("Escape") /\ AtEnd /\ Error("PrematuredEndOfFile", 0)

-----------------------------------------------------------------------------
(* CommentCondition, LineCommentCondition *)

Closes == cur + 2 <= Len(src) /\ Text(cur, cur + 2) = << "*", "/" >>

CommentEnd ==
  /\ Scan("Comment") /\ Closes
  /\ Turn(2, "Initial") /\ pc' = "push" /\ UNCHANGED << token, literal, oom >>

CommentChar ==
  /\ Scan("Comment") /\ ~AtEnd /\ ~Closes
  /\ Turn(1, "Comment") /\ Continue /\ UNCHANGED << literal, oom >>

CommentError == Scan("Comment") /\ AtEnd /\ Error("PrematuredEndOfFile", 0)

\* Mutant: at the end of the input the scanner continues.
LineCommentEndContinues ==
  /\ Scan("LineComment")
  /\ \/ ~AtEnd /\ Char0 = "nl" /\ Turn(1, "Initial") /\ pc' = "push"
     \/ AtEnd /\ Turn(0, "LineComment") /\ UNCHANGED pc
  /\ UNCHANGED << token, literal, oom >>

\* The newline belongs to the comment; the end of the input ends one too.
LineCommentEnd ==
  /\ Scan("LineComment")
  /\ \/ ~AtEnd /\ Char0 = "nl" /\ Turn(1, "Initial")
     \/ AtEnd /\ Turn(0, "Initial")
  /\ pc' = "push" /\ UNCHANGED << token, literal, oom >>

LineCommentChar ==
  /\ Scan("LineComment") /\ ~AtEnd /\ Char0 # "nl"
  /\ Turn(1, "LineComment") /\ Continue /\ UNCHANGED << literal, oom >>

-----------------------------------------------------------------------------
(* After the inner loop *)

NewEntry(from, to) ==
  [ kind |-> token.kind, value |-> token.value, from |-> from, to |-> to,
    begin |-> Position(Line(from), BeginColumn(from)), end |-> Position(Line(to), Column(to)) ]

\* Mutant: the next token begins where this one began.
PushKeepsBegin ==
  /\ pc = "push"
  /\ tokens' = Append(tokens, NewEntry(prev, cur))
  /\ pc' = "token"
  /\ UNCHANGED << src, cur, prev, cond, token, literal, digit, result, oom >>

Push ==
  /\ pc = "push"
  /\ tokens' = Append(tokens, NewEntry(prev, cur))
  /\ prev' = cur /\ pc' = "token"
  /\ UNCHANGED << src, cur, cond, token, literal, digit, result, oom >>

\* The End token takes its location from a token that was given none; its own
\* allocation is not checked.
PushEnd ==
  /\ pc = "end"
  /\ tokens' = Append(tokens,
       [kind |-> "End", value |-> NoValue, from |-> cur, to |-> cur, begin |-> Unset, end |-> Unset])
  /\ result' = Ended("lexed") /\ pc' = "done"
  /\ UNCHANGED << src, cur, prev, cond, token, literal, digit, oom >>

EndTokenNull == pc = "end" /\ oom > 0 /\ oom' = oom - 1 /\ Return(Ended("crashed"))

\* The next step makes an allocation lex checks: of a token, of room in a
\* literal or in the list.
Allocates == pc \in {"token", "push", "end"} \/ PlainChar \/ SimpleEscape \/ DigitsRead

OutOfMemory ==
  /\ Allocates /\ oom > 0 /\ oom' = oom - 1
  /\ Return([kind |-> "OutOfMemory", begin |-> Position(0, 0), end |-> Position(0, 0)])

-----------------------------------------------------------------------------
Terminating == pc = "done" /\ UNCHANGED vars

Lex ==
  \/ NewToken \/ ScanInitial \/ EndOfInput
  \/ StringEnd \/ Backslash \/ StringError \/ StringChar
  \/ BeginNumericEscape \/ NextDigit \/ Undefined \/ EscapeError
  \/ CommentEnd \/ CommentChar \/ CommentError \/ LineCommentEnd \/ LineCommentChar
  \/ Push \/ PushEnd

Next == Lex \/ EndTokenNull \/ OutOfMemory \/ Terminating

Spec == Init /\ [][Next]_vars

\* One thread, which goes on as long as it can.  Nothing is assumed of the
\* allocations.
FairSpec == Spec /\ WF_vars(Lex)

-----------------------------------------------------------------------------
(* Properties. *)

TokenKinds ==
  ({Rules[r] : r \in DOMAIN Rules} \ (UIntRules \cup {"Unrecognized"}))
    \cup {"UIntLiteral", "End"}
Columns == 0 .. SizeModulus - 1
Positions == [line : Columns, column : Columns]
Chars(v) == v.text \in Seq(Char \cup {"backspace", "formfeed"})
Errors == {"UnrecognizedToken", "UnexpectedEndOfLine", "PrematuredEndOfFile", "OutOfMemory"}

\* The types of the variables; the digits of an escape are counted in a byte.
TypeOK ==
  /\ src \in Seq(Char)
  /\ prev \in 0 .. Len(src) /\ cur \in prev .. Len(src)
  /\ cond \in {"Initial", "String", "Escape", "Comment", "LineComment"}
  /\ token.kind \in TokenKinds \cup {"Unknown"} /\ Chars(token.value)
  /\ Chars([text |-> literal])
  /\ digit \in 0 .. ByteModulus - 1
  /\ \A k \in DOMAIN tokens :
       /\ tokens[k].kind \in TokenKinds /\ Chars(tokens[k].value)
       /\ {tokens[k].begin, tokens[k].end} \subseteq Positions
  /\ pc \in {"token", "scan", "digits", "push", "end", "done"}
  /\ result.kind \in Errors \cup {"none", "lexed", "undefined", "crashed"}
  /\ {result.begin, result.end} \subseteq Positions
  /\ oom \in 0 .. MaxOOM

\* The tokens lie side by side from the first character on, each has a text,
\* and when lex succeeds they are the whole source and one End token, the last:
\* what next_token and the parser take for granted of the list they are given.
TokensTile ==
  /\ \A k \in DOMAIN tokens :
       /\ tokens[k].from = (IF k = 1 THEN 0 ELSE tokens[k - 1].to)
       /\ tokens[k].kind # "End" => tokens[k].from < tokens[k].to
  /\ prev = (IF tokens = << >> THEN 0 ELSE tokens[Len(tokens)].to)
  /\ \A k \in DOMAIN tokens :
       tokens[k].kind = "End" <=> result.kind = "lexed" /\ k = Len(tokens)
  /\ result.kind = "lexed" => prev = Len(src)

(* What the tokens are, stated without conditions and turns. *)

\* The backslashes just before position j of s; an odd number of them escapes.
Backslashes(s, j) == Cardinality({i \in 1 .. j - 1 : All(SubSeq(s, i, j - 1), {"bslash"})})
Escapes(s, j) == s[j] = "bslash" /\ Backslashes(s, j) % 2 = 0

IsLineComment(s) ==
  /\ Len(s) > 1 /\ s[1] = "/" /\ s[2] = "/"
  /\ \A j \in 1 .. Len(s) - 1 : s[j] # "nl"
Closed(s, j) == s[j] = "*" /\ s[j + 1] = "/"
IsBlockComment(s) ==
  /\ Len(s) > 3 /\ s[1] = "/" /\ s[2] = "*"
  /\ Closed(s, Len(s) - 1) /\ \A j \in 3 .. Len(s) - 2 : ~Closed(s, j)
IsString(s) ==
  /\ Len(s) > 1 /\ s[1] = "quote"
  /\ \A j \in 2 .. Len(s) :
       /\ s[j] # "nl"
       /\ s[j] = "quote" /\ ~Escapes(s, j - 1) <=> j = Len(s)
\* The digits of an unsigned literal, and none for what is not one.
UIntDigits(s) ==
  IF Len(s) < 2 \/ s[1] # "0" THEN {}
  ELSE IF Len(s) > 2 /\ s[2] = "x" THEN Hex
  ELSE IF Len(s) > 2 /\ s[2] = "b" THEN Binary
  ELSE Octal
IsUInt(s) ==
  UIntDigits(s) # {} /\ All(SubSeq(s, IF s[2] \in {"x", "b"} THEN 3 ELSE 2, Len(s)), UIntDigits(s))

\* What stands between from and to reads as a token of that kind, and does not
\* go on after that.
AsWritten(kind, from, to) ==
  LET s == Text(from, to)
      Ends(chars) == to = Len(src) \/ src[to + 1] \notin chars
  IN
  CASE kind \in {"LineComment", "DocumentationComment"} ->
         /\ \/ IsLineComment(s) /\ s[Len(s)] = "nl"
            \/ IsLineComment(Append(s, "nl")) /\ to = Len(src)
         /\ kind = "DocumentationComment" <=> Len(s) > 2 /\ s[3] = "/"
    [] kind = "BlockComment" -> IsBlockComment(s)
    [] kind = "StringLiteral" -> IsString(s)
    [] kind \in {"Id", "I8TypeName"} ->
         /\ s[1] \in Letter /\ All(s, Letter \cup Digit) /\ Ends(Letter \cup Digit)
         /\ kind = "I8TypeName" <=> s = << "i", "8" >>
    [] kind = "IntLiteral" -> All(s, Digit) /\ ~IsUInt(s) /\ Ends(Digit)
    [] kind = "UIntLiteral" ->
         IsUInt(s) /\ Ends(IF UIntDigits(s) = Octal /\ s[2] # "b" THEN Digit ELSE UIntDigits(s))
    [] kind = "F64Literal" -> Decimal(s) /\ Ends(Digit \cup {"f"})
    [] kind = "F32Literal" -> Decimal(SubSeq(s, 1, Len(s) - 1)) /\ s[Len(s)] = "f"
    [] kind = "Whitespace" -> All(s, {"sp"}) /\ Ends({"sp"})
    [] kind = "DivOp" -> s = << "/" >> /\ Ends({"/", "*"})
    [] OTHER -> TRUE

\* No word and no number is split, no comment and no string ends before it is
\* written to end or goes on after that, and a text has the kind it reads as:
\* nothing a comment or a string contains is taken for a token.
TokensAsWritten ==
  \A k \in DOMAIN tokens : AsWritten(tokens[k].kind, tokens[k].from, tokens[k].to)

\* The characters that the first characters of a string literal stand for: one
\* for each that does not escape the next.
Decoding(s) ==
  LET D[j \in 1 .. Len(s)] ==
        IF j = 1 THEN << >>
        ELSE IF Escapes(s, j) THEN D[j - 1]
        ELSE Append(D[j - 1], IF Escapes(s, j - 1) THEN Escaped[s[j]] ELSE s[j])
  IN D
\* The quotes stand for none.
Decoded(s) == Decoding(s)[Len(s) - 1]

\* The value is that of the text between from and to as a token of that kind.
ValueAsWritten(kind, v, from, to) ==
  LET s == Text(from, to) IN
  /\ v.form = "string" <=> kind = "StringLiteral" /\ v # NullValue
  /\ v.form = "null" => oom < MaxOOM
  /\ v.form = "string" => v.text = Decoded(s)
  /\ v.form = "number" =>
       \/ v.text = s
       \/ /\ kind = "F64Literal" /\ SubSeq(v.text, 1, Len(s)) = s
          /\ src[to + 1] = "e" /\ src[to + 2] \in Digit
       \/ kind = "UIntLiteral" /\ s[2] = "b" /\ v.text = << "0" >>

\* A string has the value its own text stands for, whatever was lexed before
\* it, and so has a number, unless a fraction is followed by what looks like an
\* exponent, or the number is binary and read as 0.  A literal without a value
\* is left behind by a failed allocation only; the parser does not expect one.
LiteralsAsWritten ==
  \A k \in DOMAIN tokens :
    ValueAsWritten(tokens[k].kind, tokens[k].value, tokens[k].from, tokens[k].to)

\* Where the characters are: a line begins after each newline.
PositionAt ==
  LET P[k \in 0 .. Len(src)] ==
        IF k = 0 THEN Position(0, 0)
        ELSE IF src[k] = "nl" THEN Position(P[k - 1].line + 1, 0)
        ELSE Position(P[k - 1].line, P[k - 1].column + 1)
  IN P

\* Every token a message may name begins where its location says (newlines and
\* the End token have no usable one).  A lexical error names its line; its
\* column is one too many on every line but the first.
LocationsRight ==
  /\ \A k \in DOMAIN tokens :
       tokens[k].kind \notin {"NewLine", "End"} => tokens[k].begin = PositionAt[tokens[k].from]
  /\ result.kind \in Errors \ {"OutOfMemory"} =>
       LET p == PositionAt[prev] IN
       result.begin = Position(p.line, IF p.line = 0 THEN p.column ELSE p.column + 1)

\* lex comes to an end, unless a numeric escape begins so far into its string
\* that a byte cannot count that many digits.
Terminates == <>(pc = "done" \/ (pc = "digits" /\ cur - prev >= ByteModulus))
=============================================================================
