------------------------------ MODULE ParserMC ------------------------------
(* Inputs for the parser: programs and everything one edit away from them. *)
EXTENDS ParserGrammar

MCNames == {"A", "x"}

\* Programs that between them use every production.
Sources == {
  << "module", "A", "Dot", "x", "Semicolon", "import", "ScopeOp", "x", "Semicolon", "End" >>,
  << "module", "A", "Semicolon", "import", "x", "Dot", "A", "as", "x", "Semicolon", "End" >>,
  << "struct", "A", "LBrace", "A", "Colon", "type", "LBracket", "RBracket", "Comma", "x", "Colon", "A", "Dot",
     "x", "RBrace", "End" >>,
  << "class", "A", "LBrace", "x", "Colon", "type", "RBrace",
     "struct", "x", "LBrace", "x", "Colon", "A", "RBrace", "End" >>,
  << "enum", "A", "Colon", "type", "LBrace", "A", "AssignOp", "lit", "Comma", "x", "RBrace",
     "enum", "x", "Colon", "A", "LBrace", "x", "RBrace", "End" >> }

Delete(s, i) == SubSeq(s, 1, i - 1) \o SubSeq(s, i + 1, Len(s))
Replace(s, i, t) == [s EXCEPT ![i] = t]
Insert(s, i, t) == SubSeq(s, 1, i - 1) \o << t >> \o SubSeq(s, i, Len(s))
Truncate(s, i) == Append(SubSeq(s, 1, i), "End")

Edits(s) ==
  LET inner == 1 .. Len(s) - 1  T == Token \ {"End"} IN
  {s} \cup {Delete(s, i) : i \in inner} \cup {Truncate(s, i) : i \in 0 .. Len(s) - 1}
      \cup {Replace(s, i, t) : i \in inner, t \in T}
      \cup {Insert(s, i, t) : i \in inner, t \in T}

EditedSources == UNION {Edits(s) : s \in Sources}
CutSources ==
  UNION {{s} \cup {Delete(s, i) : i \in 1 .. Len(s) - 1} : s \in Sources}

=============================================================================
