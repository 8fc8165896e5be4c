------------------------------ MODULE LexerMC ------------------------------
(* Texts for the lexer: all short ones, and everything one edit away from    *)
(* texts that use every condition.                                           *)
EXTENDS Lexer

Short ==
  {<< a >> : a \in Char} \cup {<< a, b >> : a, b \in Char}
    \cup {<< a, b, c >> : a, b, c \in Char}

Seeds == {
  << "i", "8", ".", "0", ".", "0", "f", "nl" >>,
  << "quote", "bslash", "f", "bslash", "bslash", "quote", "i" >>,
  << "quote", "f", "quote", "nl", "quote", "bslash", "0", "quote" >>,
  << "/", "/", "i", "nl", "i", "sp", "i", "8" >>,
  << "/", "*", "nl", "*", "/", "i", "#" >>,
  << "/", "*", "/", "/", "/", "*", "/" >>,
  << "quote", "/", "/", "quote", "/", "/", "/" >>,
  << "0", "x", "8", "f", "nl", "8", "e", "8" >>,
  << "0", ".", "0", "e", "8", "sp", "0", "0" >>,
  << "0", "b", "0", "0", "sp", "0", "x", "b", "8" >>,
  << "quote", "bslash", "x", "8", "b", "quote" >> }

Edits(s) ==
  LET places == DOMAIN s IN
  {s} \cup {SubSeq(s, 1, i - 1) \o SubSeq(s, i + 1, Len(s)) : i \in places}
      \cup {[s EXCEPT ![i] = c] : i \in places, c \in Char}
      \cup {SubSeq(s, 1, i) \o << c >> \o SubSeq(s, i + 1, Len(s)) : i \in 0 .. Len(s), c \in Char}

MCSources == Short \cup UNION {Edits(s) : s \in Seeds}
=============================================================================
