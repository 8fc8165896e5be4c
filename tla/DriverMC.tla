------------------------------ MODULE DriverMC ------------------------------
(* Command lines: all short ones, and everything an edit away from whole ones. *)
EXTENDS Driver

Words == {"-l", "-I", "-o", "cpp", "ts", "x", ""}

Whole == {
  << "-l", "cpp", "-o", "out", "x" >>,
  << "x", "-o", "-l", "-l", "ts" >>,
  << "-I", "-o", "-o", "out", "x", "-l", "cpp" >> }

Edits(a) ==
  {a} \cup {SubSeq(a, 1, p - 1) \o SubSeq(a, p + 1, Len(a)) : p \in DOMAIN a}
      \cup {[a EXCEPT ![p] = w] : p \in DOMAIN a, w \in Words}
      \cup {SubSeq(a, 1, p) \o << w >> \o SubSeq(a, p + 1, Len(a)) : p \in 0 .. Len(a), w \in Words}

MCArgLists ==
  {<< >>} \cup {<< a >> : a \in Words} \cup {<< a, b >> : a, b \in Words}
    \cup {<< a, b, c >> : a, b, c \in Words}
    \cup UNION {Edits(a) : a \in Whole}
=============================================================================
