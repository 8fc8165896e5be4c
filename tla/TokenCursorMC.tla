---------------------------- MODULE TokenCursorMC ----------------------------
(* Every list of at most four tokens and the End token. *)
EXTENDS TokenCursor

MCLists == {Append(s, "End") : s \in UNION {[1 .. n -> Kinds \ {"End"}] : n \in 0 .. 4}}
=============================================================================
