---------------------------- MODULE NodeLifecycle ----------------------------
(***************************************************************************)
(* What the deferred destruction of AST nodes promises: a node is created  *)
(* once, may become garbage, and every piece of garbage is destroyed once. *)
(* When the document is gone no node is left.                              *)
(***************************************************************************)
CONSTANT Nodes

VARIABLES live, garbage, dead, gone
lifecycle == << live, garbage, dead, gone >>

LInit == live = {} /\ garbage = {} /\ dead = {} /\ gone = FALSE

\* A new node may take the place of others.
Create(n, S) ==
  /\ ~gone /\ n \notin live \cup garbage \cup dead
  /\ live' = (live \ S) \cup {n} /\ garbage' = garbage \cup S
  /\ UNCHANGED << dead, gone >>

\* The last owner of the nodes S lets go.
Discard(S) ==
  /\ ~gone /\ live' = live \ S /\ garbage' = garbage \cup S
  /\ UNCHANGED << dead, gone >>

\* Destroying a node may make garbage of the nodes it owned.
Destroy(n, S) ==
  /\ n \in garbage
  /\ live' = live \ S
  /\ garbage' = (garbage \ {n}) \cup S
  /\ dead' = dead \cup {n}
  /\ UNCHANGED gone

Retire == ~gone /\ live = {} /\ garbage = {} /\ gone' = TRUE /\ UNCHANGED << live, garbage, dead >>

LNext ==
  \/ \E n \in Nodes, S \in SUBSET live : Create(n, S)
  \/ \E S \in SUBSET live : Discard(S)
  \/ \E n \in Nodes, S \in SUBSET live : Destroy(n, S)
  \/ Retire

\* Garbage does not stay.
LFairness == \A n \in Nodes : WF_lifecycle(\E S \in SUBSET live : Destroy(n, S))

LSafety == LInit /\ [][LNext]_lifecycle
LSpec == LSafety /\ LFairness
=============================================================================
