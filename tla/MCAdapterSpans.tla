--------------------------- MODULE MCAdapterSpans ---------------------------
(* An instance of AdapterSpans for TLC. *)
EXTENDS AdapterSpans, TLC

\* Run ids are compared only for equality, and the agents are alike.
Symmetry == {p @@ q : p \in Permutations(Runs), q \in Permutations(Agents)}
=============================================================================
