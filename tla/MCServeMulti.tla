--------------------------- MODULE MCServeMulti ----------------------------
(* Instances of ServeMulti for TLC. *)
EXTENDS ServeMulti, TLC

\* Masters differ in name only, and so do slaves.
Symmetry == Permutations(Masters) \cup Permutations(Slaves)
=============================================================================
