--------------------------- MODULE MCTransMachine ---------------------------
(* TransMachine on small instances. *)
EXTENDS TransMachine, TLC

Symmetry == Permutations(Answers) \cup Permutations(Keys)
=============================================================================
