---------------------------- MODULE MCDumpEngine ----------------------------
(* Instances of DumpEngine for TLC. *)
EXTENDS DumpEngine, TLC

Symmetry == Permutations(Dumps) \cup Permutations(Grants) \cup Permutations(Cases)
=============================================================================
