---------------------------- MODULE MCDumpService ----------------------------
(* Instances of DumpService for TLC. *)
EXTENDS DumpService, TLC

Symmetry == Permutations(Dumps)
=============================================================================
